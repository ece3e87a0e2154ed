---------------------------- MODULE NarInfoProofs ----------------------------
(***************************************************************************)
(* What holds of a narinfo for any versions, calls and instances: it does  *)
(* not disappear unless somebody asks for it, a get finds what is there    *)
(* while it is migrated, and an uploaded narinfo ends with the hash of its *)
(* NAR file.                                                               *)
(***************************************************************************)
EXTENDS NarInfo, TLAPS

Answers == {"ok", "notfound", "purged", "error"}

LEMMA ProcFacts ==
    /\ \A t \in Tasks : Self(t) \in Procs /\ Mig(t) \in Procs
    /\ \A i \in Instances : Pull(i) \in Procs
    /\ \A t, u \in Tasks : Self(t) = Self(u) => t = u
    /\ \A t, u \in Tasks : Self(t) # Mig(u)
    /\ \A t \in Tasks, i \in Instances : Self(t) # Pull(i) /\ Mig(t) # Pull(i)
    /\ \A i, j \in Instances : Pull(i) = Pull(j) => i = j
    /\ \A v \in Versions : Fetched(v) \in Procs
    /\ \A v, w \in Versions : Fetched(v) = Fetched(w) => v = w
    /\ \A v \in Versions, t \in Tasks : Fetched(v) # Self(t) /\ Fetched(v) # Mig(t)
    /\ \A v \in Versions, i \in Instances : Fetched(v) # Pull(i)
  BY DEF Procs, Self, Mig, Pull, Fetched

-----------------------------------------------------------------------------
(* What a step does to its goroutine.                                      *)
Others(x) == \A y \in Procs \ {x} : p'[y] = p[y]
Typed == p \in [Procs -> Local]

LEMMA StepNames ==
    /\ "db" \in Steps /\ "done" \in Steps /\ "fix" \in Steps /\ "present" \in Steps
    /\ "resize" \in Steps /\ "sum" \in Steps
  BY DEF Steps

(* Goroutine x becomes l, the others stay.                                 *)
LEMMA BecomesFacts ==
    ASSUME Typed, NEW x \in Procs, NEW l \in Local, p' = [p EXCEPT ![x] = l]
    PROVE  Typed' /\ Others(x) /\ p'[x] = l
  BY DEF Typed, Others

LEMMA MoveFacts ==
    ASSUME Typed, NEW x \in Procs, NEW to \in Steps, Move(x, to)
    PROVE  /\ Typed' /\ Others(x)
           /\ p'[x].pc = to /\ p'[x].ni = p[x].ni /\ p'[x].site = p[x].site
  <1> DEFINE l == [p[x] EXCEPT !.pc = to]
  <1>1. p[x] \in Local
    BY DEF Typed
  <1>2. l \in Local /\ l.pc = to /\ l.ni = p[x].ni /\ l.site = p[x].site
    BY <1>1 DEF Local
  <1>3. p' = [p EXCEPT ![x] = l]
    BY DEF Move, Typed
  <1> QED
    BY <1>2, <1>3, BecomesFacts

LEMMA EndFacts ==
    ASSUME Typed, NEW x \in Procs, NEW res \in {"ok", "notfound", "error"}, End(x, res)
    PROVE  /\ Typed' /\ Others(x)
           /\ p'[x].pc = "done" /\ p'[x].res = res
  <1> DEFINE l == [p[x] EXCEPT !.pc = "done", !.res = res]
  <1>1. p[x] \in Local
    BY DEF Typed
  <1>2. l \in Local /\ l.pc = "done" /\ l.res = res
    BY <1>1, StepNames DEF Local
  <1>3. p' = [p EXCEPT ![x] = l]
    BY DEF End, Typed
  <1> QED
    BY <1>2, <1>3, BecomesFacts

LEMMA CallFacts ==
    ASSUME Typed, NEW x \in Procs, NEW site \in {"first", "retry", "again", "pull"}, Call(x, site)
    PROVE  /\ Typed' /\ Others(x)
           /\ p'[x].pc = "db" /\ p'[x].site = site
  <1> DEFINE l == [p[x] EXCEPT !.pc = "db", !.site = site]
  <1>1. p[x] \in Local
    BY DEF Typed
  <1>2. l \in Local /\ l.pc = "db" /\ l.site = site
    BY <1>1, StepNames DEF Local
  <1>3. p' = [p EXCEPT ![x] = l]
    BY DEF Call, Typed
  <1> QED
    BY <1>2, <1>3, BecomesFacts

LEMMA MissFacts ==
    ASSUME Typed, NEW t \in Tasks, Miss(Self(t))
    PROVE  /\ Typed' /\ Others(Self(t))
           /\ IF Kind(t) = "ask" THEN p'[Self(t)].pc = "done" /\ p'[Self(t)].res = "notfound"
                                 ELSE p'[Self(t)].pc = "coord"
  <1>1. Self(t) \in Procs /\ (Self(t) \in {Self(u) : u \in {v \in Tasks : Kind(v) = "ask"}} <=> Kind(t) = "ask")
    BY ProcFacts
  <1>2. CASE Kind(t) = "ask"
    BY <1>1, <1>2, EndFacts DEF Miss
  <1>3. CASE Kind(t) # "ask"
    BY <1>1, <1>3, MoveFacts DEF Miss, Steps
  <1> QED
    BY <1>2, <1>3

(* The answer of a lookup.                                                 *)
LEMMA AnswerFacts ==
    ASSUME Typed, NEW x \in Procs, NEW r \in Answers, Answer(x, r)
    PROVE  /\ Typed' /\ Others(x)
           /\ \/ /\ p'[x].pc = "done" /\ p[x].site # "pull" /\ (r = "ok" => p'[x].res = "ok")
                 /\ p[x].site = "first" => r \in {"ok", "error"}
              \/ p'[x].pc = "look" /\ p[x].site = "first" /\ r \in {"notfound", "purged"}
              \/ p'[x].pc = "db" /\ p'[x].site = "retry" /\ p[x].site = "retry" /\ r = "notfound"
              \/ p'[x].pc \in {"finish", "fetch"} /\ p[x].site = "pull"
  <1>0. p[x].site \in {"first", "retry", "again", "pull"} /\ p[x].tries \in 1..Retries
    BY DEF Typed, Local
  <1>1. CASE p[x].site = "first"
    <2>1. \/ r \in {"ok", "error"} /\ End(x, r)
          \/ r \in {"notfound", "purged"} /\ Move(x, "look")
      BY <1>1 DEF Answer, Answers
    <2> QED
      BY <1>1, <2>1, EndFacts, MoveFacts DEF Steps
  <1>2. CASE p[x].site = "retry" /\ r = "notfound" /\ p[x].tries > 1
    <2> DEFINE l == [p[x] EXCEPT !.pc = "db", !.tries = p[x].tries - 1]
    <2>1. p' = [p EXCEPT ![x].pc = "db", ![x].tries = @ - 1]
      BY <1>2 DEF Answer
    <2>2. p[x].tries - 1 \in 1..Retries
      BY <1>0, <1>2, RetryAssumption
    <2>3. p[x] \in Local
      BY DEF Typed
    <2>4. l \in Local /\ l.pc = "db" /\ l.site = "retry"
      BY <1>2, <2>2, <2>3 DEF Local, Steps
    <2>5. p' = [p EXCEPT ![x] = l]
      BY <2>1 DEF Typed
    <2> HIDE DEF l
    <2> QED
      BY <1>2, <2>4, <2>5, BecomesFacts
  <1>3. CASE p[x].site = "retry" /\ ~(r = "notfound" /\ p[x].tries > 1)
    <2>1. \/ r = "ok" /\ End(x, "ok")
          \/ r # "ok" /\ End(x, "notfound")
      BY <1>3 DEF Answer
    <2> QED
      BY <1>3, <2>1, EndFacts
  <1>4. CASE p[x].site = "again"
    <2>1. \/ r \in {"ok", "error"} /\ End(x, r)
          \/ r # "ok" /\ End(x, "notfound")
      BY <1>4 DEF Answer, Answers
    <2> QED
      BY <1>4, <2>1, EndFacts
  <1>5. CASE p[x].site = "pull"
    <2>1. Move(x, "finish") \/ Move(x, "fetch")
      BY <1>5 DEF Answer
    <2> QED
      BY <1>5, <2>1, MoveFacts DEF Steps
  <1> QED
    BY <1>0, <1>1, <1>2, <1>3, <1>4, <1>5

LEMMA AtLocal == \A pc \in Steps : At(pc) \in Local /\ At(pc).pc = pc
  BY RetryAssumption DEF At, Local

(* The end of a pull.                                                      *)
LEMMA EndPullFacts ==
    ASSUME Typed, NEW i \in Instances, NEW err \in {"", "notfound", "error"}, EndPull(i, err)
    PROVE  /\ Typed' /\ p'[Pull(i)].pc = "off"
           /\ \A x \in Procs \ {Pull(i)} :
                 \/ p'[x] = p[x]
                 \/ /\ p[x].pc = "wait" /\ (err = "" => p'[x].pc = "db" /\ p'[x].site = "again")
                    /\ err # "" => p'[x].pc = "done"
  <1> DEFINE W == {Self(t) : t \in {u \in Tasks : Home[u] = i /\ Is(u, {"get"}, "wait")}}
  <1>1. p' = [x \in Procs |->
                IF x = Pull(i) THEN At("off")
                ELSE IF x \notin W THEN p[x]
                ELSE IF err # "" THEN [p[x] EXCEPT !.pc = "done", !.res = err]
                ELSE [p[x] EXCEPT !.pc = "db", !.site = "again"]]
    BY DEF EndPull
  <1>2. \A x \in W : p[x].pc = "wait"
    BY DEF Is
  <1> HIDE DEF W
  <1>3. At("off") \in Local /\ At("off").pc = "off"
    BY AtLocal DEF At, Steps
  <1>4. ASSUME NEW x \in W, x \in Procs
        PROVE  /\ [p[x] EXCEPT !.pc = "db", !.site = "again"] \in Local
               /\ err # "" => [p[x] EXCEPT !.pc = "done", !.res = err] \in Local
    <2>1. p[x] \in Local
      BY <1>4 DEF Typed
    <2> QED
      BY <2>1, StepNames DEF Local
  <1>5. Typed'
    BY <1>1, <1>3, <1>4 DEF Typed
  <1>6. p'[Pull(i)].pc = "off"
    BY <1>1, <1>3, ProcFacts
  <1>7. ASSUME NEW x \in Procs, x # Pull(i)
        PROVE  \/ p'[x] = p[x]
               \/ /\ p[x].pc = "wait" /\ (err = "" => p'[x].pc = "db" /\ p'[x].site = "again")
                  /\ err # "" => p'[x].pc = "done"
    <2>1. CASE x \notin W
      BY <1>1, <1>7, <2>1
    <2>2. CASE x \in W /\ err # ""
      BY <1>1, <1>2, <1>7, <2>2 DEF Typed, Local
    <2>3. CASE x \in W /\ err = ""
      BY <1>1, <1>2, <1>7, <2>3 DEF Typed, Local
    <2> QED
      BY <2>1, <2>2, <2>3
  <1> QED
    BY <1>5, <1>6, <1>7

-----------------------------------------------------------------------------
(* What a goroutine knows at the steps that carry a narinfo from one place *)
(* to another or take one away: the narinfo that is migrated is the legacy *)
(* one, that which is pulled is upstream's, and the object is removed once *)
(* the row has a URL, or after somebody asked for it.                      *)
Repairing == {"present", "measure", "resize", "sum", "rehash"}
IsPull(x) == \E i \in Instances : x = Pull(i)
Path(x) ==
    /\ p[x].pc \in {"check", "job", "start", "try", "double", "insert"}
          => p[x].ni = scenario.legacy /\ p[x].ni # None
    /\ p[x].pc \in {"nar", "sign"} \/ (p[x].pc = "store" /\ IsPull(x))
          => p[x].ni = scenario.upstream /\ p[x].ni # None
    /\ p[x].pc \in {"remove", "clean", "wipe"} => HeldRow \/ asked
    /\ p[x].pc \in {"purge obj", "object"} => asked
    /\ p[x].pc \in {"present", "measure", "resize", "sum", "rehash"}
          => p[x].ni \in Versions /\ (p[x].ni = row \/ asked)
Paths == obj \in {scenario.legacy, None} /\ \A x \in Procs : Path(x)

Laden == {"check", "job", "start", "try", "double", "insert", "nar", "sign", "store", "remove",
          "clean", "wipe", "purge obj", "object", "present", "measure", "resize",
          "sum", "rehash"}

(* What every step keeps.                                                  *)
Frame ==
    /\ scenario' = scenario
    /\ obj' \in {obj, None}
    /\ asked => asked'
    /\ HeldRow => (HeldRow' /\ row' = row) \/ asked'

(* A step of one goroutine.                                                *)
Effect(x) == Typed' /\ Others(x) /\ Frame /\ Path(x)'

LEMMA StillFrame == Still => Frame
  BY DEF Still, Quiet, Track, Frame, HeldRow, db

LEMMA UnladenPath ==
    ASSUME NEW x, p'[x].pc \notin Laden
    PROVE  Path(x)'
  BY DEF Path, Laden

LEMMA PathFrame ==
    ASSUME Frame, NEW x, Path(x), p'[x] = p[x]
    PROVE  Path(x)'
  BY DEF Frame, Path, HeldRow

LEMMA EffectPaths ==
    ASSUME Paths, NEW x \in Procs, Effect(x)
    PROVE  Paths'
  <1>1. ASSUME NEW y \in Procs, y # x PROVE Path(y)'
    BY <1>1, PathFrame DEF Paths, Effect, Others
  <1> QED
    BY <1>1 DEF Paths, Effect, Frame

LEMMA ReaderEffect ==
    ASSUME TypeOK, Paths, NEW x \in Procs, Reader(x)
    PROVE  Effect(x)
  <1>0. Typed /\ Frame
    BY StillFrame DEF TypeOK, Typed, Reader, DbRead, DbStat, DbJobs, DbRecheck
  <1> SUFFICES Typed' /\ Others(x) /\ p'[x].pc \notin Laden
    BY <1>0, UnladenPath DEF Effect
  <1>1. ASSUME NEW r \in Answers, Answer(x, r) PROVE Typed' /\ Others(x) /\ p'[x].pc \notin Laden
    BY <1>0, <1>1, AnswerFacts DEF Laden
  <1>2. ASSUME NEW to \in {"jobs", "recheck"}, Move(x, to)
        PROVE  Typed' /\ Others(x) /\ p'[x].pc \notin Laden
    BY <1>0, <1>2, MoveFacts DEF Laden, Steps
  <1>3. CASE DbRead(x)
    <2>1. CASE HeldRow /\ p' = [p EXCEPT ![x].pc = "stat", ![x].ni = row]
      <3> DEFINE l == [p[x] EXCEPT !.pc = "stat", !.ni = row]
      <3>1. p[x] \in Local /\ row \in Versions
        BY <1>0, <2>1 DEF Typed, HeldRow
      <3>2. l \in Local /\ l.pc = "stat"
        BY <3>1, ZenonT(60) DEF Local, Steps
      <3>3. p' = [p EXCEPT ![x] = l]
        BY <1>0, <2>1 DEF Typed
      <3> HIDE DEF l
      <3> QED
        BY <1>0, <3>2, <3>3, BecomesFacts DEF Laden
    <2> QED
      BY <1>1, <1>3, <2>1 DEF DbRead, Answers
  <1>4. CASE DbStat(x)
    BY <1>1, <1>2, <1>4 DEF DbStat, Answers
  <1>5. CASE DbJobs(x)
    BY <1>1, <1>2, <1>5 DEF DbJobs, Answers
  <1>6. CASE DbRecheck(x)
    BY <1>1, <1>6 DEF DbRecheck, Answers
  <1> QED
    BY <1>3, <1>4, <1>5, <1>6 DEF Reader

-----------------------------------------------------------------------------
(* A step that leaves its goroutine where it carries nothing.              *)
LEMMA LightEffect ==
    ASSUME Typed, Frame, NEW x \in Procs,
           \/ \E to \in Steps \ Laden : Move(x, to)
           \/ \E res \in {"ok", "notfound", "error"} : End(x, res)
           \/ \E site \in {"first", "retry", "again", "pull"} : Call(x, site)
           \/ \E l \in Local : l.pc \notin Laden /\ p' = [p EXCEPT ![x] = l]
    PROVE  Effect(x)
  <1> SUFFICES Typed' /\ Others(x) /\ p'[x].pc \notin Laden
    BY UnladenPath DEF Effect
  <1>1. CASE \E to \in Steps \ Laden : Move(x, to)
    BY <1>1, MoveFacts
  <1>2. CASE \E res \in {"ok", "notfound", "error"} : End(x, res)
    BY <1>2, EndFacts DEF Laden
  <1>3. CASE \E site \in {"first", "retry", "again", "pull"} : Call(x, site)
    BY <1>3, CallFacts DEF Laden
  <1>4. CASE \E l \in Local : l.pc \notin Laden /\ p' = [p EXCEPT ![x] = l]
    BY <1>4, BecomesFacts
  <1> QED
    BY <1>1, <1>2, <1>3, <1>4

LEMMA MissEffect ==
    ASSUME Typed, Frame, NEW t \in Tasks, Miss(Self(t))
    PROVE  Effect(Self(t))
  BY MissFacts, ProcFacts, UnladenPath DEF Effect, Laden

(* A scenario's narinfos.                                                  *)
LEMMA ScenarioFacts ==
    ASSUME TypeOK
    PROVE  /\ scenario.legacy \in Versions \cup {None, Bad}
           /\ scenario.upstream \in Versions \cup {None}
           /\ \A t \in Tasks : Item(t) \in Versions
  BY ScenarioAssumption DEF TypeOK, Scenario, Item

LEMMA MigratorEffect ==
    ASSUME TypeOK, Paths, NEW x \in Procs, Migrator(x)
    PROVE  Effect(x)
  <1>0. Typed /\ Path(x)
    BY DEF TypeOK, Typed, Paths
  <1>1. CASE MigTryLock(x)
    <2>1. Frame
      BY <1>1 DEF MigTryLock, Frame, Quiet, Track, db, HeldRow
    <2>2. CASE Move(x, "double")
      BY <1>0, <1>1, <2>1, <2>2, MoveFacts DEF MigTryLock, Effect, Path, Steps, Frame
    <2> QED
      BY <1>0, <1>1, <2>1, <2>2, LightEffect DEF MigTryLock
  <1>2. CASE MigDoubleCheck(x)
    <2>1. Frame
      BY <1>2 DEF MigDoubleCheck, Frame, Quiet, Track, db, HeldRow
    <2>2. CASE Move(x, "insert")
      BY <1>0, <1>2, <2>1, <2>2, MoveFacts DEF MigDoubleCheck, Effect, Path, Steps, Frame
    <2> QED
      BY <1>0, <1>2, <2>1, <2>2, LightEffect DEF MigDoubleCheck
  <1>3. CASE MigStore(x)
    <2>1. CASE /\ p[x].ni # Bad
               /\ StoreInDatabase(p[x].ni) /\ Move(x, "remove") /\ UNCHANGED migLock
      <3>1. p[x].ni \in Versions
        BY <1>0, <1>3, <2>1, ScenarioFacts DEF MigStore, Path
      <3>2. HeldRow'
        BY <2>1, <3>1 DEF StoreInDatabase, UpsertNarInfo, HeldRow
      <3>3. Frame
        BY <1>3, <2>1, <3>2
           DEF MigStore, StoreInDatabase, UpsertNarInfo, Frame, Quiet, Track
      <3> QED
        BY <1>0, <2>1, <3>2, <3>3, MoveFacts DEF Effect, Path, Steps
    <2>2. CASE End(x, "error") /\ UNCHANGED db
      <3>1. Frame
        BY <1>3, <2>2 DEF MigStore, Frame, Quiet, Track, db, HeldRow
      <3> QED
        BY <1>0, <2>2, <3>1, LightEffect
    <2> QED
      BY <1>3, <2>1, <2>2 DEF MigStore
  <1>4. CASE MigRemove(x)
    <2>1. Frame
      BY <1>4 DEF MigRemove, Frame, Quiet, Track, db, HeldRow
    <2> QED
      BY <1>0, <1>4, <2>1, LightEffect DEF MigRemove
  <1> QED
    BY <1>1, <1>2, <1>3, <1>4 DEF Migrator

(* A goroutine that moves on with what it has, or with the legacy object.  *)
LEMMA LadenMove ==
    ASSUME Typed, Frame, NEW x \in Procs, Path(x), NEW to \in Steps, Move(x, to),
           \/ /\ p[x].pc \in {"check", "job", "start", "try", "double", "insert"}
              /\ to \in {"check", "job", "start", "try", "double", "insert"}
           \/ /\ p[x].pc \in {"nar", "sign"}
              /\ to = "sign" \/ to = "store"
    PROVE  Effect(x)
  BY MoveFacts DEF Effect, Path, Frame

LEMMA PickUp ==
    ASSUME Typed, Frame, obj \in {scenario.legacy, None}, obj # None, NEW x \in Procs,
           obj \in Versions \cup {Bad}, NEW to \in {"check", "try"},
           p' = [p EXCEPT ![x].pc = to, ![x].ni = obj]
    PROVE  Effect(x)
  <1> DEFINE l == [p[x] EXCEPT !.pc = to, !.ni = obj]
  <1>1. p[x] \in Local
    BY DEF Typed
  <1>2. l \in Local /\ l.pc = to /\ l.ni = obj
    BY <1>1, ZenonT(60) DEF Local, Steps
  <1>3. p' = [p EXCEPT ![x] = l]
    BY DEF Typed
  <1> HIDE DEF l
  <1>4. Typed' /\ Others(x) /\ p'[x] = l
    BY <1>2, <1>3, BecomesFacts
  <1>5. p'[x].pc \in {"check", "try"} /\ p'[x].ni = obj /\ obj = scenario.legacy /\ obj # None
    BY <1>2, <1>4
  <1>6. scenario' = scenario
    BY DEF Frame
  <1> QED
    BY <1>4, <1>5, <1>6 DEF Effect, Path

(* The transaction that purges or evicts.                                  *)
LEMMA TakeLinks ==
    ASSUME TypeOK, NEW x \in Procs, NEW to \in Steps,
           p' = [p EXCEPT ![x].pc = to, ![x].orphans = links]
    PROVE  Typed' /\ Others(x) /\ p'[x].pc = to
  <1> DEFINE l == [p[x] EXCEPT !.pc = to, !.orphans = links]
  <1>0. Typed
    BY DEF TypeOK, Typed
  <1>1. p[x] \in Local /\ links \subseteq Versions
    BY DEF TypeOK
  <1>2. l \in Local /\ l.pc = to
    BY <1>1 DEF Local
  <1>3. p' = [p EXCEPT ![x] = l]
    BY <1>0 DEF Typed
  <1> HIDE DEF l
  <1> QED
    BY <1>0, <1>2, <1>3, BecomesFacts

LEMMA GetterEffect ==
    ASSUME TypeOK, Paths, NEW t \in Tasks,
           \/ /\ Getter(t) /\ ~StartMigration(t) /\ ~StartPull(t)
           \/ WaitFails(t) \/ Cancel(t)
    PROVE  Effect(Self(t))
  <1> DEFINE x == Self(t)
  <1>0. /\ Typed /\ x \in Procs /\ Path(x) /\ obj \in {scenario.legacy, None}
        /\ obj \in Versions \cup {None, Bad}
    BY ProcFacts DEF TypeOK, Typed, Paths
  <1> HIDE DEF x
  <1>1. CASE GetNarInfo(t)
    <2>1. Frame
      BY <1>1 DEF GetNarInfo, Frame, db, HeldRow
    <2> QED
      BY <1>0, <1>1, <2>1, LightEffect DEF GetNarInfo, x
  <1>2. CASE HasNarInfo(t)
    BY <1>0, <1>2, StillFrame, LightEffect, MissEffect DEF HasNarInfo, x, Steps, Laden
  <1>3. CASE ReadObject(t)
    <2>1. Frame
      BY <1>3, StillFrame DEF ReadObject
    <2>2. CASE obj \in Versions /\ p' = [p EXCEPT ![Self(t)].pc = "check", ![Self(t)].ni = obj]
      BY <1>0, <2>1, <2>2, PickUp, MarkAssumption DEF x
    <2>3. ASSUME NEW to \in {"waitmig", "purge"}, Move(Self(t), to) PROVE Effect(Self(t))
      BY <1>0, <2>1, <2>3, LightEffect DEF x, Steps, Laden
    <2>4. CASE End(Self(t), "error")
      BY <1>0, <2>1, <2>4, LightEffect DEF x
    <2> QED
      BY <1>3, <2>2, <2>3, <2>4 DEF ReadObject
  <1>4. CASE CheckObject(t)
    <2>1. Frame
      BY <1>4, StillFrame DEF CheckObject
    <2>2. ASSUME NEW to \in {"start", "job"}, Move(x, to) PROVE Effect(x)
      <3>1. p[x].pc = "check"
        BY <1>4 DEF CheckObject, Is, x
      <3> QED
        BY <1>0, <2>1, <2>2, <3>1, LadenMove DEF Steps
    <2>3. ASSUME NEW res \in {"ok", "error"}, End(x, res) PROVE Effect(x)
      BY <1>0, <2>1, <2>3, LightEffect
    <2> QED
      BY <1>4, <2>2, <2>3 DEF CheckObject, x
  <1>5. CASE CheckJob(t)
    <2>1. Frame
      BY <1>5, StillFrame DEF CheckJob
    <2>2. CASE Move(x, "start")
      <3>1. p[x].pc = "job"
        BY <1>5 DEF CheckJob, Is, x
      <3> QED
        BY <1>0, <2>1, <2>2, <3>1, LadenMove DEF Steps, x
    <2>3. CASE Miss(Self(t))
      BY <1>0, <2>1, <2>3, MissEffect
    <2> QED
      BY <1>5, <2>2, <2>3 DEF CheckJob, x
  <1>6. CASE PurgeRows(t)
    <2>1. CASE /\ p' = [p EXCEPT ![Self(t)].pc = "purge obj", ![Self(t)].orphans = links]
               /\ asked' = TRUE
      <3>1. Frame
        BY <1>6, <2>1 DEF PurgeRows, Frame, Track
      <3>2. Typed' /\ Others(x) /\ p'[x].pc = "purge obj"
        BY <1>0, <2>1, TakeLinks DEF x, Steps
      <3> QED
        BY <2>1, <3>1, <3>2 DEF Effect, Path, x
    <2>2. CASE Miss(Self(t)) /\ UNCHANGED <<db, asked>>
      <3>1. Frame
        BY <1>6, <2>2 DEF PurgeRows, Frame, Track, db, HeldRow
      <3> QED
        BY <1>0, <2>2, <3>1, MissEffect
    <2> QED
      BY <1>6, <2>1, <2>2 DEF PurgeRows
  <1>7. CASE PurgeObject(t)
    <2>1. asked /\ Frame
      BY <1>0, <1>7 DEF PurgeObject, Is, x, Path, Frame, Track
    <2> QED
      BY <1>0, <1>7, <2>1, LightEffect, MissEffect DEF PurgeObject, x, Steps, Laden
  <1>8. CASE PurgeBytes(t)
    <2>1. Frame
      BY <1>8 DEF PurgeBytes, Frame, Quiet, Track, db, HeldRow
    <2> QED
      BY <1>0, <1>8, <2>1, MissEffect DEF PurgeBytes
  <1>9. CASE WaitMigration(t) \/ WaitPut(t) \/ WaitFails(t)
    <2>1. Frame
      BY <1>9, StillFrame DEF WaitMigration, WaitPut, WaitFails
    <2> QED
      BY <1>0, <1>9, <2>1, LightEffect DEF WaitMigration, WaitPut, WaitFails, x, Steps, Laden
  <1>10. CASE JoinPull(t) \/ FoundMeanwhile(t)
    <2>1. Frame
      BY <1>10, StillFrame DEF JoinPull, FoundMeanwhile
    <2> QED
      BY <1>0, <1>10, <2>1, LightEffect DEF JoinPull, FoundMeanwhile, x, Steps, Laden
  <1>11. CASE Cancel(t)
    <2>1. Frame
      BY <1>11 DEF Cancel, Frame, Quiet, Track, db, HeldRow
    <2> QED
      BY <1>0, <1>11, <2>1, LightEffect DEF Cancel, x
  <1> QED
    BY <1>1, <1>2, <1>3, <1>4, <1>5, <1>6, <1>7, <1>8, <1>9, <1>10, <1>11 DEF Getter, x

-----------------------------------------------------------------------------
(* Steps that change two goroutines or more.                               *)
Effects == Typed' /\ Frame /\ Paths'

LEMMA OneEffect ==
    ASSUME Paths, NEW x \in Procs, Effect(x)
    PROVE  Effects
  BY EffectPaths DEF Effects, Effect

LEMMA TwoBecome ==
    ASSUME Typed, NEW x \in Procs, NEW y \in Procs, x # y, NEW l \in Local, NEW m \in Local,
           p' = [p EXCEPT ![x] = l, ![y] = m]
    PROVE  /\ Typed' /\ p'[x] = l /\ p'[y] = m
           /\ \A z \in Procs \ {x, y} : p'[z] = p[z]
  BY DEF Typed

LEMMA TwoPaths ==
    ASSUME Paths, Typed', Frame, NEW x \in Procs, NEW y \in Procs, Path(x)', Path(y)',
           \A z \in Procs \ {x, y} : p'[z] = p[z]
    PROVE  Effects
  <1>1. ASSUME NEW z \in Procs PROVE Path(z)'
    BY PathFrame DEF Paths
  <1> QED
    BY <1>1 DEF Effects, Paths, Frame

LEMMA StartMigrationSteps ==
    ASSUME TypeOK, Paths, NEW t \in Tasks, StartMigration(t), ~End(Self(t), "error")
    PROVE  /\ Typed'
           /\ p'[Self(t)].pc = "done" /\ p'[Self(t)].res = "ok"
           /\ \/ p'[Mig(t)] = p[Mig(t)]
              \/ p'[Mig(t)].pc = "try" /\ p'[Mig(t)].ni = p[Self(t)].ni
           /\ \A z \in Procs \ {Self(t), Mig(t)} : p'[z] = p[z]
  <1> DEFINE x == Self(t)
             y == Mig(t)
             l == [p[x] EXCEPT !.pc = "done", !.res = "ok"]
             m == IF HeldRow THEN p[y] ELSE [At("try") EXCEPT !.ni = p[x].ni]
  <1>1. Typed /\ x \in Procs /\ y \in Procs /\ x # y
    BY ProcFacts DEF TypeOK, Typed
  <1>2. p[x] \in Local /\ p[y] \in Local /\ At("try") \in Local
    BY <1>1, AtLocal DEF Typed, Steps
  <1>3. l \in Local /\ l.pc = "done" /\ l.res = "ok"
    BY <1>2, StepNames DEF Local
  <1>4. CASE HeldRow
    <2>1. p' = [p EXCEPT ![x] = l, ![y] = p[y]]
      BY <1>1, <1>4 DEF StartMigration, Typed
    <2> HIDE DEF x, y, l
    <2>2. /\ Typed' /\ p'[x] = l /\ p'[y] = p[y]
          /\ \A z \in Procs \ {x, y} : p'[z] = p[z]
      BY <1>1, <1>2, <1>3, <2>1, TwoBecome
    <2> QED
      BY <1>3, <2>2 DEF x, y
  <1>5. CASE ~HeldRow
    <2> DEFINE n == [At("try") EXCEPT !.ni = p[x].ni]
    <2>0. n \in Local /\ n.pc = "try" /\ n.ni = p[x].ni
      <3>1. p[x].ni \in Versions \cup {None, Bad}
        BY <1>2 DEF Local
      <3>2. At("try").pc = "try"
        BY AtLocal DEF Steps
      <3> HIDE DEF x
      <3> QED
        BY <1>2, <3>1, <3>2 DEF Local
    <2>1. p' = [p EXCEPT ![x] = l, ![y] = n]
      BY <1>1, <1>5 DEF StartMigration, Typed
    <2> HIDE DEF x, y, l, n
    <2>2. /\ Typed' /\ p'[x] = l /\ p'[y] = n
          /\ \A z \in Procs \ {x, y} : p'[z] = p[z]
      BY <1>1, <2>0, <1>3, <2>1, TwoBecome
    <2> QED
      BY <1>3, <2>0, <2>2 DEF x, y
  <1> QED
    BY <1>4, <1>5

LEMMA StartMigrationEffects ==
    ASSUME TypeOK, Paths, NEW t \in Tasks, StartMigration(t)
    PROVE  Effects
  <1> DEFINE x == Self(t)
             y == Mig(t)
  <1>0. Typed /\ x \in Procs /\ y \in Procs /\ Frame /\ Path(x) /\ Path(y) /\ p[x].pc = "start"
    BY ProcFacts, StillFrame DEF TypeOK, Typed, StartMigration, Paths, Is
  <1> HIDE DEF x, y
  <1>1. CASE End(x, "error")
    BY <1>0, <1>1, LightEffect, OneEffect
  <1>2. CASE ~End(x, "error")
    <2>1. /\ Typed'
          /\ p'[x].pc = "done"
          /\ \/ p'[y] = p[y]
             \/ p'[y].pc = "try" /\ p'[y].ni = p[x].ni
          /\ \A z \in Procs \ {x, y} : p'[z] = p[z]
      BY <1>2, StartMigrationSteps DEF x, y
    <2>2. Path(x)'
      BY <2>1, UnladenPath DEF Laden
    <2>3. Path(y)'
      <3>1. CASE p'[y] = p[y]
        BY <1>0, <3>1, PathFrame
      <3>2. CASE p'[y].pc = "try" /\ p'[y].ni = p[x].ni
        BY <1>0, <3>2 DEF Path, Frame
      <3> QED
        BY <2>1, <3>1, <3>2
    <2> QED
      BY <1>0, <2>1, <2>2, <2>3, TwoPaths
  <1> QED
    BY <1>1, <1>2

LEMMA StartPullSteps ==
    ASSUME TypeOK, NEW t \in Tasks, StartPull(t)
    PROVE  /\ Typed' /\ Home[t] \in Instances
           /\ p'[Self(t)].pc = "wait" /\ p'[Pull(Home[t])].pc = "waitmig"
           /\ \A z \in Procs \ {Self(t), Pull(Home[t])} : p'[z] = p[z]
  <1> DEFINE x == Self(t)
             y == Pull(Home[t])
             l == [p[x] EXCEPT !.pc = "wait"]
             m == At("waitmig")
  <1>0. Home[t] \in Instances
    BY HomeAssumption
  <1>1. Typed /\ x \in Procs /\ y \in Procs /\ x # y
    BY <1>0, ProcFacts DEF TypeOK, Typed
  <1>2. p[x] \in Local
    BY <1>1 DEF Typed
  <1>3. l \in Local /\ l.pc = "wait" /\ m \in Local /\ m.pc = "waitmig"
    <2>1. m \in Local /\ m.pc = "waitmig"
      BY AtLocal DEF Steps
    <2>2. l \in Local /\ l.pc = "wait"
      BY <1>2, ZenonT(60) DEF Local, Steps
    <2> QED
      BY <2>1, <2>2
  <1>4. p' = [p EXCEPT ![x] = l, ![y] = m]
    BY <1>1 DEF StartPull, Typed
  <1> HIDE DEF x, y, l, m
  <1>5. /\ Typed' /\ p'[x] = l /\ p'[y] = m
        /\ \A z \in Procs \ {x, y} : p'[z] = p[z]
    BY <1>1, <1>3, <1>4, TwoBecome
  <1> QED
    BY <1>0, <1>3, <1>5 DEF x, y

LEMMA StartPullEffects ==
    ASSUME TypeOK, Paths, NEW t \in Tasks, StartPull(t)
    PROVE  Effects
  <1>1. Frame
    BY DEF StartPull, Frame, Quiet, Track, db, HeldRow
  <1>2. Self(t) \in Procs /\ Pull(Home[t]) \in Procs
    BY StartPullSteps, ProcFacts
  <1>3. Path(Self(t))' /\ Path(Pull(Home[t]))'
    BY StartPullSteps, UnladenPath DEF Laden
  <1> QED
    BY <1>1, <1>2, <1>3, StartPullSteps, TwoPaths

LEMMA EndPullEffects ==
    ASSUME TypeOK, Paths, Frame, NEW i \in Instances, NEW err \in {"", "notfound", "error"},
           EndPull(i, err)
    PROVE  Effects
  <1>0. Typed
    BY DEF TypeOK, Typed
  <1>1. ASSUME NEW x \in Procs PROVE Path(x)'
    <2>1. CASE x = Pull(i)
      BY <1>0, <2>1, EndPullFacts, UnladenPath DEF Laden
    <2>2. CASE p'[x] = p[x]
      BY <2>2, PathFrame DEF Paths
    <2>3. CASE p'[x].pc \in {"db", "done"}
      BY <2>3, UnladenPath DEF Laden
    <2> QED
      BY <1>0, <2>1, <2>2, <2>3, EndPullFacts
  <1> QED
    BY <1>0, <1>1, EndPullFacts DEF Effects, Paths, Frame

LEMMA PullerEffects ==
    ASSUME TypeOK, Paths, NEW i \in Instances, Puller(i) \/ PullWaitFails(i)
    PROVE  Effects
  <1> DEFINE x == Pull(i)
  <1>0. Typed /\ x \in Procs /\ Path(x) /\ IsPull(x)
    BY ProcFacts DEF TypeOK, Typed, Paths, IsPull
  <1> HIDE DEF x
  <1>1. CASE PullWaitMigration(i) \/ PullWaitPut(i)
    <2>1. Frame
      BY <1>1, StillFrame DEF PullWaitMigration, PullWaitPut
    <2> QED
      BY <1>0, <1>1, <2>1, LightEffect, OneEffect
         DEF PullWaitMigration, PullWaitPut, x, Steps, Laden
  <1>2. CASE PullFinish(i) \/ PullWaitFails(i)
    <2>1. UNCHANGED <<db, obj>> /\ Quiet
      BY <1>2 DEF PullFinish, PullWaitFails
    <2>2. Frame
      BY <2>1 DEF Frame, Quiet, Track, db, HeldRow
    <2> QED
      BY <1>2, <2>2, EndPullEffects DEF PullFinish, PullWaitFails
  <1>3. CASE PullFetch(i)
    <2>1. Frame
      BY <1>3 DEF PullFetch, Frame, Quiet, Track, db, HeldRow
    <2>2. CASE /\ scenario.upstream # None
               /\ p' = [p EXCEPT ![Pull(i)].pc = "nar", ![Pull(i)].ni = scenario.upstream]
      <3> DEFINE l == [p[x] EXCEPT !.pc = "nar", !.ni = scenario.upstream]
      <3>1. p[x] \in Local /\ scenario.upstream \in Versions
        BY <1>0, <2>2, ScenarioFacts DEF Typed
      <3>2. l \in Local /\ l.pc = "nar" /\ l.ni = scenario.upstream
        BY <3>1, ZenonT(60) DEF Local, Steps
      <3>3. p' = [p EXCEPT ![x] = l]
        BY <1>0, <2>2 DEF Typed, x
      <3> HIDE DEF l
      <3>4. Typed' /\ Others(x) /\ p'[x] = l
        BY <1>0, <3>2, <3>3, BecomesFacts
      <3>5. Path(x)'
        BY <2>1, <2>2, <3>2, <3>4 DEF Path, Frame
      <3> QED
        BY <1>0, <2>1, <3>4, <3>5, OneEffect DEF Effect
    <2> QED
      BY <1>3, <2>1, <2>2, EndPullEffects DEF PullFetch
  <1>4. CASE PullNar(i)
    <2>1. Frame /\ p[x].pc = "nar" /\ Move(x, "sign")
      BY <1>4 DEF PullNar, Frame, Quiet, Track, db, HeldRow, x
    <2> QED
      BY <1>0, <2>1, LadenMove, OneEffect DEF Steps
  <1>5. CASE PullSign(i)
    <2>1. Frame /\ p[x].pc = "sign"
      BY <1>5 DEF PullSign, Frame, Quiet, Track, db, HeldRow, x
    <2>2. CASE Move(x, "store")
      BY <1>0, <2>1, <2>2, LadenMove, OneEffect DEF Steps
    <2> QED
      BY <1>5, <2>1, <2>2, EndPullEffects DEF PullSign, x
  <1>6. CASE PullStore(i)
    <2>1. p[x].ni \in Versions
      BY <1>0, <1>6, ScenarioFacts DEF PullStore, Path, x
    <2>2. CASE StoreInDatabase(p[Pull(i)].ni) /\ EndPull(i, "")
      <3>1. Frame
        BY <1>6, <2>1, <2>2 DEF PullStore, StoreInDatabase, UpsertNarInfo, HeldRow, Frame, Quiet, Track, x
      <3> QED
        BY <2>2, <3>1, EndPullEffects
    <2>3. CASE EndPull(i, "error") /\ UNCHANGED db
      <3>1. Frame
        BY <1>6, <2>3 DEF PullStore, HeldRow, Frame, Quiet, Track, db
      <3> QED
        BY <2>3, <3>1, EndPullEffects
    <2> QED
      BY <1>6, <2>2, <2>3 DEF PullStore
  <1> QED
    BY <1>1, <1>2, <1>3, <1>4, <1>5, <1>6 DEF Puller

LEMMA WriterEffect ==
    ASSUME TypeOK, Paths, NEW t \in Tasks, Writer(t) \/ Evict(t)
    PROVE  Effect(Self(t))
  <1> DEFINE x == Self(t)
  <1>0. /\ Typed /\ x \in Procs /\ Path(x) /\ ~IsPull(x) /\ obj \in {scenario.legacy, None}
        /\ obj \in Versions \cup {None, Bad} /\ Item(t) \in Versions
    BY ProcFacts, ScenarioFacts DEF TypeOK, Typed, Paths, IsPull
  <1> HIDE DEF x
  <1>1. CASE PutBegin(t)
    <2>1. Frame
      BY <1>1 DEF PutBegin, Frame, Quiet, Track, db, HeldRow
    <2>2. CASE Move(x, "store")
      BY <1>0, <2>1, <2>2, MoveFacts DEF Effect, Path, Steps, IsPull, x
    <2> QED
      BY <1>0, <1>1, <2>1, <2>2, LightEffect DEF PutBegin, x
  <1>2. CASE PutStore(t)
    <2>1. CASE StoreInDatabase(Item(t)) /\ Move(x, "clean")
      <3>1. HeldRow' /\ Frame
        BY <1>0, <1>2, <2>1
           DEF PutStore, StoreInDatabase, UpsertNarInfo, HeldRow, Frame, Quiet, Track
      <3> QED
        BY <1>0, <2>1, <3>1, MoveFacts DEF Effect, Path, Steps, x
    <2>2. CASE End(x, "error") /\ UNCHANGED db
      <3>1. Frame
        BY <1>2, <2>2 DEF PutStore, Frame, Quiet, Track, db, HeldRow
      <3> QED
        BY <1>0, <2>2, <3>1, LightEffect DEF x
    <2> QED
      BY <1>2, <2>1, <2>2 DEF PutStore, x
  <1>3. CASE PutClean(t)
    <2>1. Frame
      BY <1>3 DEF PutClean, Frame, Quiet, Track, db, HeldRow
    <2> QED
      BY <1>0, <1>3, <2>1, LightEffect DEF PutClean, x, Steps, Laden
  <1>4. CASE SendStore(t)
    <2>1. Frame
      BY <1>4 DEF SendStore, Frame, Quiet, Track, db, HeldRow
    <2> QED
      BY <1>0, <1>4, <2>1, LightEffect DEF SendStore, x, Steps, Laden
  <1>5. CASE SendRecord(t)
    <2>1. Frame
      BY <1>5 DEF SendRecord, Frame, Quiet, Track, HeldRow
    <2>2. CASE p' = [p EXCEPT ![x].pc = "query", ![x].ni = Item(t)]
      <3> DEFINE l == [p[x] EXCEPT !.pc = "query", !.ni = Item(t)]
      <3>1. p[x] \in Local
        BY <1>0 DEF Typed
      <3>2. l \in Local /\ l.pc = "query"
        BY <1>0, <3>1, ZenonT(60) DEF Local, Steps
      <3>3. p' = [p EXCEPT ![x] = l]
        BY <1>0, <2>2 DEF Typed
      <3> HIDE DEF l
      <3> QED
        BY <1>0, <2>1, <3>2, <3>3, LightEffect DEF Laden, x
    <2> QED
      BY <1>0, <1>5, <2>1, <2>2, LightEffect DEF SendRecord, x
  <1>6. CASE DeleteLook(t)
    <2> DEFINE l == [p[x] EXCEPT !.pc = "row", !.inStore = (obj # None)]
    <2>1. p[x] \in Local
      BY <1>0 DEF Typed
    <2>2. l \in Local /\ l.pc = "row"
      BY <2>1, ZenonT(60) DEF Local, Steps
    <2>3. p' = [p EXCEPT ![x] = l]
      BY <1>0, <1>6 DEF Typed, x, DeleteLook
    <2>4. Frame
      BY <1>6, StillFrame DEF DeleteLook
    <2> HIDE DEF l
    <2> QED
      BY <1>0, <2>2, <2>3, <2>4, LightEffect DEF Laden, x
  <1>7. CASE DeleteRow(t)
    <2>1. Frame
      BY <1>7 DEF DeleteRow, Frame, Track, HeldRow
    <2>2. CASE asked' = TRUE /\ Move(x, "object")
      BY <1>0, <2>1, <2>2, MoveFacts DEF Effect, Path, Steps, x
    <2>3. ASSUME NEW res \in {"ok", "notfound", "error"}, End(x, res) PROVE Effect(x)
      BY <1>0, <2>1, <2>3, LightEffect
    <2> QED
      BY <1>7, <2>2, <2>3 DEF DeleteRow, x
  <1>8. CASE DeleteObject(t)
    <2>1. Frame
      BY <1>8 DEF DeleteObject, Frame, Quiet, Track, db, HeldRow
    <2> QED
      BY <1>0, <1>8, <2>1, LightEffect DEF DeleteObject, x
  <1>9. CASE CliList(t)
    <2>1. Frame
      BY <1>9, StillFrame DEF CliList
    <2>2. CASE HeldRow /\ Move(x, "wipe")
      <3>1. HeldRow'
        BY <1>9, <2>2 DEF CliList, Still, db, HeldRow
      <3> QED
        BY <1>0, <2>1, <2>2, <3>1, MoveFacts DEF Effect, Path, Steps, x
    <2> QED
      BY <1>0, <1>9, <2>1, <2>2, LightEffect DEF CliList, x, Steps, Laden
  <1>10. CASE CliRead(t)
    <2>1. Frame
      BY <1>10, StillFrame DEF CliRead
    <2>2. CASE obj # None /\ p' = [p EXCEPT ![Self(t)].pc = "try", ![Self(t)].ni = obj]
      BY <1>0, <2>1, <2>2, PickUp DEF x
    <2> QED
      BY <1>0, <1>10, <2>1, <2>2, LightEffect DEF CliRead, x
  <1>11. CASE CliWipe(t)
    <2>1. Frame
      BY <1>11 DEF CliWipe, Frame, Quiet, Track, db, HeldRow
    <2> QED
      BY <1>0, <1>11, <2>1, LightEffect DEF CliWipe, x
  <1>12. CASE EvictRows(t)
    <2>1. Frame
      BY <1>12 DEF EvictRows, Frame, Track
    <2>2. Typed' /\ Others(x) /\ p'[x].pc = "nars"
      BY <1>0, <1>12, TakeLinks DEF EvictRows, x, Steps
    <2> QED
      BY <2>1, <2>2, UnladenPath DEF Effect, Laden, x
  <1>13. CASE EvictBytes(t)
    <2>1. Frame
      BY <1>13 DEF EvictBytes, Frame, Quiet, Track, db, HeldRow
    <2> QED
      BY <1>0, <1>13, <2>1, LightEffect DEF EvictBytes, x
  <1> QED
    BY <1>1, <1>2, <1>3, <1>4, <1>5, <1>6, <1>7, <1>8, <1>9, <1>10, <1>11, <1>12, <1>13
       DEF Writer, Evict, x

LEMMA IdleEffects ==
    ASSUME TypeOK, Paths, p' = p, Frame
    PROVE  Effects
  BY PathFrame DEF Effects, TypeOK, Typed, Paths, Frame

(* The fix at the end of a download starts and ends.                       *)
LEMMA DownloadMoves ==
    ASSUME NEW v \in Versions, Download(v), p' # p
    PROVE  \E l \in Local : /\ l.pc \in {"query", "off"} /\ l.pc \notin Laden
                             /\ p' = [p EXCEPT ![Fetched(v)] = l]
  <1>1. At("query") \in Local /\ At("off") \in Local /\ At("query").pc = "query"
        /\ At("off").pc = "off"
    BY AtLocal DEF Steps
  <1>2. [At("query") EXCEPT !.ni = v] \in Local /\ [At("query") EXCEPT !.ni = v].pc = "query"
    BY <1>1 DEF Local
  <1>3. {"query", "off"} \cap Laden = {}
    BY DEF Laden
  <1>4. CASE NarRecorded(v)
    BY <1>2, <1>3, <1>4 DEF NarRecorded
  <1>5. CASE NarFixed(v)
    BY <1>1, <1>3, <1>5 DEF NarFixed
  <1> QED
    BY <1>4, <1>5 DEF Download, NarStored, NarFailed

LEMMA FixerEffect ==
    ASSUME TypeOK, Paths, NEW x \in Procs, Fixer(x)
    PROVE  Effect(x)
  <1>0. Typed /\ Path(x) /\ p[x] \in Local
    BY DEF TypeOK, Typed, Paths
  <1>1. Frame
    BY DEF Fixer, FixQuery, FixLink, FixRead, FixPresent, FixMeasure, FixSize, FixSum, FixHash,
           Frame, Still, Quiet, Track, HeldRow, db
  <1>5. row' = row
    BY DEF Fixer, FixQuery, FixLink, FixRead, FixPresent, FixMeasure, FixSize, FixSum, FixHash,
           Still, db
  <1>2. ASSUME End(x, "ok") PROVE Effect(x)
    BY <1>0, <1>1, <1>2, LightEffect
  <1>3. ASSUME NEW to \in {"link", "fix"}, Move(x, to) PROVE Effect(x)
    BY <1>0, <1>1, <1>3, LightEffect DEF Steps, Laden
  <1>4. ASSUME NEW to \in Repairing, p[x].pc \in Repairing, Move(x, to) PROVE Effect(x)
    <2>1. p[x].ni \in Versions /\ (p[x].ni = row \/ asked)
      BY <1>0, <1>4 DEF Path, Repairing
    <2>2. to \in Steps
      BY DEF Repairing, Steps
    <2>3. Typed' /\ Others(x) /\ p'[x].pc = to /\ p'[x].ni = p[x].ni
      BY <1>0, <1>4, <2>2, MoveFacts
    <2> QED
      BY <1>1, <1>5, <2>1, <2>3 DEF Effect, Path, Frame, Repairing
  <1>13. CASE FixQuery(x)
    BY <1>2, <1>3, <1>13 DEF FixQuery
  <1>6. CASE FixLink(x)
    <2>1. ASSUME NEW to \in {"fix", "done"},
                 p' = [p EXCEPT ![x].pc = to, ![x].res = IF to = "done" THEN "ok" ELSE @]
          PROVE  Effect(x)
      <3> DEFINE l == [p[x] EXCEPT !.pc = to, !.res = IF to = "done" THEN "ok" ELSE p[x].res]
      <3>1. l \in Local /\ l.pc = to
        BY <1>0, StepNames DEF Local
      <3>2. p' = [p EXCEPT ![x] = l]
        BY <1>0, <2>1 DEF Typed
      <3> HIDE DEF l
      <3> QED
        BY <1>0, <1>1, <3>1, <3>2, LightEffect DEF Laden
    <2> QED
      BY <1>3, <1>6, <2>1 DEF FixLink
  <1>7. CASE FixRead(x)
    <2>1. CASE HeldRow /\ p' = [p EXCEPT ![x].pc = "present", ![x].ni = row,
                                        ![x].bare = (fileHash = None), ![x].size = fileSize]
      <3> DEFINE l == [p[x] EXCEPT !.pc = "present", !.ni = row,
                                   !.bare = (fileHash = None), !.size = fileSize]
      <3>1. l \in Local /\ l.pc = "present" /\ l.ni \in Versions /\ l.ni = row
        BY <1>0, <2>1, StepNames DEF Local, HeldRow, TypeOK
      <3>2. p' = [p EXCEPT ![x] = l]
        BY <1>0, <2>1 DEF Typed
      <3> HIDE DEF l
      <3>3. Typed' /\ Others(x) /\ p'[x] = l
        BY <1>0, <3>1, <3>2, BecomesFacts
      <3> QED
        BY <1>1, <1>5, <3>1, <3>3 DEF Effect, Path
    <2> QED
      BY <1>2, <1>7, <2>1 DEF FixRead
  <1>8. CASE FixPresent(x)
    BY <1>2, <1>4, <1>8 DEF FixPresent, Repairing
  <1>9. CASE FixMeasure(x)
    <2> DEFINE size == Recorded(p[x].ni)
               to == IF size # p[x].size THEN "resize" ELSE "sum"
    <2>1. CASE p[x].pc = "measure" /\ p' = [p EXCEPT ![x].pc = to, ![x].size = size]
      <3> DEFINE l == [p[x] EXCEPT !.pc = to, !.size = size]
      <3>1. p[x].ni \in Versions /\ (p[x].ni = row \/ asked)
        BY <1>0, <2>1 DEF Path
      <3>5. size \in Versions \cup {None, Guess} /\ to \in {"resize", "sum"}
        BY <3>1 DEF Recorded
      <3> HIDE DEF size, to
      <3>2. l \in Local /\ l.pc \in {"resize", "sum"} /\ l.ni = p[x].ni
        BY <1>0, <3>5, StepNames DEF Local
      <3>3. p' = [p EXCEPT ![x] = l]
        BY <1>0, <2>1 DEF Typed
      <3> HIDE DEF l
      <3>4. Typed' /\ Others(x) /\ p'[x] = l
        BY <1>0, <3>2, <3>3, BecomesFacts
      <3> QED
        BY <1>1, <1>5, <3>1, <3>2, <3>4 DEF Effect, Path, Frame
    <2> QED
      BY <1>2, <1>9, <2>1 DEF FixMeasure
  <1>10. CASE FixSize(x)
    BY <1>2, <1>4, <1>10 DEF FixSize, Repairing
  <1>11. CASE FixSum(x)
    BY <1>2, <1>4, <1>11 DEF FixSum, Repairing
  <1>12. CASE FixHash(x)
    BY <1>2, <1>12 DEF FixHash
  <1> QED
    BY <1>6, <1>7, <1>8, <1>9, <1>10, <1>11, <1>12, <1>13 DEF Fixer

LEMMA DownloadEffects ==
    ASSUME TypeOK, Paths, (\E v \in Versions : Download(v)) \/ MigLockLapse
    PROVE  Effects
  <1>1. CASE MigLockLapse
    BY <1>1, IdleEffects DEF MigLockLapse, Frame, Quiet, Track, db, HeldRow
  <1>2. ASSUME NEW v \in Versions, Download(v) PROVE Effects
    <2>1. Frame
      BY <1>2 DEF Download, NarStored, NarRecorded, NarFixed, NarFailed, Frame, Quiet, Track,
                  HeldRow, db
    <2>2. CASE p' = p
      BY <2>1, <2>2, IdleEffects
    <2>3. CASE p' # p
      BY <1>2, <2>1, <2>3, DownloadMoves, LightEffect, OneEffect, ProcFacts DEF TypeOK, Typed
    <2> QED
      BY <2>2, <2>3
  <1> QED
    BY <1>1, <1>2

(* Every step types its goroutines and keeps to the paths.                 *)
LEMMA NextEffects ==
    ASSUME TypeOK, Paths, Next
    PROVE  Effects
  <1>1. ASSUME NEW x \in Procs, Reader(x) \/ Migrator(x) \/ Fixer(x) PROVE Effects
    BY <1>1, ReaderEffect, MigratorEffect, FixerEffect, OneEffect
  <1>2. ASSUME NEW t \in Tasks, Getter(t) \/ WaitFails(t) \/ Cancel(t) \/ Writer(t) \/ Evict(t)
        PROVE  Effects
    BY <1>2, StartMigrationEffects, StartPullEffects, GetterEffect, WriterEffect, OneEffect,
       ProcFacts
  <1>3. ASSUME NEW i \in Instances, Puller(i) \/ PullWaitFails(i) PROVE Effects
    BY <1>3, PullerEffects
  <1> QED
    BY <1>1, <1>2, <1>3, DownloadEffects DEF Next

-----------------------------------------------------------------------------
(* The tables, the stores and the locks.                                   *)
DbOK == /\ row \in Versions \cup {None, Stub} /\ fileHash \in Versions \cup {None}
        /\ fileSize \in Versions \cup {None, Guess}
        /\ links \subseteq narFiles /\ marked \subseteq narFiles /\ narFiles \subseteq Versions
LocksOK == /\ migLock \in Procs \cup {None} /\ putLock \in Tasks \cup {None}
           /\ pullLock \in Procs \cup {None}
StoresOK == bytes \subseteq Versions /\ asked \in BOOLEAN /\ steady \subseteq Tasks
JobsOK == narJob \in [Versions -> [by : Instances \cup {None},
                                    step : {"none", "run", "record", "fix"}]]

LEMMA StoreOK ==
    ASSUME DbOK, NEW v \in Versions, StoreInDatabase(v)
    PROVE  DbOK'
  BY DEF DbOK, StoreInDatabase, UpsertNarInfo, HeldRow, Stated

LEMMA FixOK ==
    ASSUME DbOK, TypeOK, Paths, NEW x \in Procs, Fixer(x)
    PROVE  DbOK'
  <1>1. CASE UNCHANGED db
    BY <1>1 DEF DbOK, db
  <1>2. CASE FixLink(x)
    BY <1>2 DEF FixLink, DbOK, file
  <1>3. CASE FixSize(x)
    <2>1. p[x].size \in Versions \cup {None, Guess}
      BY DEF TypeOK, Local
    <2> QED
      BY <1>3, <2>1 DEF FixSize, DbOK
  <1>4. CASE FixHash(x)
    <2>1. p[x].ni \in Versions
      BY <1>4 DEF Paths, Path, Repairing, FixHash
    <2> QED
      BY <1>4, <2>1 DEF FixHash, DbOK
  <1> QED
    BY <1>1, <1>2, <1>3, <1>4 DEF Fixer, FixQuery, FixRead, FixPresent, FixMeasure, FixSum, Still

LEMMA EmptyOK ==
    ASSUME DbOK, RowGoes,
           \/ narFiles' = narFiles \ links /\ marked' = marked \ links
           \/ UNCHANGED <<narFiles, marked>>
    PROVE  DbOK'
  BY DEF DbOK, RowGoes

LEMMA SameDb == DbOK /\ UNCHANGED db => DbOK'
  BY DEF DbOK, db

LEMMA TrackOK ==
    ASSUME StoresOK, Track, bytes' \subseteq Versions, asked' \in BOOLEAN
    PROVE  StoresOK'
  BY DEF StoresOK, Track

LEMMA StillOK ==
    ASSUME DbOK, LocksOK, StoresOK, JobsOK, Still
    PROVE  DbOK' /\ LocksOK' /\ StoresOK' /\ JobsOK'
  <1>1. StoresOK'
    BY TrackOK DEF Still, Quiet, StoresOK
  <1>2. LocksOK' /\ JobsOK'
    BY DEF Still, LocksOK, JobsOK, locks
  <1> QED
    BY <1>1, <1>2, SameDb DEF Still

LEMMA EndPullLock ==
    ASSUME pullLock \in Procs \cup {None}, NEW i, NEW err, EndPull(i, err)
    PROVE  pullLock' \in Procs \cup {None}
  BY DEF EndPull

LEMMA StepOK ==
    ASSUME DbOK, LocksOK, StoresOK, JobsOK, TypeOK, Paths, Next
    PROVE  DbOK' /\ LocksOK' /\ StoresOK' /\ JobsOK'
  <1> DEFINE Goal == DbOK' /\ LocksOK' /\ StoresOK' /\ JobsOK'
  <1> SUFFICES Goal
    OBVIOUS
  <1>1. ASSUME Still PROVE Goal
    BY <1>1, StillOK
  <1>2. ASSUME NEW x \in Procs, Reader(x) PROVE Goal
    BY <1>1, <1>2 DEF Reader, DbRead, DbStat, DbJobs, DbRecheck
  <1>3. ASSUME NEW x \in Procs, Migrator(x) PROVE Goal
    <2>1. bytes' = bytes /\ narJob' = narJob /\ Quiet /\ putLock' = putLock /\ pullLock' = pullLock
      BY <1>3 DEF Migrator, MigTryLock, MigDoubleCheck, MigStore, MigRemove
    <2>2. migLock' \in {migLock, None, x}
      BY <1>3 DEF Migrator, MigTryLock, MigDoubleCheck, MigStore, MigRemove, Release
    <2>3. DbOK'
      <3>1. CASE UNCHANGED db
        BY <3>1, SameDb
      <3>2. CASE MigStore(x) /\ p[x].ni # Bad /\ StoreInDatabase(p[x].ni)
        <4>1. p[x].ni \in Versions
          BY <3>2, ScenarioFacts DEF Paths, Path, MigStore
        <4> QED
          BY <3>2, <4>1, StoreOK
      <3> QED
        BY <1>3, <3>1, <3>2 DEF Migrator, MigTryLock, MigDoubleCheck, MigStore, MigRemove
    <2>4. StoresOK'
      BY <2>1, TrackOK DEF Quiet, StoresOK
    <2>5. LocksOK' /\ JobsOK'
      BY <2>1, <2>2 DEF LocksOK, JobsOK
    <2> QED
      BY <2>3, <2>4, <2>5
  <1>9. ASSUME NEW x \in Procs, Fixer(x) PROVE Goal
    <2>1. bytes' = bytes /\ narJob' = narJob /\ Quiet /\ UNCHANGED locks
      BY <1>9 DEF Fixer, FixQuery, FixLink, FixRead, FixPresent, FixMeasure, FixSize, FixSum,
                  FixHash, Still
    <2>2. StoresOK'
      BY <2>1, TrackOK DEF Quiet, StoresOK
    <2> QED
      BY <1>9, <2>1, <2>2, FixOK DEF LocksOK, JobsOK, locks
  <1>4. ASSUME NEW t \in Tasks, Getter(t) \/ WaitFails(t) \/ Cancel(t) PROVE Goal
    <2>0. Self(t) \in Procs
      BY ProcFacts
    <2>1. CASE GetNarInfo(t)
      <3>1. DbOK'
        BY <2>1, SameDb DEF GetNarInfo
      <3> QED
        BY <2>1, <3>1 DEF GetNarInfo, LocksOK, locks, StoresOK, JobsOK
    <2>2. CASE Cancel(t) \/ StartPull(t)
      <3>1. DbOK'
        BY <2>2, SameDb DEF Cancel, StartPull
      <3>2. StoresOK'
        BY <2>2, TrackOK DEF Cancel, StartPull, Quiet, StoresOK
      <3>3. LocksOK' /\ JobsOK'
        BY <2>0, <2>2 DEF Cancel, StartPull, LocksOK, JobsOK
      <3> QED
        BY <3>1, <3>2, <3>3
    <2>3. CASE PurgeRows(t) \/ PurgeObject(t) \/ PurgeBytes(t)
      <3>1. DbOK'
        BY <2>3, SameDb, EmptyOK DEF PurgeRows, PurgeObject, PurgeBytes, db, file
      <3>2. StoresOK'
        BY <2>3, TrackOK DEF PurgeRows, PurgeObject, PurgeBytes, Quiet, StoresOK
      <3>3. LocksOK' /\ JobsOK'
        BY <2>3 DEF PurgeRows, PurgeObject, PurgeBytes, locks, LocksOK, JobsOK
      <3> QED
        BY <3>1, <3>2, <3>3
    <2> HIDE DEF Goal
    <2> QED
      BY <1>1, <1>4, <2>1, <2>2, <2>3
         DEF Getter, WaitFails, HasNarInfo, ReadObject, CheckObject, CheckJob, StartMigration,
             WaitMigration, WaitPut, JoinPull, FoundMeanwhile
  <1>5. ASSUME NEW t \in Tasks, Writer(t) \/ Evict(t) PROVE Goal
    <2>0. Item(t) \in Versions
      BY ScenarioFacts
    <2>1. CASE PutBegin(t) \/ PutStore(t) \/ PutClean(t)
      <3>1. DbOK'
        BY <2>0, <2>1, SameDb, StoreOK DEF PutBegin, PutStore, PutClean
      <3>2. StoresOK'
        BY <2>1, TrackOK DEF PutBegin, PutStore, PutClean, Quiet, StoresOK
      <3>3. LocksOK' /\ JobsOK'
        BY <2>1 DEF PutBegin, PutStore, PutClean, locks, LocksOK, JobsOK
      <3> QED
        BY <3>1, <3>2, <3>3
    <2>2. CASE SendStore(t) \/ SendRecord(t)
      <3>1. DbOK'
        <4>1. CASE SendStore(t)
          BY <4>1, SameDb DEF SendStore
        <4>2. CASE SendRecord(t)
          BY <2>0, <4>2 DEF SendRecord, DbOK, file
        <4> QED
          BY <2>2, <4>1, <4>2
      <3>2. StoresOK'
        <4>1. bytes' \subseteq Versions
          BY <2>0, <2>2 DEF SendStore, SendRecord, StoresOK
        <4> QED
          BY <2>2, <4>1, TrackOK DEF SendStore, SendRecord, Quiet, StoresOK
      <3>3. LocksOK' /\ JobsOK'
        BY <2>2 DEF SendStore, SendRecord, locks, LocksOK, JobsOK
      <3> QED
        BY <3>1, <3>2, <3>3
    <2>3. CASE DeleteRow(t) \/ DeleteObject(t) \/ CliWipe(t)
      <3>1. DbOK'
        BY <2>3, SameDb, EmptyOK DEF DeleteRow, DeleteObject, CliWipe, db, file
      <3>2. StoresOK'
        BY <2>3, TrackOK DEF DeleteRow, DeleteObject, CliWipe, Quiet, StoresOK
      <3>3. LocksOK' /\ JobsOK'
        BY <2>3 DEF DeleteRow, DeleteObject, CliWipe, locks, LocksOK, JobsOK
      <3> QED
        BY <3>1, <3>2, <3>3
    <2>4. CASE Evict(t)
      <3>1. DbOK'
        BY <2>4, SameDb, EmptyOK DEF Evict, EvictRows, EvictBytes
      <3>2. StoresOK'
        BY <2>4, TrackOK DEF Evict, EvictRows, EvictBytes, Quiet, StoresOK
      <3>3. LocksOK' /\ JobsOK'
        BY <2>4 DEF Evict, EvictRows, EvictBytes, locks, LocksOK, JobsOK
      <3> QED
        BY <3>1, <3>2, <3>3
    <2> HIDE DEF Goal
    <2> QED
      BY <1>1, <1>5, <2>1, <2>2, <2>3, <2>4 DEF Writer, DeleteLook, CliList, CliRead
  <1>6. ASSUME NEW i \in Instances, Puller(i) \/ PullWaitFails(i) PROVE Goal
    <2>1. CASE PullWaitMigration(i) \/ PullWaitPut(i)
      BY <1>1, <2>1 DEF PullWaitMigration, PullWaitPut
    <2>2. CASE PullNar(i)
      <3>1. DbOK'
        BY <2>2, SameDb DEF PullNar
      <3>2. StoresOK'
        BY <2>2, TrackOK DEF PullNar, Quiet, StoresOK
      <3>3. LocksOK' /\ JobsOK'
        BY <2>2 DEF PullNar, locks, LocksOK, JobsOK
      <3> QED
        BY <3>1, <3>2, <3>3
    <2>3. CASE PullFinish(i) \/ PullFetch(i) \/ PullSign(i) \/ PullStore(i) \/ PullWaitFails(i)
      <3>1. DbOK'
        <4>1. CASE UNCHANGED db
          BY <4>1, SameDb
        <4>2. CASE PullStore(i) /\ StoreInDatabase(p[Pull(i)].ni)
          <5>1. p[Pull(i)].ni \in Versions
            BY <4>2, ScenarioFacts, ProcFacts DEF Paths, Path, IsPull, PullStore
          <5> QED
            BY <4>2, <5>1, StoreOK
        <4> QED
          BY <2>3, <4>1, <4>2 DEF PullFinish, PullFetch, PullSign, PullStore, PullWaitFails
      <3>2. StoresOK'
        <4>1. bytes' = bytes /\ Quiet
          BY <2>3 DEF PullFinish, PullFetch, PullSign, PullStore, PullWaitFails
        <4> QED
          BY <4>1, TrackOK DEF Quiet, StoresOK
      <3>3. pullLock' \in Procs \cup {None}
        BY <2>3, EndPullLock DEF PullFinish, PullFetch, PullSign, PullStore, PullWaitFails, LocksOK
      <3>4. migLock' = migLock /\ putLock' = putLock /\ narJob' = narJob
        BY <2>3 DEF PullFinish, PullFetch, PullSign, PullStore, PullWaitFails
      <3> QED
        BY <3>1, <3>2, <3>3, <3>4 DEF LocksOK, JobsOK
    <2> QED
      BY <1>6, <2>1, <2>2, <2>3 DEF Puller
  <1>7. ASSUME NEW v \in Versions, Download(v) PROVE Goal
    <2>1. DbOK'
      <3>1. CASE NarStored(v) \/ NarFailed(v)
        BY <3>1, SameDb DEF NarStored, NarFailed
      <3>2. CASE NarRecorded(v)
        BY <3>2 DEF NarRecorded, DbOK, file
      <3>3. CASE NarFixed(v)
        BY <3>3, SameDb DEF NarFixed
      <3> QED
        BY <1>7, <3>1, <3>2, <3>3 DEF Download
    <2>2. StoresOK'
      BY <1>7, TrackOK DEF Download, NarStored, NarRecorded, NarFixed, NarFailed, Quiet, StoresOK
    <2>3. JobsOK'
      BY <1>7 DEF Download, NarStored, NarRecorded, NarFixed, NarFailed, NarStep, NoJob, JobsOK
    <2>4. LocksOK'
      BY <1>7 DEF Download, NarStored, NarRecorded, NarFixed, NarFailed, locks, LocksOK
    <2> QED
      BY <2>1, <2>2, <2>3, <2>4
  <1>8. ASSUME MigLockLapse PROVE Goal
    <2>1. DbOK' /\ StoresOK'
      BY <1>8, SameDb, TrackOK DEF MigLockLapse, Quiet, StoresOK
    <2> QED
      BY <1>8, <2>1 DEF MigLockLapse, LocksOK, JobsOK
  <1> HIDE DEF Goal
  <1> QED
    BY <1>2, <1>3, <1>4, <1>5, <1>6, <1>7, <1>8, <1>9 DEF Next

LEMMA TypeParts ==
    TypeOK <=> /\ scenario \in Scenarios /\ obj \in Versions \cup {None, Bad}
               /\ DbOK /\ LocksOK /\ StoresOK /\ JobsOK /\ Typed
  BY DEF TypeOK, DbOK, LocksOK, StoresOK, JobsOK, Typed

(* The goroutines keep to the paths, and every value to its type.          *)
Kept == TypeOK /\ Paths

LEMMA KeptInit == Init => Kept
  <1> SUFFICES ASSUME Init PROVE Kept
    OBVIOUS
  <1>1. scenario \in Scenario
    BY ScenarioAssumption DEF Init
  <1>2. DbOK
    BY <1>1 DEF Init, Scenario, DbOK, Stated
  <1>3. LocksOK /\ StoresOK
    BY <1>1 DEF Init, Scenario, LocksOK, StoresOK
  <1>4. JobsOK
    BY DEF Init, NoJob, JobsOK
  <1>5. \A x \in Procs : p[x] = At("new") \/ p[x] = At("off")
    BY DEF Init
  <1>6. At("new") \in Local /\ At("off") \in Local /\ At("new").pc = "new" /\ At("off").pc = "off"
    BY AtLocal DEF Steps
  <1>7. Typed
    BY <1>6 DEF Init, Typed
  <1>8. \A x \in Procs : Path(x)
    BY <1>5, <1>6 DEF Path, Repairing
  <1> QED
    BY <1>1, <1>2, <1>3, <1>4, <1>7, <1>8, TypeParts DEF Init, Scenario, Kept, Paths

LEMMA KeptNext ==
    ASSUME Kept, [Next]_vars
    PROVE  Kept'
  <1>1. CASE UNCHANGED vars
    BY <1>1, ZenonT(60) DEF Kept, TypeOK, Paths, Path, HeldRow, vars
  <1>2. CASE Next
    <2>1. Effects /\ DbOK' /\ LocksOK' /\ StoresOK' /\ JobsOK'
      BY <1>2, NextEffects, StepOK, TypeParts DEF Kept
    <2>2. TypeOK'
      BY <2>1, TypeParts DEF Effects, Frame, Kept, TypeOK, DbOK, LocksOK, StoresOK, JobsOK, Typed
    <2> QED
      BY <2>1, <2>2 DEF Kept, Effects
  <1> QED
    BY <1>1, <1>2

(* Every value has its type, and every goroutine follows its path: what is *)
(* migrated is the legacy narinfo, what is pulled upstream's, and nothing  *)
(* removes the object before its narinfo is in the database or was asked   *)
(* to go.                                                                  *)
THEOREM NarInfoKept == Spec => []Kept
  BY KeptInit, KeptNext, PTL DEF Spec

(* The object goes only once the row has a URL or after somebody asked.    *)
LEMMA ObjectGoes ==
    ASSUME Kept, Next, obj' # obj
    PROVE  HeldRow \/ asked
  <1>0. \A x \in Procs : p[x].pc \in {"remove", "clean", "wipe", "purge obj", "object"}
                             => HeldRow \/ asked
    BY DEF Kept, Paths, Path
  <1>1. ASSUME NEW x \in Procs, Reader(x) \/ Migrator(x) \/ Fixer(x) PROVE HeldRow \/ asked
    BY <1>0, <1>1 DEF Reader, DbRead, DbStat, DbJobs, DbRecheck, Migrator, MigTryLock,
                      MigDoubleCheck, MigStore, MigRemove, Fixer, FixQuery, FixLink, FixRead,
                      FixPresent, FixMeasure, FixSize, FixSum, FixHash, Still
  <1>2. ASSUME NEW t \in Tasks, Getter(t) \/ WaitFails(t) \/ Cancel(t) PROVE HeldRow \/ asked
    BY <1>0, <1>2, ProcFacts
       DEF Getter, GetNarInfo, HasNarInfo, ReadObject, CheckObject, CheckJob, StartMigration,
           PurgeRows, PurgeObject, PurgeBytes, WaitMigration, WaitPut, JoinPull, FoundMeanwhile,
           StartPull, WaitFails, Cancel, Is, Still
  <1>3. ASSUME NEW t \in Tasks, Writer(t) \/ Evict(t) PROVE HeldRow \/ asked
    BY <1>0, <1>3, ProcFacts
       DEF Writer, PutBegin, PutStore, PutClean, SendStore, SendRecord,
           DeleteLook, DeleteRow, DeleteObject, CliList, CliRead, CliWipe, Evict, EvictRows,
           EvictBytes, Is, Still
  <1>4. ASSUME NEW i \in Instances, Puller(i) \/ PullWaitFails(i) PROVE FALSE
    BY <1>4 DEF Puller, PullWaitMigration, PullWaitPut, PullFinish, PullFetch, PullNar, PullSign,
                PullStore, PullWaitFails, Still
  <1>5. ~MigLockLapse /\ \A v \in Versions : ~Download(v)
    BY DEF MigLockLapse, Download, NarStored, NarRecorded, NarFixed, NarFailed
  <1> QED
    BY <1>1, <1>2, <1>3, <1>4, <1>5 DEF Next

(* NeverDropped: whatever calls, pulls and migrations run beside each      *)
(* other, a narinfo is in the store or in the database until somebody asks *)
(* for it to go.                                                           *)
THEOREM NarInfoNeverDropped == Spec => NeverDropped
  <1>1. ASSUME Kept, [Next]_vars
        PROVE  [Held /\ ~asked' => Held']_vars
    <2> SUFFICES ASSUME Held, ~asked', Next PROVE Held'
      BY <1>1
    <2>1. Effects
      BY <1>1, NextEffects DEF Kept
    <2>2. CASE HeldRow
      BY <2>1, <2>2 DEF Effects, Frame, Held
    <2>3. CASE obj' = obj
      BY <2>2, <2>3 DEF Held
    <2>4. CASE obj' # obj /\ ~HeldRow
      BY <1>1, <2>1, <2>4, ObjectGoes DEF Effects, Frame
    <2> QED
      BY <2>2, <2>3, <2>4
  <1> QED
    BY <1>1, NarInfoKept, PTL DEF Spec, NeverDropped

-----------------------------------------------------------------------------
(* PresentServed. While the narinfo is servable no pull starts, and a pull *)
(* that runs has seen the store without the object. So a get that finds no *)
(* row has the object before it, which no pull can be after; and one that  *)
(* finds the object gone finds the row that took its place.                *)
Nowhere == \A i \in Instances : ~Pulling(i)
Behind(t) == \/ p[Self(t)].pc \in {"waitmig", "waitput", "coord"}
             \/ p[Self(t)].pc = "db" /\ p[Self(t)].site # "first"
Sure(t) ==
    /\ p[Self(t)].pc \in {"db", "stat", "look", "read", "check", "start", "waitmig", "waitput",
                          "coord", "done"}
    /\ p[Self(t)].pc \in {"db", "stat"} => p[Self(t)].site # "pull"
    /\ p[Self(t)].pc \in {"stat", "check"} => p[Self(t)].ni \in bytes
    /\ p[Self(t)].pc \in {"look", "read"} => (obj = None \/ obj \in bytes) /\ Nowhere
    /\ Behind(t) => obj = None /\ Nowhere
    /\ p[Self(t)].pc = "done" => p[Self(t)].res = "ok"
Sighted ==
    /\ \A i \in Instances : Pulling(i) => obj = None
    /\ steady # {} => Servable
    /\ ~MayFail => \A t \in steady : Kind(t) = "get" => Sure(t)

LEMMA PullerOthers ==
    ASSUME Kept, NEW i \in Instances, Puller(i) \/ PullWaitFails(i)
    PROVE  \A y \in Procs \ {Pull(i)} : p'[y] = p[y] \/ p[y].pc = "wait"
  <1>0. Typed /\ Pull(i) \in Procs
    BY ProcFacts DEF Kept, TypeOK, Typed
  <1>1. ASSUME NEW err \in {"", "notfound", "error"}, EndPull(i, err)
        PROVE  \A y \in Procs \ {Pull(i)} : p'[y] = p[y] \/ p[y].pc = "wait"
    BY <1>0, <1>1, EndPullFacts
  <1>2. CASE PullWaitMigration(i) \/ PullWaitPut(i) \/ PullNar(i)
    BY <1>0, <1>2 DEF PullWaitMigration, PullWaitPut, PullNar, Move, Call, Typed
  <1>3. CASE PullFetch(i)
    BY <1>0, <1>1, <1>3 DEF PullFetch, Typed
  <1>4. CASE PullSign(i)
    BY <1>0, <1>1, <1>4 DEF PullSign, Move, Typed
  <1>5. CASE PullFinish(i) \/ PullStore(i) \/ PullWaitFails(i)
    BY <1>1, <1>5 DEF PullFinish, PullStore, PullWaitFails
  <1> QED
    BY <1>2, <1>3, <1>4, <1>5 DEF Puller

(* Whose steps move a goroutine.                                           *)
Moved(y) ==
    \/ Reader(y) \/ Migrator(y) \/ Fixer(y)
    \/ \E v \in Versions : y = Fetched(v) /\ Download(v)
    \/ \E t \in Tasks : /\ y = Self(t)
                        /\ Getter(t) \/ WaitFails(t) \/ Cancel(t) \/ Writer(t) \/ Evict(t)
    \/ \E i \in Instances : y = Pull(i) /\ (Puller(i) \/ PullWaitFails(i))
    \/ p[y].pc = "wait"
    \/ \E t \in Tasks : y = Mig(t) /\ StartMigration(t)
    \/ \E t \in Tasks : y = Pull(Home[t]) /\ StartPull(t)

LEMMA Movers ==
    ASSUME Kept, Next, NEW y \in Procs
    PROVE  p'[y] = p[y] \/ Moved(y)
  <1>0. TypeOK /\ Paths /\ Typed
    BY DEF Kept, TypeOK, Typed
  <1>1. ASSUME NEW x \in Procs, Reader(x) \/ Migrator(x) \/ Fixer(x)
        PROVE  p'[y] = p[y] \/ Moved(y)
    BY <1>0, <1>1, ReaderEffect, MigratorEffect, FixerEffect DEF Effect, Others, Moved
  <1>2. ASSUME NEW t \in Tasks, Getter(t) \/ WaitFails(t) \/ Cancel(t) \/ Writer(t) \/ Evict(t)
        PROVE  p'[y] = p[y] \/ Moved(y)
    <2> SUFFICES ASSUME y # Self(t) PROVE p'[y] = p[y] \/ Moved(y)
      BY <1>2 DEF Moved
    <2>1. CASE Effect(Self(t))
      BY <2>1 DEF Effect, Others
    <2>2. CASE StartPull(t)
      BY <1>0, <2>2, StartPullSteps DEF Moved
    <2>3. CASE StartMigration(t) /\ End(Self(t), "error")
      BY <1>0, <2>3, EndFacts, ProcFacts DEF Others
    <2>4. CASE StartMigration(t) /\ ~End(Self(t), "error")
      BY <1>0, <2>4, StartMigrationSteps DEF Moved
    <2> QED
      BY <1>0, <1>2, <2>1, <2>2, <2>3, <2>4, GetterEffect, WriterEffect
  <1>3. ASSUME NEW i \in Instances, Puller(i) \/ PullWaitFails(i)
        PROVE  p'[y] = p[y] \/ Moved(y)
    BY <1>3, PullerOthers DEF Moved
  <1>4. CASE MigLockLapse
    BY <1>4 DEF MigLockLapse
  <1>5. ASSUME NEW v \in Versions, Download(v) PROVE p'[y] = p[y] \/ Moved(y)
    <2>1. p' = p \/ \E l \in Local : p' = [p EXCEPT ![Fetched(v)] = l]
      BY <1>5, DownloadMoves
    <2> QED
      BY <1>0, <1>5, <2>1 DEF Moved, Typed
  <1> QED
    BY <1>1, <1>2, <1>3, <1>4, <1>5 DEF Next

LEMMA ServableFacts ==
    ASSUME Kept, Servable
    PROVE  /\ Present
           /\ obj = None => row \in bytes
           /\ ~HeldRow => obj \in bytes
  BY MarkAssumption DEF Kept, TypeOK, Servable, Present, InDatabase, HeldRow

(* A pull starts only where nothing is there.                              *)
LEMMA PullStarts ==
    ASSUME Kept, Next, NEW i \in Instances, ~Pulling(i), Pulling(i)'
    PROVE  ~Present /\ obj' = obj
  <1>0. Pull(i) \in Procs /\ p[Pull(i)].pc = "off" /\ p'[Pull(i)] # p[Pull(i)]
    BY ProcFacts DEF Pulling
  <1>1. Moved(Pull(i))
    BY <1>0, Movers
  <1>2. /\ ~Reader(Pull(i)) /\ ~Migrator(Pull(i)) /\ ~Fixer(Pull(i))
        /\ p[Pull(i)].pc # "wait"
    BY <1>0 DEF Reader, DbRead, DbStat, DbJobs, DbRecheck, Migrator, MigTryLock, MigDoubleCheck,
                MigStore, MigRemove, Fixer, FixQuery, FixLink, FixRead, FixPresent, FixMeasure,
                FixSize, FixSum, FixHash
  <1>3. /\ \A t \in Tasks : Pull(i) # Self(t) /\ Pull(i) # Mig(t)
        /\ \A v \in Versions : Pull(i) # Fetched(v)
    BY ProcFacts
  <1>4. \A j \in Instances : Pull(i) = Pull(j) => ~Puller(j) /\ ~PullWaitFails(j)
    BY <1>0 DEF Puller, PullWaitMigration, PullWaitPut, PullFinish, PullFetch, PullNar, PullSign,
                PullStore, PullWaitFails
  <1>5. PICK t \in Tasks : StartPull(t)
    <2>1. /\ ~\E t \in Tasks : Pull(i) = Self(t) \/ Pull(i) = Mig(t)
          /\ ~\E v \in Versions : Pull(i) = Fetched(v)
      BY <1>3
    <2>2. ~\E j \in Instances : Pull(i) = Pull(j) /\ (Puller(j) \/ PullWaitFails(j))
      BY <1>4
    <2> QED
      BY <1>1, <1>2, <2>1, <2>2 DEF Moved
  <1> QED
    BY <1>5 DEF StartPull

LEMMA NextTracks ==
    ASSUME Next
    PROVE  Track \/ \E t \in Tasks : GetNarInfo(t)
  <1>1. ASSUME NEW x \in Procs, Reader(x) \/ Migrator(x) \/ Fixer(x) PROVE Track
    BY <1>1 DEF Reader, DbRead, DbStat, DbJobs, DbRecheck, Migrator, MigTryLock,
                MigDoubleCheck, MigStore, MigRemove, Fixer, FixQuery, FixLink, FixRead,
                FixPresent, FixMeasure, FixSize, FixSum, FixHash, Still, Quiet
  <1>2. ASSUME NEW t \in Tasks, Getter(t) \/ WaitFails(t) \/ Cancel(t), ~GetNarInfo(t) PROVE Track
    BY <1>2 DEF Getter, HasNarInfo, ReadObject, CheckObject, CheckJob, StartMigration,
                PurgeRows, PurgeObject, PurgeBytes, WaitMigration, WaitPut, JoinPull,
                FoundMeanwhile, StartPull, WaitFails, Cancel, Still, Quiet
  <1>3. ASSUME NEW t \in Tasks, Writer(t) \/ Evict(t) PROVE Track
    BY <1>3 DEF Writer, PutBegin, PutStore, PutClean, SendStore, SendRecord,
                DeleteLook, DeleteRow, DeleteObject, CliList, CliRead, CliWipe, Evict, EvictRows,
                EvictBytes, Still, Quiet
  <1>4. ASSUME NEW i \in Instances, Puller(i) \/ PullWaitFails(i) PROVE Track
    BY <1>4 DEF Puller, PullWaitMigration, PullWaitPut, PullFinish, PullFetch, PullNar, PullSign,
                PullStore, PullWaitFails, Still, Quiet
  <1>5. ASSUME MigLockLapse \/ \E v \in Versions : Download(v) PROVE Track
    BY <1>5 DEF MigLockLapse, Download, NarStored, NarRecorded, NarFixed, NarFailed, Quiet
  <1> QED
    BY <1>1, <1>2, <1>3, <1>4, <1>5 DEF Next

(* A get that does not move stays sure.                                    *)
LEMMA SureStays ==
    ASSUME NEW t \in Tasks, Sure(t), p'[Self(t)] = p[Self(t)], obj' \in {obj, None},
           bytes \subseteq bytes', Nowhere => Nowhere'
    PROVE  Sure(t)'
  BY DEF Sure, Behind

(* The lookups of a sure get.                                              *)
LEMMA ReaderSure ==
    ASSUME Kept, Sighted, ~MayFail, NEW t \in steady, Kind(t) = "get", Reader(Self(t))
    PROVE  Sure(t)'
  <1> DEFINE x == Self(t)
  <1>0. /\ t \in Tasks /\ x \in Procs /\ Typed /\ Sure(t) /\ Servable
        /\ UNCHANGED <<row, bytes, obj>>
    BY ProcFacts DEF Kept, TypeOK, Typed, Sighted, Reader, DbRead, DbStat, DbJobs, DbRecheck,
                     Still, db
  <1>1. CASE DbRead(x)
    <2>1. CASE HeldRow /\ p' = [p EXCEPT ![x].pc = "stat", ![x].ni = row]
      <3>1. row \in bytes
        BY <1>0, <2>1, ServableFacts, MarkAssumption DEF Servable, HeldRow
      <3>2. p[x] \in Local
        BY <1>0 DEF Typed
      <3>3. p'[x].pc = "stat" /\ p'[x].ni = row /\ p'[x].site = p[x].site
        BY <1>0, <2>1, <3>2 DEF Typed, Local
      <3>4. p[x].pc = "db"
        BY <1>1 DEF DbRead
      <3> QED
        BY <1>0, <3>1, <3>3, <3>4 DEF Sure, Behind
    <2>2. CASE ~HeldRow /\ Answer(x, "notfound")
      <3>1. obj \in bytes /\ obj # None
        BY <1>0, <2>2, ServableFacts, MarkAssumption DEF Kept, TypeOK
      <3>2. p[x].pc = "db" /\ p[x].site = "first"
        BY <1>0, <1>1, <3>1 DEF Sure, Behind, DbRead
      <3>3. p'[x].pc = "look"
        BY <1>0, <2>2, <3>2, AnswerFacts DEF Answers
      <3>4. Nowhere
        BY <3>1 DEF Sighted, Nowhere
      <3>5. Others(x)
        BY <1>0, <2>2, AnswerFacts DEF Answers
      <3>6. Nowhere'
        BY <1>0, <3>4, <3>5, ProcFacts DEF Nowhere, Pulling, Others
      <3> QED
        BY <1>0, <3>1, <3>3, <3>6 DEF Sure, Behind
    <2> QED
      BY <1>1, <2>1, <2>2 DEF DbRead
  <1>2. CASE DbStat(x)
    <2>1. p[x].ni \in bytes /\ p[x].site # "pull"
      BY <1>0, <1>2 DEF Sure, DbStat
    <2>2. Answer(x, "ok")
      BY <1>2, <2>1 DEF DbStat
    <2>3. p'[x].pc = "done" /\ p'[x].res = "ok"
      BY <1>0, <2>1, <2>2, AnswerFacts DEF Answers
    <2> QED
      BY <2>3 DEF Sure, Behind
  <1>3. CASE DbJobs(x) \/ DbRecheck(x)
    BY <1>0, <1>3 DEF DbJobs, DbRecheck, Sure
  <1> QED
    BY <1>1, <1>2, <1>3 DEF Reader

(* The other steps of a sure get.                                          *)
LEMMA GetterSure ==
    ASSUME Kept, Sighted, ~MayFail, NEW t \in steady, Kind(t) = "get",
           Getter(t) \/ WaitFails(t) \/ Cancel(t)
    PROVE  Sure(t)'
  <1> DEFINE x == Self(t)
  <1>0. t \in Tasks /\ x \in Procs /\ Typed /\ Sure(t) /\ Servable /\ Present
    BY ProcFacts, ServableFacts DEF Kept, TypeOK, Typed, Sighted
  <1>1. ~WaitFails(t) /\ ~Cancel(t) /\ ~GetNarInfo(t) /\ ~CheckJob(t) /\ ~PurgeRows(t)
        /\ ~PurgeObject(t) /\ ~PurgeBytes(t) /\ ~StartPull(t) /\ ~JoinPull(t)
    <2>1. ~WaitFails(t) /\ ~Cancel(t)
      BY DEF WaitFails, Cancel
    <2>2. ~GetNarInfo(t) /\ ~CheckJob(t) /\ ~PurgeRows(t) /\ ~PurgeObject(t) /\ ~PurgeBytes(t)
      BY <1>0 DEF Sure, Is, GetNarInfo, CheckJob, PurgeRows, PurgeObject, PurgeBytes
    <2>3. ~StartPull(t)
      BY <1>0 DEF StartPull
    <2>4. ~JoinPull(t)
      BY <1>0, HomeAssumption DEF JoinPull, Is, Sure, Behind, Nowhere
    <2> QED
      BY <2>1, <2>2, <2>3, <2>4
  <1>2. CASE StartMigration(t)
    <2>1. CASE ~End(x, "error")
      <3>1. p'[x].pc = "done" /\ p'[x].res = "ok"
        BY <1>0, <1>2, <2>1, StartMigrationSteps DEF Kept
      <3> QED
        BY <3>1 DEF Sure, Behind
    <2>2. CASE End(x, "error")
      <3>1. p' = [p EXCEPT ![Self(t)].pc = "done", ![Self(t)].res = "ok",
                           ![Mig(t)] = IF HeldRow THEN @
                                       ELSE [At("try") EXCEPT !.ni = p[Self(t)].ni]]
        BY <1>2 DEF StartMigration
      <3>2. x # Mig(t) /\ Mig(t) \in Procs /\ p[x] \in Local
        BY <1>0, ProcFacts DEF Typed
      <3>3. p'[x].res = "ok"
        BY <1>0, <3>1, <3>2 DEF Typed, Local
      <3>4. p'[x].res = "error"
        BY <1>0, <2>2, EndFacts
      <3> QED
        BY <3>3, <3>4
    <2> QED
      BY <2>1, <2>2
  <1>3. CASE /\ HasNarInfo(t) \/ ReadObject(t) \/ CheckObject(t) \/ WaitMigration(t)
                \/ WaitPut(t) \/ FoundMeanwhile(t)
    <2>1. UNCHANGED <<row, bytes, obj>>
      BY <1>3 DEF HasNarInfo, ReadObject, CheckObject, WaitMigration, WaitPut, FoundMeanwhile,
                  Still, db
    <2>2. Others(x)
      <3>1. ~StartMigration(t)
        BY <1>3 DEF HasNarInfo, ReadObject, CheckObject, WaitMigration, WaitPut, FoundMeanwhile,
                    StartMigration, Is
      <3> QED
        BY <1>0, <1>1, <3>1, GetterEffect DEF Kept, Effect
    <2>3. Nowhere => Nowhere'
      BY <1>0, <2>2, ProcFacts DEF Nowhere, Pulling, Others
    <2>4. CASE HasNarInfo(t)
      <3>1. p[x].pc = "look"
        BY <2>4 DEF HasNarInfo, Is
      <3>2. CASE obj # None
        <4>1. p'[x].pc = "read"
          BY <1>0, <2>4, <3>2, MoveFacts DEF HasNarInfo, Steps
        <4> QED
          BY <1>0, <2>1, <2>3, <3>1, <4>1 DEF Sure, Behind
      <3>3. CASE obj = None
        <4>1. p'[x].pc = "coord"
          BY <1>0, <2>4, <3>3, MissFacts DEF HasNarInfo
        <4> QED
          BY <1>0, <2>1, <2>3, <3>1, <3>3, <4>1 DEF Sure, Behind
      <3> QED
        BY <3>2, <3>3
    <2>5. CASE ReadObject(t)
      <3>1. p[x].pc = "read" /\ (obj = None \/ obj \in bytes) /\ Nowhere
        BY <1>0, <2>5 DEF ReadObject, Is, Sure
      <3>2. CASE obj = None
        <4>1. Move(x, "waitmig")
          BY <2>5, <3>2, MarkAssumption DEF ReadObject
        <4>2. p'[x].pc = "waitmig"
          BY <1>0, <4>1, MoveFacts DEF Steps
        <4> QED
          BY <2>1, <2>3, <3>1, <3>2, <4>2 DEF Sure, Behind
      <3>3. CASE obj \in bytes
        <4>0. obj \in Versions
          BY <3>3 DEF Kept, TypeOK
        <4>1. p' = [p EXCEPT ![x].pc = "check", ![x].ni = obj]
          BY <2>5, <4>0, MarkAssumption DEF ReadObject
        <4>2. p[x] \in Local
          BY <1>0 DEF Typed
        <4>3. p'[x].pc = "check" /\ p'[x].ni = obj
          BY <1>0, <4>1, <4>2 DEF Typed, Local
        <4> QED
          BY <2>1, <3>3, <4>3 DEF Sure, Behind
      <3> QED
        BY <3>1, <3>2, <3>3
    <2>6. CASE CheckObject(t)
      <3>1. p[x].ni \in bytes
        BY <1>0, <2>6 DEF CheckObject, Is, Sure
      <3>2. Move(x, "start")
        BY <2>6, <3>1 DEF CheckObject
      <3>3. p'[x].pc = "start"
        BY <1>0, <3>2, MoveFacts DEF Steps
      <3> QED
        BY <3>3 DEF Sure, Behind
    <2>7. CASE WaitMigration(t)
      <3>1. Behind(t) /\ p'[x].pc = "waitput"
        BY <1>0, <2>7, MoveFacts DEF WaitMigration, Is, Behind, Steps
      <3> QED
        BY <1>0, <2>1, <2>3, <3>1 DEF Sure, Behind
    <2>8. CASE WaitPut(t) \/ FoundMeanwhile(t)
      <3>1. Behind(t) /\ p'[x].pc = "db" /\ p'[x].site \in {"retry", "again"}
        BY <1>0, <2>8, CallFacts DEF WaitPut, FoundMeanwhile, Is, Behind
      <3> QED
        BY <1>0, <2>1, <2>3, <3>1 DEF Sure, Behind
    <2> QED
      BY <1>3, <2>4, <2>5, <2>6, <2>7, <2>8
  <1> QED
    BY <1>1, <1>2, <1>3 DEF Getter

LEMMA SightedInit == Init => Sighted
  <1> SUFFICES ASSUME Init PROVE Sighted
    OBVIOUS
  <1>1. ASSUME NEW i \in Instances PROVE p[Pull(i)].pc = "off"
    <2>1. p[Pull(i)] = At("off")
      BY ProcFacts DEF Init
    <2> QED
      BY <2>1, AtLocal DEF Steps
  <1> QED
    BY <1>1 DEF Init, Sighted, Pulling

LEMMA SightedNext ==
    ASSUME Kept, Sighted, Next
    PROVE  Sighted'
  <1>0. TypeOK /\ Paths /\ Effects /\ Frame
    BY NextEffects DEF Kept, Effects
  <1>1. ASSUME NEW i \in Instances, Pulling(i)' PROVE obj' = None
    <2>1. CASE Pulling(i)
      BY <1>0, <2>1 DEF Sighted, Frame
    <2>2. CASE ~Pulling(i)
      BY <1>1, <2>2, PullStarts DEF Present
    <2> QED
      BY <2>1, <2>2
  <1>2. (steady # {} /\ Nowhere => Nowhere')
    <2> SUFFICES ASSUME steady # {}, Nowhere, NEW i \in Instances, Pulling(i)' PROVE FALSE
      BY DEF Nowhere
    <2> QED
      BY PullStarts, ServableFacts DEF Nowhere, Sighted
  <1>3. CASE \E u \in Tasks : GetNarInfo(u)
    <2>0. PICK u \in Tasks : GetNarInfo(u)
      BY <1>3
    <2>1. UNCHANGED <<row, bytes, obj, scenario>>
      BY <2>0 DEF GetNarInfo, db
    <2>2. steady' # {} => Servable'
      BY <2>0, <2>1 DEF GetNarInfo, Sighted, Servable
    <2>3. Typed /\ Self(u) \in Procs /\ Call(Self(u), "first")
      BY <1>0, <2>0, ProcFacts DEF GetNarInfo, TypeOK, Typed
    <2>4. Others(Self(u)) /\ p'[Self(u)].pc = "db" /\ p'[Self(u)].site = "first"
      BY <2>3, CallFacts
    <2>5. ASSUME ~MayFail', NEW t \in steady', Kind(t)' = "get" PROVE Sure(t)'
      <3>0. t \in Tasks
        BY <2>0, <2>5 DEF GetNarInfo, Kept, TypeOK
      <3>1. CASE t = u
        BY <2>4, <3>1 DEF Sure, Behind
      <3>2. CASE t # u
        <4>1. t \in steady
          BY <2>0, <3>2 DEF GetNarInfo
        <4>2. Sure(t)
          BY <2>1, <2>5, <4>1 DEF Sighted, MayFail, Kind
        <4>3. p'[Self(t)] = p[Self(t)]
          BY <2>4, <3>0, <3>2, ProcFacts DEF Others
        <4> QED
          BY <1>2, <2>1, <3>0, <4>1, <4>2, <4>3, SureStays
      <3> QED
        BY <3>1, <3>2
    <2> QED
      BY <1>1, <2>2, <2>5 DEF Sighted
  <1>4. CASE Track
    <2>1. steady' # {} => Servable' /\ bytes \subseteq bytes' /\ steady' = steady
      BY <1>4 DEF Track
    <2>2. ASSUME ~MayFail', NEW t \in steady', Kind(t)' = "get" PROVE Sure(t)'
      <3>1. t \in steady /\ t \in Tasks /\ ~MayFail /\ Kind(t) = "get" /\ bytes \subseteq bytes'
        BY <1>0, <2>1, <2>2 DEF Frame, MayFail, Kind, TypeOK
      <3>2. Sure(t) /\ Self(t) \in Procs
        BY <3>1, ProcFacts DEF Sighted
      <3>3. CASE p'[Self(t)] = p[Self(t)]
        BY <1>0, <1>2, <3>1, <3>2, <3>3, SureStays DEF Frame
      <3>4. CASE Reader(Self(t))
        BY <3>1, <3>4, ReaderSure
      <3>5. CASE Getter(t) \/ WaitFails(t) \/ Cancel(t)
        BY <3>1, <3>5, GetterSure
      <3>6. ~Migrator(Self(t)) /\ ~Fixer(Self(t)) /\ p[Self(t)].pc # "wait"
        BY <3>2 DEF Sure, Migrator, MigTryLock, MigDoubleCheck, MigStore, MigRemove, Fixer,
                    FixQuery, FixLink, FixRead, FixPresent, FixMeasure, FixSize, FixSum, FixHash
      <3>7. ~Writer(t) /\ ~Evict(t)
        BY <3>1 DEF Is, Writer, PutBegin, PutStore, PutClean, SendStore, SendRecord, DeleteLook,
                    DeleteRow, DeleteObject, CliList, CliRead, CliWipe,
                    Evict, EvictRows, EvictBytes
      <3>8. CASE Moved(Self(t))
        <4>1. \A u \in Tasks : Self(t) = Self(u) => u = t
          BY <3>1, ProcFacts
        <4>2. \A u \in Tasks : Self(t) # Mig(u) /\ Self(t) # Pull(Home[u])
          BY <3>1, ProcFacts, HomeAssumption
        <4>3. /\ \A i \in Instances : Self(t) # Pull(i)
              /\ \A v \in Versions : Self(t) # Fetched(v)
          BY <3>1, ProcFacts
        <4>4. Reader(Self(t)) \/ Getter(t) \/ WaitFails(t) \/ Cancel(t)
          BY <3>6, <3>7, <3>8, <4>1, <4>2, <4>3 DEF Moved
        <4> QED
          BY <3>4, <3>5, <4>4
      <3> QED
        BY <3>2, <3>3, <3>8, Movers
    <2> QED
      BY <1>1, <2>1, <2>2 DEF Sighted
  <1> QED
    BY <1>3, <1>4, NextTracks

(* PresentServed: a get during which the narinfo was servable at every     *)
(* moment, and no NAR went, answers with it.                               *)
THEOREM NarInfoPresentServed == Spec => []PresentServed
  <1>1. Init => Sighted
    BY SightedInit
  <1>2. ASSUME Kept, Sighted, [Next]_vars PROVE Sighted'
    <2>1. CASE UNCHANGED vars
      BY <1>2, <2>1 DEF Sighted, Pulling, Servable, Sure, Behind, Nowhere, MayFail, Kind, vars
    <2> QED
      BY <1>2, <2>1, SightedNext
  <1>3. Kept /\ Sighted => PresentServed
    BY DEF Sighted, PresentServed, Sure, Is
  <1> QED
    BY <1>1, <1>2, <1>3, NarInfoKept, PTL DEF Spec

-----------------------------------------------------------------------------
(* Backfilled. A narinfo without hash was uploaded; once it is there with  *)
(* its NAR and the NAR's row, whoever completed the three is about to look *)
(* at it, or has looked and is about to write its hash.                    *)
Lookers == {Self(t) : t \in Tasks} \cup {Fetched(v) : v \in Versions}
Looking(x) ==
    \/ p[x].pc \in {"clean", "fix"}
    \/ p[x].pc \in {"query", "link"} /\ p[x].ni = row
    \/ p[x].pc \in Repairing /\ p[x].ni = row /\ p[x].bare
    \/ \E t \in Tasks : x = Self(t) /\ p[x].pc = "record" /\ Item(t) = row
Watcher == (\E x \in Lookers : Looking(x)) \/ narJob[row].step = "record"
Calm == ~MayFail /\ ~scenario.cdc /\ BareUploads
Bare == HeldRow /\ fileHash = None => row \in scenario.bare
Watched == Calm /\ row \in bytes \cap narFiles /\ fileHash = None => Watcher
Own == asked \/ fileHash = None \/ fileHash = row
JobFixes == \A v \in Versions : /\ p[Fetched(v)].pc # "off" => narJob[v].step = "fix"
                                /\ narJob[v].by = None => narJob[v].step = "none"
Hashing == Bare /\ Watched /\ Own /\ JobFixes

(* What a step does to the row, its hash, the nar_files and the bytes.     *)
Same == UNCHANGED <<row, fileHash, narFiles>> /\ bytes' \subseteq bytes
Gone == row' = None /\ fileHash' = None
Imported == \E v \in {scenario.legacy, scenario.upstream} \cap Versions :
               StoreInDatabase(v) /\ bytes' = bytes
Uploaded == \E t \in Tasks : PutStore(t) /\ StoreInDatabase(Item(t)) /\ Move(Self(t), "clean")
Sent == \E t \in Tasks : SendStore(t) \/ SendRecord(t)
Received == \E v \in Versions : NarStored(v) \/ NarRecorded(v)
Summed == \E x \in Procs : FixHash(x)

LEMMA DbSteps ==
    ASSUME Kept, Next
    PROVE  Same \/ Gone \/ Imported \/ Uploaded \/ Sent \/ Received \/ Summed
  <1>0. TypeOK /\ Paths
    BY DEF Kept
  <1>1. ASSUME Still PROVE Same
    BY <1>1 DEF Still, Same, db
  <1>2. ASSUME NEW x \in Procs, Reader(x) PROVE Same
    BY <1>1, <1>2 DEF Reader, DbRead, DbStat, DbJobs, DbRecheck
  <1>3. ASSUME NEW x \in Procs, Migrator(x) PROVE Same \/ Imported
    <2>1. CASE MigTryLock(x) \/ MigDoubleCheck(x) \/ MigRemove(x) \/ (MigStore(x) /\ UNCHANGED db)
      BY <2>1 DEF MigTryLock, MigDoubleCheck, MigRemove, MigStore, Same, db
    <2>2. CASE MigStore(x) /\ p[x].ni # Bad /\ StoreInDatabase(p[x].ni)
      <3>1. p[x].ni = scenario.legacy /\ p[x].ni \in Versions
        BY <1>0, <2>2, ScenarioFacts DEF Paths, Path, MigStore
      <3> QED
        BY <2>2, <3>1 DEF MigStore, Imported
    <2> QED
      BY <1>3, <2>1, <2>2 DEF Migrator, MigStore
  <1>4. ASSUME NEW x \in Procs, Fixer(x) PROVE Same \/ Summed
    <2>1. CASE FixLink(x) \/ FixSize(x)
      BY <2>1 DEF FixLink, FixSize, Same, file
    <2>2. CASE FixHash(x)
      BY <2>2 DEF Summed
    <2> QED
      BY <1>1, <1>4, <2>1, <2>2
         DEF Fixer, FixQuery, FixRead, FixPresent, FixMeasure, FixSum
  <1>5. ASSUME NEW t \in Tasks, Getter(t) \/ WaitFails(t) \/ Cancel(t) PROVE Same \/ Gone
    <2>1. CASE GetNarInfo(t) \/ Cancel(t) \/ StartPull(t) \/ PurgeBytes(t)
      BY <2>1 DEF GetNarInfo, Cancel, StartPull, PurgeBytes, Same, db
    <2>2. CASE PurgeRows(t) \/ PurgeObject(t)
      BY <2>2 DEF PurgeRows, PurgeObject, Same, Gone, RowGoes, db, file
    <2> QED
      BY <1>1, <1>5, <2>1, <2>2
         DEF Getter, WaitFails, HasNarInfo, ReadObject, CheckObject, CheckJob, StartMigration,
             WaitMigration, WaitPut, JoinPull, FoundMeanwhile
  <1>6. ASSUME NEW t \in Tasks, Writer(t) \/ Evict(t)
        PROVE  Same \/ Gone \/ Uploaded \/ Sent
    <2>1. CASE PutBegin(t) \/ PutClean(t)
      BY <2>1 DEF PutBegin, PutClean, Same, db
    <2>2. CASE PutStore(t)
      BY <2>2 DEF PutStore, Same, Uploaded, db
    <2>3. CASE SendStore(t) \/ SendRecord(t)
      BY <2>3 DEF Sent
    <2>4. CASE DeleteRow(t) \/ DeleteObject(t) \/ CliWipe(t) \/ Evict(t)
      BY <2>4 DEF DeleteRow, DeleteObject, CliWipe, Evict, EvictRows, EvictBytes, Same, Gone,
                  RowGoes, db, file
    <2> QED
      BY <1>1, <1>6, <2>1, <2>2, <2>3, <2>4 DEF Writer, DeleteLook, CliList, CliRead
  <1>7. ASSUME NEW i \in Instances, Puller(i) \/ PullWaitFails(i) PROVE Same \/ Imported
    <2>1. CASE PullStore(i) /\ StoreInDatabase(p[Pull(i)].ni)
      <3>1. p[Pull(i)].ni = scenario.upstream /\ p[Pull(i)].ni \in Versions
        BY <1>0, <2>1, ScenarioFacts, ProcFacts DEF Paths, Path, PullStore, IsPull
      <3> QED
        BY <2>1, <3>1 DEF PullStore, Imported
    <2>2. CASE UNCHANGED db /\ bytes' = bytes
      BY <2>2 DEF Same, db
    <2> QED
      BY <1>1, <1>7, <2>1, <2>2
         DEF Puller, PullWaitMigration, PullWaitPut, PullFinish, PullFetch, PullNar, PullSign,
             PullStore, PullWaitFails
  <1>8. ASSUME NEW v \in Versions, Download(v) PROVE Same \/ Received
    <2>1. CASE NarFixed(v) \/ NarFailed(v)
      BY <2>1 DEF NarFixed, NarFailed, Same, db
    <2> QED
      BY <1>8, <2>1 DEF Download, Received
  <1>9. ASSUME MigLockLapse PROVE Same
    BY <1>9 DEF MigLockLapse, Same, db
  <1> QED
    BY <1>2, <1>3, <1>4, <1>5, <1>6, <1>7, <1>8, <1>9 DEF Next

LEMMA BareNext ==
    ASSUME Kept, Kept', Bare, Next
    PROVE  Bare'
  <1>0. TypeOK /\ Paths /\ scenario' = scenario
    BY NextEffects DEF Kept, Effects, Frame
  <1>1. CASE row' = row /\ (fileHash' = None => fileHash = None)
    BY <1>0, <1>1 DEF Bare, HeldRow
  <1>2. CASE Gone
    BY <1>2, MarkAssumption DEF Gone, Bare, HeldRow
  <1>3. ASSUME NEW v \in Versions, StoreInDatabase(v) PROVE Bare'
    BY <1>0, <1>3, MarkAssumption DEF StoreInDatabase, UpsertNarInfo, Stated, Bare, HeldRow
  <1>4. CASE Same
    BY <1>1, <1>4 DEF Same
  <1>5. CASE Sent
    BY <1>1, <1>5 DEF Sent, SendStore, SendRecord, db, file
  <1>6. CASE Received
    BY <1>1, <1>6 DEF Received, NarStored, NarRecorded, db, file
  <1>7. CASE Summed
    <2>1. PICK x \in Procs : FixHash(x)
      BY <1>7 DEF Summed
    <2>2. p[x].ni \in Versions
      BY <1>0, <2>1 DEF FixHash, Paths, Path
    <2>3. row' = row /\ (row = None \/ fileHash' = p[x].ni \/ fileHash' = fileHash)
      BY <2>1 DEF FixHash
    <2> QED
      BY <1>0, <2>2, <2>3, MarkAssumption DEF Bare, HeldRow
  <1> QED
    BY <1>0, <1>2, <1>3, <1>4, <1>5, <1>6, <1>7, DbSteps, ScenarioFacts DEF Imported, Uploaded

LEMMA OwnNext ==
    ASSUME Kept, Own, Next
    PROVE  Own'
  <1>0. TypeOK /\ Paths /\ Frame
    BY NextEffects DEF Kept, Effects
  <1>1. CASE row' = row /\ fileHash' = fileHash
    BY <1>0, <1>1 DEF Own, Frame
  <1>2. CASE Gone
    BY <1>2 DEF Gone, Own
  <1>3. ASSUME NEW v \in Versions, StoreInDatabase(v) PROVE Own'
    BY <1>0, <1>3 DEF StoreInDatabase, UpsertNarInfo, Stated, Own, Frame
  <1>4. CASE Same
    BY <1>1, <1>4 DEF Same
  <1>5. CASE Sent
    BY <1>1, <1>5 DEF Sent, SendStore, SendRecord, db, file
  <1>6. CASE Received
    BY <1>1, <1>6 DEF Received, NarStored, NarRecorded, db, file
  <1>7. CASE Summed
    <2>1. PICK x \in Procs : FixHash(x)
      BY <1>7 DEF Summed
    <2>2. p[x].ni = row \/ asked
      BY <1>0, <2>1 DEF FixHash, Paths, Path
    <2>3. row' = row /\ fileHash' \in {None, p[x].ni, fileHash}
      BY <2>1 DEF FixHash
    <2> QED
      BY <1>0, <2>2, <2>3 DEF Own, Frame
  <1> QED
    BY <1>0, <1>2, <1>3, <1>4, <1>5, <1>6, <1>7, DbSteps, ScenarioFacts DEF Imported, Uploaded

(* Who changes a job.                                                      *)
LEMMA JobSteps ==
    ASSUME Kept, Next, NEW v \in Versions, narJob'[v] # narJob[v]
    PROVE  \/ Download(v)
           \/ narJob[v].by = None /\ \E i \in Instances : narJob'[v] = [by |-> i, step |-> "run"]
  <1>0. narJob \in [Versions -> [by : Instances \cup {None},
                                 step : {"none", "run", "record", "fix"}]]
    BY DEF Kept, TypeOK
  <1>1. ASSUME NEW x \in Procs PROVE ~Reader(x) /\ ~Migrator(x) /\ ~Fixer(x)
    BY DEF Reader, DbRead, DbStat, DbJobs, DbRecheck, Migrator, MigTryLock, MigDoubleCheck,
           MigStore, MigRemove, Fixer, FixQuery, FixLink, FixRead, FixPresent, FixMeasure,
           FixSize, FixSum, FixHash, Still
  <1>2. ASSUME NEW t \in Tasks PROVE ~Getter(t) /\ ~WaitFails(t) /\ ~Cancel(t)
    BY DEF Getter, GetNarInfo, HasNarInfo, ReadObject, CheckObject, CheckJob, StartMigration,
           PurgeRows, PurgeObject, PurgeBytes, WaitMigration, WaitPut, JoinPull, FoundMeanwhile,
           StartPull, WaitFails, Cancel, Still
  <1>3. ASSUME NEW t \in Tasks PROVE ~Writer(t) /\ ~Evict(t)
    BY DEF Writer, PutBegin, PutStore, PutClean, SendStore, SendRecord, DeleteLook, DeleteRow,
           DeleteObject, CliList, CliRead, CliWipe, Evict, EvictRows, EvictBytes, Still
  <1>4. ASSUME NEW i \in Instances, Puller(i) \/ PullWaitFails(i) PROVE PullNar(i)
    BY <1>4 DEF Puller, PullWaitMigration, PullWaitPut, PullFinish, PullFetch, PullSign,
                PullStore, PullWaitFails, Still
  <1>5. ASSUME NEW i \in Instances, PullNar(i)
        PROVE  narJob[v].by = None /\ narJob'[v] = [by |-> i, step |-> "run"]
    BY <1>0, <1>5 DEF PullNar
  <1>6. ASSUME NEW w \in Versions, Download(w) PROVE Download(v)
    <2>1. CASE w # v
      BY <1>0, <1>6, <2>1 DEF Download, NarStored, NarRecorded, NarFixed, NarFailed, NarStep
    <2> QED
      BY <1>6, <2>1
  <1>7. ~MigLockLapse
    BY DEF MigLockLapse
  <1> QED
    BY <1>1, <1>2, <1>3, <1>4, <1>5, <1>6, <1>7 DEF Next

LEMMA JobFixesNext ==
    ASSUME Kept, JobFixes, Next
    PROVE  JobFixes'
  <1> SUFFICES ASSUME NEW v \in Versions
               PROVE  /\ p'[Fetched(v)].pc # "off" => narJob'[v].step = "fix"
                      /\ narJob'[v].by = None => narJob'[v].step = "none"
    BY DEF JobFixes
  <1>0. /\ narJob \in [Versions -> [by : Instances \cup {None},
                                    step : {"none", "run", "record", "fix"}]]
        /\ Typed /\ Fetched(v) \in Procs
    BY ProcFacts DEF Kept, TypeOK, Typed
  <1>1. narJob'[v].by = None => narJob'[v].step = "none"
    <2>1. CASE Download(v)
      BY <1>0, <2>1 DEF JobFixes, Download, NarStored, NarRecorded, NarFixed, NarFailed, NarStep,
                        NoJob
    <2>2. ASSUME NEW i \in Instances, narJob'[v] = [by |-> i, step |-> "run"]
          PROVE  narJob'[v].by # None
      BY <2>2, MarkAssumption
    <2>3. CASE narJob'[v] = narJob[v]
      BY <2>3 DEF JobFixes
    <2> QED
      BY <2>1, <2>2, <2>3, JobSteps
  <1>2. CASE Download(v)
    <2>1. CASE p' = p
      <3>1. narJob[v].step # "fix"
        BY <1>0, <1>2, <2>1, AtLocal
           DEF Download, NarStored, NarRecorded, NarFixed, NarFailed, Typed, Steps
      <3> QED
        BY <1>1, <2>1, <3>1 DEF JobFixes
    <2>2. CASE NarRecorded(v) /\ p' # p
      <3>1. narJob' = [narJob EXCEPT ![v].step = "fix"]
        BY <2>2 DEF NarRecorded, NarStep
      <3> QED
        BY <1>0, <1>1, <3>1
    <2>3. CASE NarFixed(v)
      <3>1. p'[Fetched(v)] = At("off")
        BY <1>0, <2>3 DEF NarFixed, Typed
      <3>2. At("off").pc = "off"
        BY DEF At
      <3> QED
        BY <1>1, <3>1, <3>2
    <2> QED
      BY <1>1, <1>2, <2>1, <2>2, <2>3 DEF Download, NarStored, NarFailed
  <1>3. CASE ~Download(v) /\ p[Fetched(v)].pc # "off"
    BY <1>1, <1>3, JobSteps DEF JobFixes
  <1>4. CASE ~Download(v) /\ p[Fetched(v)].pc = "off"
    <2>1. ~Reader(Fetched(v)) /\ ~Migrator(Fetched(v)) /\ ~Fixer(Fetched(v))
      BY <1>4 DEF Reader, DbRead, DbStat, DbJobs, DbRecheck, Migrator, MigTryLock,
                  MigDoubleCheck, MigStore, MigRemove, Fixer, FixQuery, FixLink, FixRead,
                  FixPresent, FixMeasure, FixSize, FixSum, FixHash
    <2>2. /\ \A w \in Versions : Fetched(v) = Fetched(w) => w = v
          /\ \A t \in Tasks : /\ Fetched(v) # Self(t) /\ Fetched(v) # Mig(t)
                              /\ Fetched(v) # Pull(Home[t])
          /\ \A i \in Instances : Fetched(v) # Pull(i)
      BY ProcFacts, HomeAssumption
    <2>3. ~Moved(Fetched(v))
      BY <1>4, <2>1, <2>2 DEF Moved
    <2> QED
      BY <1>0, <1>1, <1>4, <2>3, Movers
  <1> QED
    BY <1>2, <1>3, <1>4

(* Only their own steps move the goroutines that are about to look.        *)
LEMMA LookersMove ==
    ASSUME Kept, JobFixes, Next, NEW x \in Lookers, Looking(x), p'[x] # p[x]
    PROVE  Fixer(x) \/ \E t \in Tasks : x = Self(t) /\ (PutClean(t) \/ SendRecord(t))
  <1>0. x \in Procs /\ Moved(x)
    BY ProcFacts, Movers DEF Lookers
  <1>1. p[x].pc \in {"clean", "fix", "query", "link", "record"} \cup Repairing
    BY DEF Looking
  <1>2. ~Reader(x) /\ ~Migrator(x) /\ p[x].pc \notin {"wait", "off", "done"}
    BY <1>1 DEF Reader, DbRead, DbStat, DbJobs, DbRecheck, Migrator, MigTryLock,
                MigDoubleCheck, MigStore, MigRemove, Repairing
  <1>3. ASSUME NEW v \in Versions, x = Fetched(v), Download(v) PROVE FALSE
    <2>1. CASE NarStored(v) \/ NarFailed(v)
      BY <2>1 DEF NarStored, NarFailed
    <2>2. CASE NarRecorded(v)
      BY <1>2, <1>3, <2>2 DEF NarRecorded, JobFixes
    <2>3. CASE NarFixed(v)
      BY <1>2, <1>3, <2>3 DEF NarFixed
    <2> QED
      BY <1>3, <2>1, <2>2, <2>3 DEF Download
  <1>4. \A t \in Tasks : x # Mig(t) /\ x # Pull(Home[t])
    BY ProcFacts, HomeAssumption DEF Lookers
  <1>5. \A i \in Instances : x # Pull(i)
    BY ProcFacts DEF Lookers
  <1>6. ASSUME NEW t \in Tasks, x = Self(t) PROVE ~Getter(t) /\ ~WaitFails(t) /\ ~Cancel(t)
    BY <1>1, <1>6 DEF Getter, GetNarInfo, HasNarInfo, ReadObject, CheckObject, CheckJob,
                      StartMigration, PurgeRows, PurgeObject, PurgeBytes, WaitMigration, WaitPut,
                      JoinPull, FoundMeanwhile, StartPull, WaitFails, Cancel, Is, Repairing
  <1>7. ASSUME NEW t \in Tasks, x = Self(t), Writer(t) \/ Evict(t)
        PROVE  PutClean(t) \/ SendRecord(t)
    BY <1>1, <1>7 DEF Writer, PutBegin, PutStore, SendStore, DeleteLook, DeleteRow, DeleteObject,
                      CliList, CliRead, CliWipe, Evict, EvictRows, EvictBytes, Is, Repairing
  <1>8. CASE \E v \in Versions : x = Fetched(v) /\ Download(v)
    BY <1>3, <1>8
  <1>9. CASE \E t \in Tasks : /\ x = Self(t)
                              /\ Getter(t) \/ WaitFails(t) \/ Cancel(t) \/ Writer(t) \/ Evict(t)
    BY <1>6, <1>7, <1>9
  <1> QED
    BY <1>0, <1>2, <1>4, <1>5, <1>8, <1>9 DEF Moved

(* The records of a NAR are followed by a look at its narinfos.            *)
LEMMA SendRecords ==
    ASSUME Kept, NEW t \in Tasks, SendRecord(t), Item(t) = row, ~MayFail
    PROVE  Looking(Self(t))'
  <1> DEFINE x == Self(t)
             l == [p[x] EXCEPT !.pc = "query", !.ni = row]
  <1>1. x \in Procs /\ p \in [Procs -> Local] /\ p[x] \in Local
    BY ProcFacts DEF Kept, TypeOK
  <1>2. p' = [p EXCEPT ![x].pc = "query", ![x].ni = row] /\ row' = row
    BY DEF SendRecord
  <1>3. p' = [p EXCEPT ![x] = l] /\ l.pc = "query" /\ l.ni = row
    BY <1>1, <1>2 DEF Local
  <1> HIDE DEF l, x
  <1>4. p'[x] = l
    BY <1>1, <1>3
  <1> QED
    BY <1>2, <1>3, <1>4 DEF Looking, x

LEMMA NarRecords ==
    ASSUME Kept, row \in Versions, NarRecorded(row), ~MayFail
    PROVE  Watcher'
  <1> DEFINE l == [At("query") EXCEPT !.ni = row]
  <1>1. Fetched(row) \in Procs /\ p \in [Procs -> Local]
    BY ProcFacts DEF Kept, TypeOK
  <1>2. p' = [p EXCEPT ![Fetched(row)] = l] /\ row' = row
    BY DEF NarRecorded
  <1>3. l.pc = "query" /\ l.ni = row
    BY DEF At
  <1> HIDE DEF l
  <1>4. p'[Fetched(row)] = l
    BY <1>1, <1>2
  <1>5. Looking(Fetched(row))'
    BY <1>2, <1>3, <1>4 DEF Looking
  <1> QED
    BY <1>2, <1>5 DEF Watcher, Lookers

(* A looker that has the narinfo, its NAR and the NAR's row before it goes *)
(* on looking until the hash is written.                                   *)
LEMMA LookingStays ==
    ASSUME Kept, JobFixes, Next, NEW x \in Lookers, Looking(x), Calm, row' = row,
           row \in bytes \cap narFiles, fileHash = None, fileHash' = None
    PROVE  Looking(x)'
  <1>0. /\ scenario' = scenario /\ x \in Procs /\ Typed /\ p[x] \in Local /\ row \in Versions
        /\ ~MayFail /\ ~scenario.cdc
    BY NextEffects, ProcFacts DEF Kept, Effects, Frame, Lookers, TypeOK, Typed, Calm
  <1>1. CASE p'[x] = p[x]
    BY <1>0, <1>1 DEF Looking, Item
  <1>2. CASE Fixer(x)
    <2>1. ASSUME NEW to \in Steps, Move(x, to)
          PROVE  p'[x].pc = to /\ p'[x].ni = p[x].ni /\ p'[x].bare = p[x].bare
      <3> DEFINE l == [p[x] EXCEPT !.pc = to]
      <3>1. p' = [p EXCEPT ![x] = l] /\ l.pc = to /\ l.ni = p[x].ni /\ l.bare = p[x].bare
        BY <1>0, <2>1 DEF Move, Typed, Local
      <3> HIDE DEF l
      <3> QED
        BY <1>0, <3>1 DEF Typed
    <2>2. CASE FixQuery(x)
      <3>1. Move(x, "link") /\ p[x].ni = row
        BY <1>0, <2>2 DEF FixQuery, Looking, Repairing
      <3> QED
        BY <2>1, <3>1 DEF Looking, Steps
    <2>3. CASE FixLink(x)
      <3>1. Move(x, "fix")
        BY <1>0, <2>3 DEF FixLink
      <3> QED
        BY <2>1, <3>1 DEF Looking, Steps
    <2>4. CASE FixRead(x)
      <3> DEFINE l == [p[x] EXCEPT !.pc = "present", !.ni = row, !.bare = TRUE, !.size = fileSize]
      <3>1. p' = [p EXCEPT ![x].pc = "present", ![x].ni = row,
                           ![x].bare = (fileHash = None), ![x].size = fileSize]
        BY <1>0, <2>4 DEF FixRead, HeldRow
      <3>2. p' = [p EXCEPT ![x] = l] /\ l.pc = "present" /\ l.ni = row /\ l.bare
        BY <1>0, <3>1 DEF Typed, Local
      <3> HIDE DEF l
      <3>3. p'[x] = l
        BY <1>0, <3>2 DEF Typed
      <3> QED
        BY <3>2, <3>3 DEF Looking, Repairing
    <2>5. CASE FixPresent(x) \/ FixSize(x) \/ FixSum(x)
      <3>1. p[x].ni = row /\ p[x].bare
        BY <2>5 DEF FixPresent, FixSize, FixSum, Looking, Repairing
      <3>2. Move(x, "measure") \/ Move(x, "sum") \/ Move(x, "rehash")
        BY <1>0, <2>5, <3>1 DEF FixPresent, FixSize, FixSum
      <3> QED
        BY <2>1, <3>1, <3>2 DEF Looking, Steps, Repairing
    <2>6. CASE FixMeasure(x)
      <3> DEFINE size == Recorded(p[x].ni)
                 to == IF size # p[x].size THEN "resize" ELSE "sum"
                 l == [p[x] EXCEPT !.pc = to, !.size = size]
      <3>1. p[x].ni = row /\ p[x].bare
        BY <2>6 DEF FixMeasure, Looking, Repairing
      <3>2. p' = [p EXCEPT ![x].pc = to, ![x].size = size]
        BY <1>0, <2>6, <3>1 DEF FixMeasure
      <3>3. p' = [p EXCEPT ![x] = l] /\ l.pc \in {"resize", "sum"} /\ l.ni = row /\ l.bare
        BY <1>0, <3>1, <3>2 DEF Typed, Local
      <3> HIDE DEF l
      <3>4. p'[x] = l
        BY <1>0, <3>3 DEF Typed
      <3> QED
        BY <3>3, <3>4 DEF Looking, Repairing
    <2>7. CASE FixHash(x)
      <3>1. p[x].ni = row
        BY <2>7 DEF FixHash, Looking, Repairing
      <3> QED
        BY <1>0, <2>7, <3>1, MarkAssumption DEF FixHash
    <2> QED
      BY <1>2, <2>2, <2>3, <2>4, <2>5, <2>6, <2>7 DEF Fixer
  <1>3. ASSUME NEW t \in Tasks, x = Self(t), PutClean(t) PROVE Looking(x)'
    BY <1>0, <1>3, MoveFacts DEF PutClean, Looking, Steps
  <1>4. ASSUME NEW t \in Tasks, x = Self(t), SendRecord(t) PROVE Looking(x)'
    <2>1. Item(t) = row
      BY <1>4, ProcFacts DEF SendRecord, Is, Looking, Repairing
    <2> QED
      BY <1>0, <1>4, <2>1, SendRecords
  <1> QED
    BY <1>1, <1>2, <1>3, <1>4, LookersMove

LEMMA WatcherStays ==
    ASSUME Kept, JobFixes, Next, Watcher, Calm, row' = row,
           row \in bytes \cap narFiles, fileHash = None, fileHash' = None
    PROVE  Watcher'
  <1>1. CASE \E x \in Lookers : Looking(x)
    BY <1>1, LookingStays DEF Watcher, Lookers
  <1>2. CASE narJob[row].step = "record"
    <2>0. row \in Versions
      BY DEF Kept, TypeOK
    <2>1. CASE narJob'[row] = narJob[row]
      BY <1>2, <2>1 DEF Watcher
    <2>2. CASE Download(row)
      <3>1. NarRecorded(row) /\ ~MayFail
        BY <1>2, <2>2 DEF Download, NarStored, NarFixed, NarFailed, Calm
      <3> QED
        BY <2>0, <3>1, NarRecords
    <2>3. narJob[row].by # None
      BY <1>2, <2>0 DEF JobFixes
    <2> QED
      BY <2>0, <2>1, <2>2, <2>3, JobSteps
  <1> QED
    BY <1>1, <1>2 DEF Watcher

LEMMA WatchedNext ==
    ASSUME Kept, Kept', Hashing, Next
    PROVE  Watched'
  <1> SUFFICES ASSUME Calm', row' \in bytes' \cap narFiles', fileHash' = None PROVE Watcher'
    BY DEF Watched
  <1>0. /\ TypeOK /\ Paths /\ Typed /\ scenario' = scenario /\ Calm /\ ~MayFail
        /\ row' \in Versions /\ bytes \subseteq Versions
    BY NextEffects DEF Kept, Effects, Frame, TypeOK, Typed, Calm, MayFail, BareUploads
  <1>1. ASSUME row' = row, fileHash = None, row \in bytes \cap narFiles PROVE Watcher'
    BY <1>0, <1>1, WatcherStays DEF Hashing, Watched
  <1>2. CASE Same
    BY <1>1, <1>2 DEF Same
  <1>3. CASE Gone
    BY <1>0, <1>3, MarkAssumption DEF Gone
  <1>4. CASE Imported
    <2>1. PICK v \in {scenario.legacy, scenario.upstream} \cap Versions :
                 StoreInDatabase(v) /\ bytes' = bytes
      BY <1>4 DEF Imported
    <2>2. v \notin scenario.bare /\ v # None
      BY <1>0, MarkAssumption DEF Calm, BareUploads
    <2>3. HeldRow /\ row' = row /\ fileHash' = fileHash
      BY <2>1, <2>2 DEF StoreInDatabase, UpsertNarInfo, Stated
    <2>4. row # v
      BY <2>2, <2>3 DEF Hashing, Bare
    <2> QED
      BY <1>1, <2>1, <2>3, <2>4 DEF StoreInDatabase
  <1>5. CASE Uploaded
    <2>1. PICK t \in Tasks : Move(Self(t), "clean")
      BY <1>5 DEF Uploaded
    <2>2. p'[Self(t)].pc = "clean"
      BY <1>0, <2>1, MoveFacts, ProcFacts DEF Steps
    <2> QED
      BY <2>2 DEF Watcher, Looking, Lookers
  <1>6. ASSUME NEW t \in Tasks, SendStore(t) PROVE Watcher'
    <2>1. CASE Item(t) = row
      <3>1. p'[Self(t)].pc = "record" /\ row' = row
        BY <1>0, <1>6, MoveFacts, ProcFacts DEF SendStore, Steps, db
      <3> QED
        BY <1>0, <2>1, <3>1 DEF Watcher, Looking, Lookers, Item
    <2>2. CASE Item(t) # row
      BY <1>0, <1>1, <1>6, <2>2 DEF SendStore, db
    <2> QED
      BY <2>1, <2>2
  <1>7. ASSUME NEW t \in Tasks, SendRecord(t) PROVE Watcher'
    <2>1. CASE Item(t) = row
      <3>1. Looking(Self(t))'
        BY <1>0, <1>7, <2>1, SendRecords
      <3> QED
        BY <3>1 DEF Watcher, Lookers
    <2>2. CASE Item(t) # row
      BY <1>0, <1>1, <1>7, <2>2 DEF SendRecord, file
    <2> QED
      BY <2>1, <2>2
  <1>8. ASSUME NEW v \in Versions, NarStored(v) PROVE Watcher'
    <2>1. CASE v = row
      <3>1. narJob'[row].step = "record" /\ row' = row
        BY <1>0, <1>8, <2>1 DEF NarStored, NarStep, TypeOK, db
      <3> QED
        BY <3>1 DEF Watcher
    <2>2. CASE v # row
      BY <1>0, <1>1, <1>8, <2>2 DEF NarStored, db
    <2> QED
      BY <2>1, <2>2
  <1>9. ASSUME NEW v \in Versions, NarRecorded(v) PROVE Watcher'
    <2>1. CASE v = row
      BY <1>0, <1>9, <2>1, NarRecords
    <2>2. CASE v # row
      BY <1>0, <1>1, <1>9, <2>2 DEF NarRecorded, file
    <2> QED
      BY <2>1, <2>2
  <1>10. CASE Summed
    <2>1. PICK x \in Procs : FixHash(x)
      BY <1>10 DEF Summed
    <2>2. p[x].ni \in Versions
      BY <1>0, <2>1 DEF FixHash, Paths, Path
    <2> QED
      BY <1>0, <2>1, <2>2, MarkAssumption DEF FixHash
  <1> QED
    BY <1>2, <1>3, <1>4, <1>5, <1>6, <1>7, <1>8, <1>9, <1>10, DbSteps DEF Sent, Received

(* Backfilled: when no call met an error and what lacked a hash came by    *)
(* upload, a narinfo whose NAR is stored ends with a hash, whichever of    *)
(* the two uploads came first and however their reads and writes mix; it   *)
(* is the hash of its own NAR unless the row was removed meanwhile.        *)
THEOREM NarInfoBackfilled == Spec => []Backfilled
  <1>1. Init => Hashing
    <2> SUFFICES ASSUME Init PROVE Hashing
      OBVIOUS
    <2>1. Bare
      BY MarkAssumption DEF Init, Bare, HeldRow, Stated
    <2>2. Own
      BY DEF Init, Own, Stated
    <2>3. BareUploads /\ row \in bytes \cap narFiles => fileHash # None
      <3>1. bytes \subseteq Versions
        BY KeptInit DEF Kept, TypeOK
      <3> QED
        BY <3>1, MarkAssumption DEF Init, BareUploads, Stated
    <2>4. JobFixes
      <3>1. \A v \in Versions : p[Fetched(v)] = At("off")
        BY ProcFacts DEF Init
      <3> QED
        BY <3>1, AtLocal DEF Init, JobFixes, NoJob, Steps
    <2> QED
      BY <2>1, <2>2, <2>3, <2>4 DEF Hashing, Watched, Calm
  <1>2. ASSUME Kept, Hashing, [Next]_vars PROVE Hashing'
    <2>1. CASE UNCHANGED vars
      BY <1>2, <2>1 DEF Hashing, Bare, Watched, Own, JobFixes, Calm, HeldRow, MayFail,
                        BareUploads, Watcher, Looking, Item, vars
    <2>2. CASE Next
      <3>1. Kept'
        BY <1>2, KeptNext
      <3> QED
        BY <1>2, <2>2, <3>1, BareNext, WatchedNext, OwnNext, JobFixesNext DEF Hashing
    <2> QED
      BY <1>2, <2>1, <2>2
  <1>3. Kept /\ Hashing => Backfilled
    <2> SUFFICES ASSUME Kept, Hashing, Over, Calm, row \in bytes \cap narFiles
                 PROVE  fileHash # None
      BY DEF Backfilled, Calm, Hashing, Own
    <2>1. \A x \in Lookers : ~Looking(x)
      BY ProcFacts DEF Over, Looking, Lookers, Repairing
    <2>2. row \in Versions
      BY DEF Kept, TypeOK
    <2>3. narJob[row].step = "none"
      BY <2>2 DEF Over, NoJob
    <2> QED
      BY <2>1, <2>3 DEF Hashing, Watched, Watcher
  <1> QED
    BY <1>1, <1>2, <1>3, NarInfoKept, PTL DEF Spec
=============================================================================
