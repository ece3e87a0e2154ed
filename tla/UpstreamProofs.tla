--------------------------- MODULE UpstreamProofs ---------------------------
(***************************************************************************)
(* What holds of the upstreams for any number of them and of narinfos: the *)
(* collection of a row leaves no narinfo dangling and deletes only what    *)
(* every upstream that stayed in rotation denied, and the fetch, without   *)
(* its liveness, implements Substitution.                                  *)
(***************************************************************************)
EXTENDS Upstream, FiniteSetTheorems, TLAPS

(* The steps of the model that leave a group of variables alone.           *)
LEMMA HealthLeaves == Health => UNCHANGED <<netVars, fetchVars, rowVars>>
  BY DEF Health, AddCaches, AddMonitored, Trigger, Tick, Check, CheckEnd, gcVars

LEMMA HealthKeepsGc == Health => UNCHANGED gc
  BY DEF Health, AddCaches, AddMonitored, Trigger, Tick, Check, CheckEnd, gcVars

LEMMA CollectLeaves == Collect => UNCHANGED <<netVars, healthVars, fetchVars>>
  BY DEF Collect, GcBegin, GcOrphan, GcNext, GcProbe, GcDelete

LEMMA FetchLeaves == Fetch => UNCHANGED <<netVars, healthVars, gcVars>>
  BY DEF Fetch, Begin, Select, Get, Retry, Store, Probe

-----------------------------------------------------------------------------
(* The rows.  A narinfo has a link, unless it was linked too late, and     *)
(* both ends of a link are there.  While a row that was read as unlinked   *)
(* is about to be deleted, only late narinfos link to it.                  *)
RowsInv ==
    /\ links \subseteq Hashes \X Files
    /\ \A l \in links : l[1] \in narinfos /\ l[2] \in files
    /\ gc = "orphan" => \A l \in links : l[2] = "stuck" => l[1] \in late
    /\ NoDangling

LEMMA RowsInit == Init => RowsInv
  <1> SUFFICES ASSUME Init PROVE RowsInv
    OBVIOUS
  <1>1. links \subseteq Hashes \X Files
    BY UpstreamAssumption DEF Init, Scene
  <1>2. \A l \in links : l[1] \in narinfos /\ l[2] \in files /\ l = <<l[1], l[2]>>
    BY <1>1 DEF Init
  <1>3. NoDangling
    BY <1>2 DEF Init, NoDangling
  <1> QED
    BY <1>1, <1>2, <1>3 DEF RowsInv, Init

LEMMA StoreKeepsRows ==
    ASSUME RowsInv, Store, want.hash \in Hashes
    PROVE  RowsInv'
  <1>1. links' \subseteq Hashes \X Files
    BY DEF Store, RowsInv, Files
  <1>2. \A l \in links' : l[1] \in narinfos' /\ l[2] \in files'
    BY DEF Store, RowsInv
  <1>3. NoDangling'
    BY DEF Store, RowsInv, NoDangling
  <1>4. gc' = "orphan" => \A l \in links' : l[2] = "stuck" => l[1] \in late'
    BY DEF Store, RowsInv, gcVars
  <1> QED
    BY <1>1, <1>2, <1>3, <1>4 DEF RowsInv

(* A row is about to be deleted without more ado only when nothing linked  *)
(* to it ...                                                               *)
LEMMA BeginKeepsRows ==
    ASSUME RowsInv, GcBegin
    PROVE  RowsInv'
  <1>1. UNCHANGED rowVars
    BY DEF GcBegin
  <1>2. \A l \in links : l = <<l[1], l[2]>> /\ l[1] \in narinfos
    BY DEF RowsInv
  <1>3. ASSUME gc' = "orphan" PROVE \A l \in links : l[2] # "stuck"
    BY <1>2, <1>3 DEF GcBegin
  <1> QED
    BY <1>1, <1>3 DEF RowsInv, NoDangling, rowVars

(* ... so the cascade takes the links of late narinfos alone.              *)
LEMMA OrphanKeepsRows ==
    ASSUME RowsInv, GcOrphan
    PROVE  RowsInv'
  <1>1. gc = "orphan" /\ gc' = "idle" /\ UNCHANGED narinfos
    BY DEF GcOrphan, GcEnd
  <1>2. CASE files' = files \ {"stuck"} /\ links' = {l \in links : l[2] # "stuck"} /\ UNCHANGED late
    <2>1. ASSUME NEW h \in narinfos \ late PROVE \E f \in files' : <<h, f>> \in links'
      <3>1. PICK f \in files : <<h, f>> \in links
        BY DEF RowsInv, NoDangling
      <3>2. f # "stuck"
        BY <1>1, <3>1 DEF RowsInv
      <3> QED
        BY <1>2, <3>1, <3>2
    <2> QED
      BY <1>1, <1>2, <2>1 DEF RowsInv, NoDangling
  <1>3. CASE late' = {h \in late : <<h, "stuck">> \notin links} /\ UNCHANGED <<files, links>>
    <2>1. ASSUME NEW h \in narinfos \ late' PROVE \E f \in files : <<h, f>> \in links
      BY <1>3 DEF RowsInv, NoDangling
    <2> QED
      BY <1>1, <1>3, <2>1 DEF RowsInv, NoDangling
  <1> QED
    BY <1>2, <1>3 DEF GcOrphan

(* The transaction deletes the row only when no link to it is left.        *)
LEMMA RowsKept ==
    ASSUME RowsInv, GcRows, late' = late \cap narinfos', gc' = "idle"
    PROVE  RowsInv'
  <1>1. links' \subseteq links
    BY DEF GcRows
  <1>2. \A l \in links' : l = <<l[1], l[2]>> /\ l[1] \in narinfos /\ l[2] \in files
    BY <1>1 DEF RowsInv
  <1>3. \A l \in links' : l[1] \in narinfos'
    BY <1>2 DEF GcRows
  <1>4. \A l \in links' : l[2] \in files'
    BY <1>2 DEF GcRows
  <1>5. ASSUME NEW h \in narinfos' \ late' PROVE \E f \in files' : <<h, f>> \in links'
    <2>1. h \in narinfos \ late
      BY DEF GcRows
    <2>2. CASE h \notin verify
      <3>1. PICK f \in files : <<h, f>> \in links
        BY <2>1 DEF RowsInv, NoDangling
      <3>2. <<h, f>> \in links'
        BY <2>2, <3>1 DEF GcRows
      <3> QED
        BY <1>4, <3>2
    <2>3. CASE \E l \in links' : l[1] = h
      <3>1. PICK l \in links' : l[1] = h
        BY <2>3
      <3> QED
        BY <1>2, <1>4, <3>1
    <2> QED
      BY <2>2, <2>3 DEF GcRows
  <1>6. NoDangling'
    BY <1>5 DEF NoDangling
  <1> QED
    BY <1>1, <1>3, <1>4, <1>6 DEF RowsInv

(* What a scene fixes for good.                                            *)
WantInv == want \in [kind : {"narinfo", "nar"}, hash : Hashes, pin : Upstreams \cup {None}]

LEMMA WantInit == Init => WantInv
  BY UpstreamAssumption DEF Init, WantInv, Scene

LEMMA WantStep == [Next]_vars => UNCHANGED want
  <1>1. Fetch \/ Cancel \/ UNCHANGED vars => UNCHANGED want
    BY DEF Fetch, Begin, Select, Get, Retry, Store, Probe, Cancel, vars, fetchVars
  <1>2. ASSUME NEW u \in Upstreams, NEW h \in Hashes, Fail(u) \/ Recover(u) \/ Publish(u, h)
        PROVE  UNCHANGED want
    BY <1>2 DEF Fail, Recover, Publish
  <1>3. ASSUME NEW u \in Upstreams, Fail(u) \/ Recover(u) PROVE UNCHANGED want
    BY <1>3 DEF Fail, Recover
  <1> QED
    BY <1>1, <1>2, <1>3, HealthLeaves, CollectLeaves DEF Next, fetchVars

LEMMA RowsStep ==
    ASSUME RowsInv, WantInv, [Next]_vars
    PROVE  RowsInv'
  <1>0. ASSUME UNCHANGED rowVars, gc' = gc \/ gc' # "orphan" PROVE RowsInv'
    BY <1>0 DEF rowVars, RowsInv, NoDangling
  <1>1. CASE Fetch
    BY <1>0, <1>1, StoreKeepsRows
       DEF WantInv, Fetch, Begin, Select, Get, Retry, Probe, gcVars
  <1>2. CASE Collect
    <2>1. CASE GcDelete
      <3>1. gc' = "idle" /\ late' = late \cap narinfos'
        BY <2>1 DEF GcDelete, GcEnd
      <3>2. CASE UNCHANGED <<narinfos, files, links>>
        BY <3>1, <3>2 DEF RowsInv, NoDangling
      <3> QED
        BY <2>1, <3>1, <3>2, RowsKept DEF GcDelete
    <2>2. CASE GcNext \/ GcProbe
      BY <1>0, <2>2 DEF GcNext, GcProbe, GcEnd
    <2> QED
      BY <1>2, <2>1, <2>2, BeginKeepsRows, OrphanKeepsRows DEF Collect
  <1>3. CASE Health \/ Cancel \/ UNCHANGED vars
    BY <1>0, <1>3, HealthLeaves, HealthKeepsGc DEF Cancel, vars, rowVars, gcVars
  <1>4. ASSUME NEW u \in Upstreams, Fail(u) \/ Recover(u) \/ \E h \in Hashes : Publish(u, h)
        PROVE  RowsInv'
    BY <1>0, <1>4 DEF Fail, Recover, Publish, gcVars
  <1> QED
    BY <1>1, <1>2, <1>3, <1>4 DEF Next

(* However a collection of a row interleaves with the store of a narinfo   *)
(* that links to the same row, and whatever the upstreams answer, no       *)
(* narinfo is ever left without a nar_files row but one that was linked    *)
(* between the query that read the row as unlinked and its deletion.       *)
THEOREM NeverDangling == Spec => []NoDangling
  <1> DEFINE Inv == RowsInv /\ WantInv
  <1>1. Init => Inv
    BY RowsInit, WantInit
  <1>2. Inv /\ [Next]_vars => Inv'
    BY RowsStep, WantStep DEF WantInv
  <1>3. Inv => NoDangling
    BY DEF RowsInv
  <1> QED
    BY <1>1, <1>2, <1>3, PTL DEF Spec

-----------------------------------------------------------------------------
(* The collection.  An upstream that is not shaky has been in rotation     *)
(* since the collection began, so it is among those every narinfo is asked *)
(* of; and what has been asked of it, it denied and denies still.          *)
InRotation == gc # "idle" => Upstreams \ shaky \subseteq caches \cap healthy

Denied ==
    gc # "idle" => \A h \in verify \ unverified, u \in Upstreams \ shaky :
                       has[u][h] = "none" \/ (h = asking /\ u \in ask)

GcInv ==
    /\ has \in [Upstreams -> [Hashes -> Holdings]]
    /\ caches \subseteq Upstreams
    /\ verify \subseteq Hashes
    /\ InRotation
    /\ Denied
    /\ gc = "delete" => unverified = {} /\ ask = {}

LEMMA GcInit == Init => GcInv
  BY UpstreamAssumption DEF Init, GcInv, InRotation, Denied, Scene

LEMMA GcEndKeeps ==
    ASSUME GcInv, GcEnd, UNCHANGED <<has, caches>>
    PROVE  GcInv'
  BY DEF GcInv, GcEnd, InRotation, Denied

LEMMA GcBeginKeeps ==
    ASSUME GcInv, RowsInv, GcBegin
    PROVE  GcInv'
  <1>1. UNCHANGED <<has, caches, healthy>> /\ shaky' = Upstreams \ (caches \cap healthy)
    BY DEF GcBegin, netVars, healthVars, getHealthyUpstreams
  <1>2. verify' = unverified' /\ gc' # "delete"
    BY DEF GcBegin
  <1>3. verify' \subseteq Hashes
    BY DEF GcBegin, RowsInv
  <1>4. InRotation' /\ Denied'
    BY <1>1, <1>2 DEF InRotation, Denied
  <1> QED
    BY <1>1, <1>2, <1>3, <1>4 DEF GcInv

LEMMA GcNextKeeps ==
    ASSUME GcInv, GcNext
    PROVE  GcInv'
  <1>1. UNCHANGED <<has, caches, healthy, shaky>> /\ gc # "idle" /\ ask = {}
    BY DEF GcNext, netVars, healthVars
  <1>2. CASE unverified = {} /\ gc' = "delete" /\ UNCHANGED <<verify, unverified, asking, ask>>
    BY <1>1, <1>2 DEF GcInv, InRotation, Denied
  <1>3. CASE /\ ask' = getHealthyUpstreams /\ asking' \in unverified
             /\ unverified' = unverified \ {asking'} /\ UNCHANGED <<gc, verify>>
    <2>1. InRotation'
      BY <1>1, <1>3 DEF GcInv, InRotation
    <2>2. \A u \in Upstreams \ shaky : u \in ask'
      BY <1>1, <1>3 DEF GcInv, InRotation, getHealthyUpstreams
    <2>3. Denied'
      BY <1>1, <1>3, <2>2 DEF GcInv, Denied
    <2>4. gc' # "delete"
      BY <1>3 DEF GcNext
    <2> QED
      BY <1>1, <1>3, <2>1, <2>3, <2>4 DEF GcInv
  <1>4. CASE GcEnd
    BY <1>1, <1>4, GcEndKeeps
  <1> QED
    BY <1>2, <1>3, <1>4 DEF GcNext

LEMMA GcProbeKeeps ==
    ASSUME GcInv, GcProbe
    PROVE  GcInv'
  <1>1. UNCHANGED <<has, caches, healthy, shaky>> /\ gc # "idle" /\ gc # "delete"
    BY DEF GcProbe, netVars, healthVars
  <1>2. CASE GcEnd
    BY <1>1, <1>2, GcEndKeeps
  <1>3. ASSUME NEW u \in ask, NarInfoExistence(u, asking) = "absent", ask' = ask \ {u},
               UNCHANGED <<gc, verify, unverified, asking>>
        PROVE  GcInv'
    <2>1. has[u][asking] = "none"
      BY <1>3 DEF NarInfoExistence
    <2>2. Denied'
      BY <1>1, <1>3, <2>1 DEF GcInv, Denied
    <2> QED
      BY <1>1, <1>3, <2>2 DEF GcInv, InRotation
  <1> QED
    BY <1>2, <1>3 DEF GcProbe

(* A failed check, and a change of content, make an upstream shaky.        *)
LEMMA CheckKeeps ==
    ASSUME GcInv, Check
    PROVE  GcInv'
  <1>1. UNCHANGED <<has, caches, gc, verify, unverified, asking, ask>>
    BY DEF Check, netVars
  <1>2. shaky \subseteq shaky' /\ \A u \in healthy \ healthy' : u \in shaky'
    BY DEF Check
  <1>3. InRotation'
    BY <1>1, <1>2 DEF GcInv, InRotation
  <1>4. Denied'
    BY <1>1, <1>2 DEF GcInv, Denied
  <1> QED
    BY <1>1, <1>3, <1>4 DEF GcInv

LEMMA PublishKeeps ==
    ASSUME GcInv, NEW u \in Upstreams, NEW h \in Hashes, Publish(u, h)
    PROVE  GcInv'
  <1>1. UNCHANGED <<caches, healthy, gc, verify, unverified, asking, ask>>
    BY DEF Publish, healthVars
  <1>2. shaky' = shaky \cup {u} /\ has' \in [Upstreams -> [Hashes -> Holdings]]
    BY DEF Publish, GcInv
  <1>3. \A w \in Upstreams \ {u} : has'[w] = has[w]
    BY DEF Publish, GcInv
  <1>4. Denied'
    BY <1>1, <1>2, <1>3 DEF GcInv, Denied
  <1> QED
    BY <1>1, <1>2, <1>4 DEF GcInv, InRotation

LEMMA GcStep ==
    ASSUME GcInv, RowsInv, [Next]_vars
    PROVE  GcInv'
  <1>0. ASSUME UNCHANGED <<has, caches, healthy, gcVars>> PROVE GcInv'
    BY <1>0 DEF gcVars, GcInv, InRotation, Denied
  <1>1. CASE Fetch
    BY <1>0, <1>1, FetchLeaves DEF netVars, healthVars
  <1>2. CASE Collect
    <2>1. CASE GcDelete
      BY <2>1, GcEndKeeps DEF GcDelete, netVars, healthVars
    <2>2. CASE GcOrphan
      BY <2>2, GcEndKeeps DEF GcOrphan, netVars, healthVars
    <2> QED
      BY <1>2, <2>1, <2>2, GcBeginKeeps, GcNextKeeps, GcProbeKeeps DEF Collect
  <1>3. CASE Health
    <2>1. CASE AddCaches
      <3>1. caches' = Upstreams /\ UNCHANGED <<has, healthy, gcVars>>
        BY <2>1 DEF AddCaches, netVars
      <3> QED
        BY <3>1 DEF gcVars, GcInv, InRotation, Denied
    <2>2. CASE AddMonitored \/ Trigger \/ Tick \/ CheckEnd
      BY <1>0, <2>2 DEF AddMonitored, Trigger, Tick, CheckEnd, netVars
    <2> QED
      BY <1>3, <2>1, <2>2, CheckKeeps DEF Health
  <1>4. CASE Cancel \/ UNCHANGED vars
    BY <1>0, <1>4 DEF Cancel, vars, netVars, healthVars
  <1>5. ASSUME NEW u \in Upstreams, Fail(u) \/ Recover(u) PROVE GcInv'
    BY <1>0, <1>5 DEF Fail, Recover, healthVars
  <1> QED
    BY <1>1, <1>2, <1>3, <1>4, <1>5, PublishKeeps DEF Next

(* Only the transaction of the collection deletes narinfos.                *)
LEMMA NarInfosStep ==
    ASSUME [Next]_vars, NEW h \in narinfos \ narinfos'
    PROVE  gc = "delete" /\ h \in verify
  <1>1. ASSUME Collect PROVE gc = "delete" /\ h \in verify
    BY <1>1 DEF Collect, GcBegin, GcOrphan, GcNext, GcProbe, GcDelete, GcRows, rowVars
  <1>2. ASSUME Fetch PROVE FALSE
    BY <1>2 DEF Fetch, Begin, Select, Get, Retry, Store, Probe, rowVars
  <1>3. ASSUME Health \/ Cancel \/ UNCHANGED vars PROVE FALSE
    BY <1>3, HealthLeaves DEF Cancel, vars, rowVars
  <1>4. ASSUME NEW u \in Upstreams, Fail(u) \/ Recover(u) \/ \E g \in Hashes : Publish(u, g)
        PROVE  FALSE
    BY <1>4 DEF Fail, Recover, Publish, rowVars
  <1> QED
    BY <1>1, <1>2, <1>3, <1>4 DEF Next

(* However upstreams fail, leave the rotation, come back and change while  *)
(* a collection runs, it never deletes a narinfo that an upstream which    *)
(* stayed in rotation and unchanged all that time has.                     *)
THEOREM CollectsAbsent == Spec => CollectsOnlyAbsent
  <1> DEFINE Inv == RowsInv /\ WantInv /\ GcInv
  <1>1. Init => Inv
    BY RowsInit, WantInit, GcInit
  <1>2. Inv /\ [Next]_vars => Inv'
    BY RowsStep, WantStep, GcStep DEF WantInv
  <1>3. Inv /\ [Next]_vars =>
            [\A h \in narinfos \ narinfos', u \in Upstreams \ shaky : has[u][h] = "none"]_vars
    BY NarInfosStep DEF GcInv, Denied
  <1> QED
    BY <1>1, <1>2, <1>3, PTL DEF Spec, CollectsOnlyAbsent

-----------------------------------------------------------------------------
(* The fetch.  First what holds of it however it is disturbed ...          *)
FetchInv ==
    /\ ucs \subseteq Upstreams /\ ch \in Seq(Upstreams)
    /\ answer = "none" => /\ ch = <<>> /\ errC = 0 /\ ~errs /\ ~cancelled
                          /\ \A u \in Upstreams : probe[u] # "run"
    /\ probe \in [Upstreams -> {"none", "run", "end"}]
    /\ \A u \in Upstreams : probe[u] = "run" => u \in ucs
    /\ answer = "asked" => stage \in {"select", "get"}
    /\ answer = "asked" /\ stage = "get" => chosen \in Upstreams

(* ... then of one that nothing disturbs: it considers every upstream that *)
(* could offer the object, all of them answer, none that was asked and has *)
(* it is missing from the channel, and the one chosen offers the object or *)
(* was the only one.                                                       *)
Considered ==
    /\ want.pin = None => ucs = Upstreams
    /\ want.pin # None => ucs = {want.pin} /\ Offers(want.pin) /\ stage = "get"
    /\ \A u \in ucs : net[u] = "ok" /\ (has[u][want.hash] = "none" \/ Offers(u))

Raced ==
    /\ \A i \in 1..Len(ch) : Offers(ch[i])
    /\ stage = "select" => \A u \in ucs : probe[u] = "end" /\ Offers(u) => ch # <<>>
    /\ stage = "get" => chosen \in ucs /\ (Offers(chosen) \/ ucs = {chosen})

FineInv ==
    fine /\ answer = "asked" => ~cancelled /\ ~errs /\ errC = 0 /\ Considered /\ Raced

LEMMA FetchInit == Init => FetchInv /\ FineInv
  BY DEF Init, FetchInv, FineInv

(* The selection takes the upstream without a race when it is the only one.*)
LEMMA OnlyOne ==
    ASSUME NEW S \in SUBSET Upstreams, Cardinality(S) = 1
    PROVE  S = {CHOOSE u \in S : TRUE} /\ (CHOOSE u \in S : TRUE) \in S
  <1>1. IsFiniteSet(S)
    BY UpstreamAssumption, FS_Subset
  <1>2. \E x : S = {x}
    BY <1>1, FS_Singleton
  <1> QED
    BY <1>2

LEMMA BeginFacts ==
    ASSUME WantInv, caches \subseteq Upstreams, Begin
    PROVE  /\ ucs' \subseteq Upstreams
           /\ stage' \in {"select", "get"}
           /\ stage' = "get" => chosen' \in ucs' /\ ucs' = {chosen'}
           /\ want.pin # None => ucs' = {want.pin} /\ stage' = "get"
           /\ want.pin = None => ucs' = getHealthyUpstreams
           /\ probe' \in [Upstreams -> {"none", "run"}]
           /\ \A u \in Upstreams : probe'[u] = "run" => u \in ucs'
  <1>1. ucs' \in SUBSET Upstreams
    BY DEF Begin, WantInv, getHealthyUpstreams
  <1>2. stage' = IF Cardinality(ucs') = 1 THEN "get" ELSE "select"
    BY DEF Begin
  <1>3. ASSUME Cardinality(ucs') = 1 PROVE chosen' \in ucs' /\ ucs' = {chosen'}
    <2>1. chosen' = CHOOSE u \in ucs' : TRUE
      BY <1>3 DEF Begin
    <2> QED
      BY <1>1, <1>3, <2>1, OnlyOne
  <1>4. ASSUME want.pin # None PROVE ucs' = {want.pin} /\ Cardinality(ucs') = 1
    <2>1. ucs' = {want.pin}
      BY <1>4 DEF Begin
    <2> QED
      BY <2>1, FS_Singleton
  <1>5. want.pin = None => ucs' = getHealthyUpstreams
    BY DEF Begin
  <1>6. /\ probe' \in [Upstreams -> {"none", "run"}]
        /\ \A u \in Upstreams : probe'[u] = "run" => u \in ucs'
    BY DEF Begin
  <1> QED
    BY <1>1, <1>2, <1>3, <1>4, <1>5, <1>6

LEMMA BeginFetch ==
    ASSUME FetchInv, WantInv, caches \subseteq Upstreams, Begin
    PROVE  FetchInv' /\ FineInv'
  <1>1. /\ UNCHANGED <<has, net, want, ch, errC, errs, cancelled>>
        /\ answer = "none" /\ fine' = Undisturbed
        /\ answer' = IF ucs' = {} THEN "absent" ELSE "asked"
    BY DEF Begin, netVars
  <1>2. /\ ch = <<>> /\ errC = 0 /\ ~errs /\ ~cancelled
    BY <1>1 DEF FetchInv
  <1>3. FetchInv'
    BY <1>1, <1>2, BeginFacts DEF FetchInv
  <1>4. ASSUME fine', answer' = "asked"
        PROVE  (~cancelled /\ ~errs /\ errC = 0 /\ Considered /\ Raced)'
    <2>1. CASE want.pin # None
      <3>1. net[want.pin] = "ok" /\ Offers(want.pin)
        BY <1>1, <1>4, <2>1 DEF Undisturbed
      <3>2. ucs' = {want.pin} /\ stage' = "get" /\ chosen' = want.pin
        BY <2>1, BeginFacts
      <3>3. Considered'
        BY <1>1, <2>1, <3>1, <3>2 DEF Considered, Offers
      <3>4. Raced'
        BY <1>1, <1>2, <3>1, <3>2 DEF Raced, Offers
      <3> QED
        BY <1>1, <1>2, <3>3, <3>4
    <2>2. CASE want.pin = None
      <3>1. \A u \in Upstreams : /\ u \in getHealthyUpstreams /\ net[u] = "ok"
                                 /\ has[u][want.hash] = "none" \/ Offers(u)
        BY <1>1, <1>4, <2>2 DEF Undisturbed
      <3>2. ucs' = Upstreams
        BY <2>2, <3>1, BeginFacts
      <3>3. Considered'
        BY <1>1, <2>2, <3>1, <3>2 DEF Considered, Offers
      <3>4. \A u \in Upstreams : probe'[u] # "end"
        BY BeginFacts
      <3>5. Raced'
        BY <1>1, <1>2, <3>2, <3>4, BeginFacts DEF Raced
      <3> QED
        BY <1>1, <1>2, <3>3, <3>5
    <2> QED
      BY <2>1, <2>2
  <1> QED
    BY <1>3, <1>4 DEF FineInv

(* A goroutine of the race ends; while nothing disturbs the fetch it ends  *)
(* with an answer, and a yes is in the channel.                            *)
LEMMA ProbeFetch ==
    ASSUME FetchInv, FineInv, NEW u \in Upstreams, Probe(u)
    PROVE  FetchInv' /\ FineInv'
  <1>1. /\ probe[u] = "run" /\ u \in ucs /\ answer # "none"
        /\ UNCHANGED <<has, net, want, answer, stage, ucs, errs, chosen, cancelled, fine>>
    BY DEF Probe, Retry, FetchInv, netVars
  <1>2. \/ UNCHANGED <<probe, ch, errC>>
        \/ probe' = [probe EXCEPT ![u] = "end"]
    BY DEF Probe, Retry
  <1>3. ch' \in Seq(Upstreams)
    BY DEF Probe, Retry, FetchInv
  <1>4. FetchInv'
    BY <1>1, <1>2, <1>3 DEF FetchInv
  <1>5. ASSUME fine', answer' = "asked"
        PROVE  (~cancelled /\ ~errs /\ errC = 0 /\ Considered /\ Raced)'
    <2>1. ~cancelled /\ ~errs /\ errC = 0 /\ Considered /\ Raced
      BY <1>1, <1>5 DEF FineInv
    <2>2. net[u] = "ok" /\ (has[u][want.hash] = "none" \/ Offers(u))
      BY <1>1, <2>1 DEF Considered
    <2>3. HeadAnswer(u) = IF has[u][want.hash] = "none" THEN "no" ELSE "yes"
      BY <2>2 DEF HeadAnswer
    <2>4. errC' = 0 /\ Considered'
      BY <1>1, <2>1, <2>3 DEF Probe, Retry, Considered, Offers
    <2>5. \/ UNCHANGED ch
          \/ ch' = Append(ch, u) /\ Offers(u)
      BY <2>2, <2>3 DEF Probe, Retry
    <2>6. \A i \in 1..Len(ch') : Offers(ch'[i])
      BY <1>3, <2>1, <2>5 DEF Raced, FetchInv
    <2>7. ASSUME stage = "select", NEW v \in ucs, probe'[v] = "end", Offers(v) PROVE ch' # <<>>
      <3>1. ch # <<>> => ch' # <<>>
        BY <2>5 DEF FetchInv
      <3>2. CASE v # u \/ UNCHANGED probe
        BY <1>2, <2>1, <2>7, <3>1, <3>2 DEF Raced, FetchInv
      <3>3. CASE v = u /\ probe' = [probe EXCEPT ![u] = "end"]
        <4>1. HeadAnswer(u) = "yes"
          BY <2>3, <2>7, <3>3 DEF Offers
        <4>2. ch' = Append(ch, u)
          <5>1. ~Over
            BY <1>1, <1>5, <2>1, <2>7 DEF Over
          <5>2. probe' # probe
            BY <1>1, <3>3 DEF FetchInv
          <5> QED
            BY <4>1, <5>1, <5>2 DEF Probe, Retry
        <4> QED
          BY <4>2 DEF FetchInv
      <3> QED
        BY <1>2, <3>2, <3>3
    <2>8. Raced'
      BY <1>1, <2>1, <2>6, <2>7 DEF Raced, Offers
    <2> QED
      BY <1>1, <2>1, <2>4, <2>8
  <1> QED
    BY <1>4, <1>5 DEF FineInv

LEMMA SelectFetch ==
    ASSUME FetchInv, FineInv, Select
    PROVE  FetchInv' /\ FineInv'
  <1>1. /\ UNCHANGED <<has, net, want, ucs, probe, ch, cancelled, fine>>
        /\ answer = "asked" /\ stage = "select"
    BY DEF Select, Selecting, netVars
  <1>2. ASSUME ch # <<>> PROVE Head(ch) = ch[1] /\ Head(ch) \in Upstreams /\ 1 \in 1..Len(ch)
    BY <1>2 DEF FetchInv
  <1>3. FetchInv'
    BY <1>1, <1>2 DEF Select, FetchInv
  <1>4. ASSUME fine', answer' = "asked"
        PROVE  (~cancelled /\ ~errs /\ errC = 0 /\ Considered /\ Raced)'
    <2>1. ~cancelled /\ ~errs /\ errC = 0 /\ Considered /\ Raced
      BY <1>1, <1>4 DEF FineInv
    <2>2. /\ ch # <<>> /\ chosen' = Head(ch) /\ stage' = "get" /\ UNCHANGED <<errC, errs>>
      BY <1>4, <2>1 DEF Select
    <2>3. want.pin = None /\ ucs = Upstreams
      BY <1>1, <2>1 DEF Considered
    <2>4. Offers(chosen') /\ chosen' \in ucs
      BY <1>2, <2>1, <2>2, <2>3 DEF Raced
    <2>5. Considered'
      BY <1>1, <2>1, <2>2 DEF Considered, Offers
    <2>6. Raced'
      BY <1>1, <2>1, <2>2, <2>4 DEF Raced, Offers
    <2> QED
      BY <1>1, <2>1, <2>2, <2>5, <2>6
  <1> QED
    BY <1>3, <1>4 DEF FineInv

LEMMA FetchStep ==
    ASSUME FetchInv, FineInv, WantInv, caches \subseteq Upstreams, [Next]_vars
    PROVE  FetchInv' /\ FineInv'
  <1>0. ASSUME UNCHANGED <<has, net, want, answer, stage, ucs, probe, ch, errC, errs, chosen,
                           cancelled, fine>>
        PROVE  FetchInv' /\ FineInv'
    BY <1>0 DEF FetchInv, FineInv, Considered, Raced, Offers
  <1>1. ASSUME UNCHANGED <<stage, ucs, probe, ch, errC, errs, chosen, cancelled>>,
               answer' \notin {"none", "asked"}
        PROVE  FetchInv' /\ FineInv'
    BY <1>1 DEF FetchInv, FineInv
  <1>2. ASSUME UNCHANGED <<answer, stage, ucs, probe, ch, errC, errs, chosen>>, ~fine',
               UNCHANGED cancelled \/ answer = "asked"
        PROVE  FetchInv' /\ FineInv'
    BY <1>2 DEF FetchInv, FineInv
  <1>3. CASE Get
    <2>1. CASE Retry(chosen, None)
      BY <1>0, <2>1 DEF Retry, netVars
    <2>2. CASE ~Retry(chosen, None)
      <3>1. answer' \in {"found", "absent", "error"}
        BY <1>3, <2>2 DEF Get, GetNar, getNarInfoFromUpstream
      <3>2. UNCHANGED <<stage, ucs, probe, ch, errC, errs, chosen, cancelled>>
        BY <1>3, <2>2 DEF Get
      <3> QED
        BY <1>1, <3>1, <3>2
    <2> QED
      BY <2>1, <2>2
  <1>4. CASE Store
    BY <1>1, <1>4 DEF Store
  <1>5. CASE Cancel
    BY <1>2, <1>5 DEF Cancel
  <1>6. ASSUME NEW u \in Upstreams, Fail(u) \/ Recover(u) \/ \E h \in Hashes : Publish(u, h)
        PROVE  FetchInv' /\ FineInv'
    BY <1>2, <1>6 DEF Fail, Recover, Publish
  <1>7. CASE Health \/ Collect \/ UNCHANGED vars
    BY <1>0, <1>7, HealthLeaves, CollectLeaves DEF vars, netVars, fetchVars
  <1> QED
    BY <1>3, <1>4, <1>5, <1>6, <1>7, BeginFetch, SelectFetch, ProbeFetch DEF Next, Fetch

(* The steps of the fetch, as steps of Substitution.                       *)
LEMMA SameOffers ==
    ASSUME UNCHANGED <<has, want>>
    PROVE  Offering' = Offering
  BY DEF Offering, Offers

LEMMA SubStutters ==
    ASSUME UNCHANGED <<has, want, answer, fine>>
    PROVE  UNCHANGED Sub!vars
  BY SameOffers DEF Sub!vars, Answered

LEMMA SubTrouble ==
    ASSUME ~fine', fine' \in BOOLEAN, UNCHANGED answer
    PROVE  Sub!Next
  BY DEF Sub!Next, Sub!Trouble, Answered, Offering

LEMMA SubAsks ==
    ASSUME FetchInv, WantInv, caches \subseteq Upstreams, Begin
    PROVE  Sub!Next
  <1>1. /\ UNCHANGED <<has, want>> /\ answer = "none" /\ fine' = Undisturbed
        /\ answer' = IF ucs' = {} THEN "absent" ELSE "asked"
    BY DEF Begin, netVars
  <1>2. Answered = "none" /\ Answered' = answer' /\ Answered' \in {"asked", "absent"}
    BY <1>1 DEF Answered
  <1>3. fine' \in BOOLEAN
    BY <1>1, Zenon DEF Undisturbed
  <1>4. ASSUME ucs' = {}, Undisturbed PROVE Offering = {}
    <2>1. want.pin = None /\ getHealthyUpstreams = {}
      BY <1>4, BeginFacts
    <2>2. Upstreams = {}
      BY <1>4, <2>1 DEF Undisturbed
    <2> QED
      BY <2>2 DEF Offering
  <1>5. (Answered' = "absent" /\ fine') => Offering = {}
    BY <1>1, <1>2, <1>4
  <1> QED
    BY <1>1, <1>2, <1>3, <1>5, SameOffers DEF Sub!Next, Sub!Ask

LEMMA SubMisses ==
    ASSUME answer = "asked", answer' \in {"absent", "error"}, fine => Offering = {},
           UNCHANGED <<has, want, fine>>
    PROVE  Sub!Next
  BY SameOffers DEF Sub!Next, Sub!Miss, Answered

(* The race gives up on a fetch that nothing disturbed only when every     *)
(* upstream was asked and none offers the object.                          *)
LEMMA SubSelects ==
    ASSUME FetchInv, FineInv, Select
    PROVE  [Sub!Next]_Sub!vars
  <1>1. UNCHANGED <<has, want, fine>> /\ answer = "asked" /\ stage = "select"
    BY DEF Select, Selecting, netVars
  <1>2. CASE UNCHANGED answer
    BY <1>1, <1>2, SubStutters
  <1>3. CASE answer' # answer
    <2>1. answer' \in {"absent", "error"}
      BY <1>3 DEF Select
    <2>2. ASSUME fine PROVE Offering = {}
      <3>1. ~cancelled /\ ~errs /\ Considered /\ Raced
        BY <1>1, <2>2 DEF FineInv
      <3>2. Closed
        BY <1>3, <3>1 DEF Select
      <3>3. ucs = Upstreams
        BY <1>1, <3>1 DEF Considered
      <3> QED
        BY <1>1, <3>1, <3>2, <3>3 DEF Closed, Raced, Offering
    <2> QED
      BY <1>1, <2>1, <2>2, SubMisses
  <1> QED
    BY <1>2, <1>3

(* The request to the chosen upstream finds the object there, or nothing   *)
(* undisturbed was to be found.                                            *)
LEMMA SubGets ==
    ASSUME FetchInv, FineInv, WantInv, Get
    PROVE  [Sub!Next]_Sub!vars
  <1>1. UNCHANGED <<has, want, fine>> /\ answer = "asked" /\ stage = "get"
    BY DEF Get, Retry, netVars
  <1>2. chosen \in Upstreams
    BY <1>1 DEF FetchInv
  <1>3. CASE UNCHANGED answer
    BY <1>1, <1>3, SubStutters
  <1>4. CASE answer' = "found"
    <2>1. Offers(chosen)
      BY <1>4 DEF Get, Retry, GetNar, getNarInfoFromUpstream
    <2>2. Offering # {}
      BY <1>2, <2>1 DEF Offering
    <2> QED
      BY <1>1, <1>4, <2>2, SameOffers DEF Sub!Next, Sub!Found, Answered
  <1>5. CASE answer' # answer /\ answer' # "found"
    <2>1. answer' \in {"absent", "error"}
      BY <1>5 DEF Get, Retry, GetNar, getNarInfoFromUpstream
    <2>2. ASSUME fine PROVE Offering = {}
      <3>1. ~cancelled /\ Considered /\ Raced
        BY <1>1, <2>2 DEF FineInv
      <3>2. chosen \in ucs /\ net[chosen] = "ok"
        BY <1>1, <3>1 DEF Considered, Raced
      <3>3. ~Offers(chosen)
        BY <1>5, <3>1, <3>2 DEF Get, Retry, GetNar, getNarInfoFromUpstream
      <3>4. ucs = {chosen} /\ ucs = Upstreams
        BY <1>1, <3>1, <3>2, <3>3 DEF Considered, Raced
      <3> QED
        BY <3>3, <3>4 DEF Offering
    <2> QED
      BY <1>1, <2>1, <2>2, SubMisses
  <1> QED
    BY <1>3, <1>4, <1>5

LEMMA SubStep ==
    ASSUME FetchInv, FineInv, WantInv, caches \subseteq Upstreams, [Next]_vars
    PROVE  [Sub!Next]_Sub!vars
  <1>1. CASE Begin \/ Select \/ Get
    BY <1>1, SubAsks, SubSelects, SubGets
  <1>2. CASE Store
    <2>1. UNCHANGED <<has, want, fine>> /\ answer = "found" /\ answer' = "stored"
      BY <1>2 DEF Store, netVars
    <2> QED
      BY <2>1, SameOffers DEF Sub!vars, Answered
  <1>3. ASSUME NEW u \in Upstreams, Probe(u) PROVE [Sub!Next]_Sub!vars
    BY <1>3, SubStutters DEF Probe, Retry, netVars
  <1>4. CASE Cancel
    BY <1>4, SubTrouble DEF Cancel
  <1>5. ASSUME NEW u \in Upstreams, Fail(u) \/ Recover(u) \/ \E h \in Hashes : Publish(u, h)
        PROVE  [Sub!Next]_Sub!vars
    BY <1>5, SubTrouble DEF Fail, Recover, Publish
  <1>6. CASE Health \/ Collect \/ UNCHANGED vars
    BY <1>6, HealthLeaves, CollectLeaves, SubStutters DEF vars, netVars, fetchVars
  <1> QED
    BY <1>1, <1>2, <1>3, <1>4, <1>5, <1>6 DEF Next, Fetch

(* For any number of upstreams, however they fail and change and whatever  *)
(* the health checker does meanwhile, the race, the requests and their     *)
(* retries implement the safety part of Substitution: nothing is answered  *)
(* that no upstream offers, and a fetch that nothing disturbed never       *)
(* misses what one of them offers.                                         *)
THEOREM ImplementsSubstitution == Spec => Sub!Safety
  <1> DEFINE Inv == RowsInv /\ WantInv /\ GcInv /\ FetchInv /\ FineInv
  <1>1. Init => Inv /\ Sub!Init
    <2>1. Init => Sub!Init
      BY DEF Init, Sub!Init, Offering, Answered
    <2> QED
      BY <2>1, RowsInit, WantInit, GcInit, FetchInit
  <1>2. Inv /\ [Next]_vars => Inv' /\ [Sub!Next]_Sub!vars
    <2> SUFFICES ASSUME Inv, [Next]_vars PROVE Inv' /\ [Sub!Next]_Sub!vars
      OBVIOUS
    <2>1. caches \subseteq Upstreams
      BY DEF GcInv
    <2>2. RowsInv' /\ WantInv' /\ GcInv'
      BY RowsStep, WantStep, GcStep DEF WantInv
    <2> QED
      BY <2>1, <2>2, FetchStep, SubStep
  <1> QED
    BY <1>1, <1>2, PTL DEF Spec, Sub!Safety
=============================================================================
