------------------------------ MODULE Upstream ------------------------------
(* The upstream caches of an instance: the health checker, the race that   *)
(* selects the upstream of a fetch, the requests with their retries, and   *)
(* the garbage collection of a nar_files row without bytes, which asks the *)
(* upstreams whether the NAR is gone.                                      *)
(*                                                                         *)
(* One fetch, one collection of one row ("stuck") and the checker run      *)
(* beside each other while upstreams fail, come back and change content.   *)
EXTENDS Naturals, Sequences, FiniteSets

CONSTANTS
    Upstreams,
    Hashes,         \* narinfo hashes; their narinfos name the same NAR
    Order,          \* the upstreams in the order of the configuration
    Retries,        \* defaultHTTPRetries
    Scenes          \* the rows and the upstreams' holdings at first, what is
                    \* fetched or collected, and how often an upstream may
                    \* fail or change content

None == "none"
Faults == {"refused", "reset", "timeout", "busy"}
Holdings == {"none", "good", "bad"}
Files == {"stuck", "other"}

Scene == [has : [Upstreams -> [Hashes -> Holdings]],
          want : [kind : {"narinfo", "nar"}, hash : Hashes, pin : Upstreams \cup {None}],
          fetch : BOOLEAN, collect : BOOLEAN, trouble : Nat,
          links : SUBSET (Hashes \X Files)]

ASSUME UpstreamAssumption ==
    /\ Retries \in Nat \ {0}
    /\ IsFiniteSet(Upstreams) /\ None \notin Upstreams
    /\ Order \in Seq(Upstreams) /\ {Order[i] : i \in DOMAIN Order} = Upstreams
    /\ Scenes \subseteq Scene

VARIABLES
    scene,
    has,            \* what each upstream holds; "bad" fails the narinfo checks
    net,            \* how each upstream answers at present
    trouble,        \* failures and changes so far
    caches,         \* Cache.upstreamCaches
    monitored,      \* HealthChecker.upstreams, in the order they were added
    healthy,        \* the upstreams whose isHealthy is set
    boot,           \* serve's progress: the upstreams added, the check triggered
    todo,           \* upstreams the running health check has still to ask
    checking,       \* "no", or what started the running check
    want,           \* the fetch
    answer,         \* its outcome
    stage,          \* "select" or "get" while it is asked
    ucs,            \* the upstreams it considers
    probe,          \* the goroutines of selectUpstream
    tries,          \* attempts of the request of each goroutine, None: the GET
    ch,             \* channel of upstreams that have the object
    errC,           \* errors sent and not received
    errs,           \* an error was received
    chosen,         \* the upstream selected
    cancelled,      \* the caller went away
    fine,           \* nothing has gone wrong since the fetch began
    narinfos,       \* narinfos rows
    files,          \* nar_files rows
    links,          \* narinfo_nar_files rows
    late,           \* narinfos linked to the row after it was read as unlinked
                    \* and before it is deleted (history)
    gc,             \* collection: "idle", "orphan", "probe", "delete"
    verify,         \* narinfos it read
    unverified,     \* those still to be verified
    asking,         \* the one the upstreams are asked about
    ask,            \* upstreams still to ask
    shaky           \* upstreams out of rotation or changed since it began

netVars == <<has, net, trouble, scene>>
healthVars == <<caches, monitored, healthy, boot, todo, checking>>
fetchVars == <<want, answer, stage, ucs, probe, tries, ch, errC, errs, chosen,
               cancelled, fine>>
rowVars == <<narinfos, files, links, late>>
gcVars == <<gc, verify, unverified, asking, ask, shaky>>
vars == <<netVars, healthVars, fetchVars, rowVars, gcVars>>

TypeOK ==
    /\ has \in [Upstreams -> [Hashes -> Holdings]]
    /\ net \in [Upstreams -> Faults \cup {"ok"}]
    /\ trouble \in 0 .. scene.trouble /\ scene \in Scenes
    /\ caches \subseteq Upstreams /\ healthy \subseteq Upstreams
    /\ monitored \in Seq(Upstreams) /\ todo \in Seq(Upstreams)
    /\ boot \in {"start", "added", "watched", "trigger", "up"}
    /\ checking \in {"no", "tick", "trigger"}
    /\ want = scene.want
    /\ answer \in {"none", "asked", "found", "absent", "error", "stored"}
    /\ stage \in {"none", "select", "get"}
    /\ ucs \subseteq Upstreams /\ chosen \in Upstreams \cup {None}
    /\ probe \in [Upstreams -> {"none", "run", "end"}]
    /\ tries \in [Upstreams \cup {None} -> 0 .. Retries]
    /\ ch \in Seq(Upstreams) /\ errC \in 0 .. Cardinality(Upstreams)
    /\ errs \in BOOLEAN /\ cancelled \in BOOLEAN /\ fine \in BOOLEAN
    /\ narinfos \subseteq Hashes /\ files \subseteq Files
    /\ links \subseteq narinfos \X files
    /\ late \subseteq narinfos
    /\ gc \in {"idle", "orphan", "probe", "delete"}
    /\ verify \subseteq Hashes /\ unverified \subseteq verify
    /\ asking \in Hashes \cup {None}
    /\ ask \subseteq Upstreams /\ shaky \subseteq Upstreams

-----------------------------------------------------------------------------
(* The upstreams themselves.                                               *)

(* An upstream starts to fail, or changes what it holds: this disturbs the *)
(* fetch, and a change also the collection.                                *)
Fail(u) ==
    /\ trouble < scene.trouble /\ net[u] = "ok"
    /\ \E f \in Faults : net' = [net EXCEPT ![u] = f]
    /\ trouble' = trouble + 1 /\ fine' = FALSE
    /\ UNCHANGED <<scene, has, healthVars, want, answer, stage, ucs, probe, tries, ch,
                   errC, errs, chosen, cancelled, rowVars, gcVars>>

Recover(u) ==
    /\ net[u] # "ok"
    /\ net' = [net EXCEPT ![u] = "ok"] /\ fine' = FALSE
    /\ UNCHANGED <<scene, has, trouble, healthVars, want, answer, stage, ucs, probe,
                   tries, ch, errC, errs, chosen, cancelled, rowVars, gcVars>>

Publish(u, h) ==
    /\ trouble < scene.trouble
    /\ \E v \in Holdings \ {has[u][h]} : has' = [has EXCEPT ![u][h] = v]
    /\ trouble' = trouble + 1 /\ fine' = FALSE /\ shaky' = shaky \cup {u}
    /\ UNCHANGED <<scene, net, healthVars, want, answer, stage, ucs, probe, tries, ch,
                   errC, errs, chosen, cancelled, rowVars, gc, verify,
                   unverified, asking, ask>>

-----------------------------------------------------------------------------
(* Start-up and the health checker.                                        *)

(* AddUpstreamCaches: first the list of the cache ...                      *)
AddCaches ==
    /\ boot = "start" /\ boot' = "added"
    /\ caches' = Upstreams
    /\ UNCHANGED <<netVars, monitored, healthy, todo, checking, fetchVars,
                   rowVars, gcVars>>

(* ... then, under another mutex, that of the checker.                     *)
AddMonitored ==
    /\ boot = "added" /\ boot' = "watched"
    /\ monitored' = Order
    /\ UNCHANGED <<netVars, caches, healthy, todo, checking, fetchVars, rowVars,
                   gcVars>>

(* Trigger hands a channel to the checker, when it is not in a check.      *)
Trigger ==
    /\ boot = "watched" /\ checking = "no"
    /\ boot' = "trigger" /\ checking' = "trigger" /\ todo' = monitored
    /\ UNCHANGED <<netVars, caches, monitored, healthy, fetchVars, rowVars,
                   gcVars>>

Tick ==
    /\ checking = "no"
    /\ checking' = "tick" /\ todo' = monitored
    /\ UNCHANGED <<netVars, caches, monitored, healthy, boot, fetchVars, rowVars,
                   gcVars>>

(* Mutant: the check ends at the first upstream that fails.                *)
CheckStops ==
    /\ checking # "no" /\ todo # <<>>
    /\ LET u == Head(todo) IN
       /\ healthy' = IF net[u] = "ok" THEN healthy \cup {u} ELSE healthy \ {u}
       /\ shaky' = IF net[u] = "ok" THEN shaky ELSE shaky \cup {u}
       /\ todo' = IF net[u] = "ok" THEN Tail(todo) ELSE <<>>
    /\ UNCHANGED <<netVars, caches, monitored, boot, checking, fetchVars, rowVars,
                   gc, verify, unverified, asking, ask>>

(* The upstreams are asked for their nix-cache-info one after the other,   *)
(* without a retry. One that fails is out of rotation at once.             *)
Check ==
    /\ checking # "no" /\ todo # <<>>
    /\ LET u == Head(todo) IN
       /\ healthy' = IF net[u] = "ok" THEN healthy \cup {u} ELSE healthy \ {u}
       /\ shaky' = IF net[u] = "ok" THEN shaky ELSE shaky \cup {u}
    /\ todo' = Tail(todo)
    /\ UNCHANGED <<netVars, caches, monitored, boot, checking, fetchVars, rowVars,
                   gc, verify, unverified, asking, ask>>

CheckEnd ==
    /\ checking # "no" /\ todo = <<>>
    /\ boot' = IF checking = "trigger" THEN "up" ELSE boot
    /\ checking' = "no"
    /\ UNCHANGED <<netVars, caches, monitored, healthy, todo, fetchVars, rowVars,
                   gcVars>>

Health == AddCaches \/ AddMonitored \/ Trigger \/ Tick \/ Check \/ CheckEnd

getHealthyUpstreams == caches \cap healthy

-----------------------------------------------------------------------------
(* The fetch.                                                              *)

(* The wanted object is there, and passes the checks of a narinfo.         *)
Offers(u) == has[u][want.hash] = "good"
             \/ (want.kind = "nar" /\ has[u][want.hash] = "bad")

(* Every upstream the fetch could use is in rotation and answers, and none *)
(* holds a narinfo that will be refused.                                   *)
Undisturbed ==
    IF want.pin # None THEN net[want.pin] = "ok" /\ Offers(want.pin)
    ELSE \A u \in Upstreams :
            /\ u \in getHealthyUpstreams /\ net[u] = "ok"
            /\ has[u][want.hash] = "none" \/ Offers(u)

(* getNarFromUpstream and getNarInfoFromUpstream: a single upstream is     *)
(* taken without being asked first; with several, all are asked at once.   *)
Begin ==
    /\ answer = "none" /\ scene.fetch
    /\ ucs' = IF want.pin # None THEN {want.pin} ELSE getHealthyUpstreams
    /\ answer' = IF ucs' = {} THEN "absent" ELSE "asked"
    /\ stage' = IF Cardinality(ucs') = 1 THEN "get" ELSE "select"
    /\ chosen' = IF Cardinality(ucs') = 1 THEN CHOOSE u \in ucs' : TRUE ELSE None
    /\ probe' = [u \in Upstreams |->
                    IF u \in ucs' /\ Cardinality(ucs') > 1 THEN "run" ELSE "none"]
    /\ fine' = Undisturbed
    /\ UNCHANGED <<netVars, healthVars, want, tries, ch, errC, errs, cancelled,
                   rowVars, gcVars>>

Cancel ==
    /\ answer = "asked" /\ ~cancelled
    /\ cancelled' = TRUE /\ fine' = FALSE
    /\ UNCHANGED <<netVars, healthVars, want, answer, stage, ucs, probe, tries,
                   ch, errC, errs, chosen, rowVars, gcVars>>

(* doRequest: a transient transport error is tried again, with a pause,    *)
(* up to Retries times in all.                                             *)
Again(u, r) == net[u] = "reset" /\ tries[r] + 1 < Retries

(* HasNarInfo and HasNar: a timeout, and any status above 400, is a no.    *)
HeadAnswer(u) ==
    CASE net[u] = "ok" -> IF has[u][want.hash] = "none" THEN "no" ELSE "yes"
      [] net[u] \in {"busy", "timeout"} -> "no"
      [] OTHER -> "err"

(* The context of the probes ends with the fetch, or with the caller.      *)
Over == cancelled \/ stage # "select" \/ answer # "asked"

Retry(u, r) ==
    /\ Again(u, r)
    /\ tries' = [tries EXCEPT ![r] = @ + 1]
    /\ UNCHANGED <<netVars, healthVars, want, answer, stage, ucs, probe, ch, errC,
                   errs, chosen, cancelled, fine, rowVars, gcVars>>

Probe(u) ==
    /\ probe[u] = "run"
    /\ \/ ~Over /\ Retry(u, u)
       \/ /\ ~Again(u, u)
          /\ probe' = [probe EXCEPT ![u] = "end"]
          /\ ch' = IF HeadAnswer(u) = "yes" THEN Append(ch, u) ELSE ch
          /\ errC' = IF HeadAnswer(u) = "err" THEN errC + 1 ELSE errC
          /\ UNCHANGED <<netVars, healthVars, want, answer, stage, ucs, tries,
                         errs, chosen, cancelled, fine, rowVars, gcVars>>
       \/ /\ Over
          /\ probe' = [probe EXCEPT ![u] = "end"]
          /\ UNCHANGED <<netVars, healthVars, want, answer, stage, ucs, tries, ch,
                         errC, errs, chosen, cancelled, fine, rowVars, gcVars>>

Selecting == answer = "asked" /\ stage = "select"

(* Mutant: the channel is closed without waiting for the goroutines.       *)
ClosedEarly == ch = <<>>

(* The channel is closed once every goroutine is done.                     *)
Closed == ch = <<>> /\ \A u \in ucs : probe[u] = "end"

(* selectUpstream's select: any of the channels that are ready. An error   *)
(* received before the first upstream is returned together with it, and    *)
(* its caller gives up; a pending error may lose to the closed channel.    *)
Select ==
    /\ Selecting
    /\ \/ /\ cancelled
          /\ answer' = "error" /\ UNCHANGED <<stage, chosen, errC, errs>>
       \/ /\ ch # <<>>
          /\ chosen' = Head(ch)
          /\ IF errs THEN answer' = "error" /\ UNCHANGED stage
             ELSE stage' = "get" /\ UNCHANGED answer
          /\ UNCHANGED <<errC, errs>>
       \/ /\ Closed
          /\ answer' = IF errs THEN "error" ELSE "absent"
          /\ UNCHANGED <<stage, chosen, errC, errs>>
       \/ /\ errC > 0
          /\ errC' = errC - 1 /\ errs' = TRUE
          /\ UNCHANGED <<stage, chosen, answer>>
    /\ UNCHANGED <<netVars, healthVars, want, ucs, probe, tries, ch, cancelled,
                   fine, rowVars, gcVars>>

(* GetNar of the chosen upstream, and getNarInfoFromUpstream: a narinfo    *)
(* that cannot be had for any reason is reported as not found.             *)
GetNar(u) ==
    IF net[u] # "ok" THEN "error" ELSE IF Offers(u) THEN "found" ELSE "absent"
getNarInfoFromUpstream(u) == IF GetNar(u) = "found" THEN "found" ELSE "absent"

Get ==
    /\ answer = "asked" /\ stage = "get"
    /\ \/ ~cancelled /\ Retry(chosen, None)
       \/ /\ \/ /\ ~Again(chosen, None)
                /\ answer' = IF want.kind = "narinfo" THEN getNarInfoFromUpstream(chosen)
                             ELSE GetNar(chosen)
             \/ /\ cancelled
                /\ answer' = IF want.kind = "narinfo" THEN "absent" ELSE "error"
          /\ UNCHANGED <<netVars, healthVars, want, stage, ucs, probe, tries, ch,
                         errC, errs, chosen, cancelled, fine, rowVars, gcVars>>

(* The narinfo that was found is stored and linked to its nar_files row,   *)
(* which is created again when it is gone.                                 *)
Store ==
    /\ answer = "found" /\ want.kind = "narinfo"
    /\ answer' = "stored"
    /\ narinfos' = narinfos \cup {want.hash}
    /\ files' = files \cup {"stuck"}
    /\ links' = links \cup {<<want.hash, "stuck">>}
    /\ late' = IF gc = "orphan" THEN late \cup {want.hash} ELSE late
    /\ UNCHANGED <<netVars, healthVars, want, stage, ucs, probe, tries, ch, errC,
                   errs, chosen, cancelled, fine, gcVars>>

-----------------------------------------------------------------------------
(* gcOrSkipBackingLessNarFile.                                             *)

(* The linked narinfos are read. A query that fails changes nothing.       *)
GcBegin ==
    /\ gc = "idle" /\ "stuck" \in files /\ scene.collect
    /\ verify' = {h \in narinfos : <<h, "stuck">> \in links}
    /\ unverified' = verify'
    /\ gc' = IF verify' = {} THEN "orphan" ELSE "probe"
    /\ ask' = {} /\ asking' = None /\ shaky' = Upstreams \ getHealthyUpstreams
    /\ UNCHANGED <<netVars, healthVars, fetchVars, rowVars>>

GcEnd == /\ gc' = "idle" /\ verify' = {} /\ unverified' = {}
         /\ asking' = None /\ ask' = {}

(* A row that was read without a narinfo is deleted by a statement of its  *)
(* own, without another look, and its links go with it by the cascade. The *)
(* statement may fail: the next sweep tries again.                         *)
GcOrphan ==
    /\ gc = "orphan" /\ GcEnd
    /\ \/ /\ files' = files \ {"stuck"}
          /\ links' = {l \in links : l[2] # "stuck"} /\ UNCHANGED late
       \/ /\ late' = {h \in late : <<h, "stuck">> \notin links}
          /\ UNCHANGED <<files, links>>
    /\ UNCHANGED <<netVars, healthVars, fetchVars, narinfos, shaky>>

(* narInfoGenuinelyAbsentUpstream takes the upstreams in rotation anew for *)
(* every narinfo; with none, nothing is known.                             *)
GcNext ==
    /\ gc = "probe" /\ ask = {}
    /\ \/ /\ unverified = {} /\ gc' = "delete"
          /\ UNCHANGED <<verify, unverified, asking, ask>>
       \/ /\ unverified # {} /\ getHealthyUpstreams # {}
          /\ ask' = getHealthyUpstreams
          /\ asking' \in unverified /\ unverified' = unverified \ {asking'}
          /\ UNCHANGED <<gc, verify>>
       \/ /\ unverified # {} /\ getHealthyUpstreams = {} /\ GcEnd
    /\ UNCHANGED <<netVars, healthVars, fetchVars, rowVars, shaky>>

(* Mutant: a probe that times out counts as a no, as HasNarInfo has it.    *)
ExistenceTimeout(u, h) ==
    IF net[u] \in {"timeout", "busy"} THEN "absent"
    ELSE IF net[u] # "ok" THEN "unknown"
    ELSE IF has[u][h] = "none" THEN "absent" ELSE "present"

(* NarInfoExistence: only a 404 is an absence.                             *)
NarInfoExistence(u, h) ==
    IF net[u] # "ok" THEN "unknown"
    ELSE IF has[u][h] = "none" THEN "absent" ELSE "present"

(* One upstream is asked about one narinfo. Anything but a definite        *)
(* absence ends the collection.                                            *)
GcProbe ==
    /\ gc = "probe"
    /\ \E u \in ask :
          \/ /\ NarInfoExistence(u, asking) = "absent"
             /\ ask' = ask \ {u}
             /\ UNCHANGED <<gc, verify, unverified, asking>>
          \/ NarInfoExistence(u, asking) # "absent" /\ GcEnd
    /\ UNCHANGED <<netVars, healthVars, fetchVars, rowVars, shaky>>

(* Mutant: the row goes with whatever links to it.                         *)
GcRowsAll ==
    /\ links' = {l \in links : l[2] # "stuck"}
    /\ narinfos' = {h \in narinfos : h \notin verify \/ \E l \in links' : l[1] = h}
    /\ files' = files \ {"stuck"}

(* gcDeleteAbsentNarInfosAndMaybeNarFile, one transaction: the links of    *)
(* the verified narinfos, those of them without another link, and the row  *)
(* if nobody linked to it meanwhile.                                       *)
GcRows ==
    /\ links' = {l \in links : ~(l[1] \in verify /\ l[2] = "stuck")}
    /\ narinfos' = {h \in narinfos : h \notin verify \/ \E l \in links' : l[1] = h}
    /\ files' = IF \E l \in links' : l[2] = "stuck" THEN files ELSE files \ {"stuck"}

(* The transaction may fail: the next sweep tries again.                   *)
GcDelete ==
    /\ gc = "delete" /\ (GcRows \/ UNCHANGED <<narinfos, files, links>>) /\ GcEnd
    /\ late' = late \cap narinfos'
    /\ UNCHANGED <<netVars, healthVars, fetchVars, shaky>>

Collect == GcBegin \/ GcOrphan \/ GcNext \/ GcProbe \/ GcDelete

-----------------------------------------------------------------------------
Init ==
    /\ scene \in Scenes /\ has = scene.has /\ want = scene.want
    /\ net = [u \in Upstreams |-> "ok"] /\ trouble = 0
    /\ caches = {} /\ monitored = <<>> /\ healthy = {} /\ boot = "start"
    /\ todo = <<>> /\ checking = "tick"
    /\ answer = "none" /\ stage = "none" /\ ucs = {}
    /\ probe = [u \in Upstreams |-> "none"]
    /\ tries = [r \in Upstreams \cup {None} |-> 0]
    /\ ch = <<>> /\ errC = 0 /\ errs = FALSE /\ chosen = None
    /\ cancelled = FALSE /\ fine = FALSE
    /\ links = scene.links /\ narinfos = {l[1] : l \in links} /\ files = Files
    /\ late = {}
    /\ gc = "idle" /\ verify = {} /\ unverified = {}
    /\ asking = None /\ ask = {} /\ shaky = {}

Fetch == Begin \/ Select \/ Get \/ Store \/ \E u \in Upstreams : Probe(u)

Next ==
    \/ Health \/ Fetch \/ Collect \/ Cancel
    \/ \E u \in Upstreams : Fail(u) \/ Recover(u)
    \/ \E u \in Upstreams, h \in Hashes : Publish(u, h)

Spec == Init /\ [][Next]_vars

(* Every request ends in an answer or a timeout of the HTTP client; the    *)
(* checker's ticker goes on. Upstreams, callers and sweeps owe nothing.    *)
FairSpec ==
    /\ Spec
    /\ WF_vars(AddCaches \/ AddMonitored) /\ SF_vars(Trigger)
    /\ WF_vars(Tick) /\ WF_vars(Check \/ CheckEnd)
    /\ WF_vars(Select) /\ WF_vars(Get)
    /\ \A u \in Upstreams : WF_vars(Probe(u))

-----------------------------------------------------------------------------
(* What is checked.                                                        *)

(* The selection, the requests and their retries implement Substitution:   *)
(* nothing is answered that no upstream offers, a fetch that nothing       *)
(* disturbs finds what is there, and every fetch is answered.              *)
Offering == {u \in Upstreams : Offers(u)}
Answered == IF answer = "stored" THEN "found" ELSE answer
Sub == INSTANCE Substitution WITH offers <- Offering, answer <- Answered
Promise == Sub!Spec

(* No collection leaves a narinfo without a nar_files row it had, whatever *)
(* is linked while the upstreams are asked and whether the deletion fails. *)
(* The exception is a narinfo that is linked in the moment between the     *)
(* query that found a row unlinked and the deletion of that row.           *)
NoDangling == \A h \in narinfos \ late : \E f \in files : <<h, f>> \in links

(* A narinfo is collected only if every upstream that stayed in rotation   *)
(* and unchanged while the collection ran does not have it: requests that  *)
(* fail or time out never count as an absence.                             *)
CollectsOnlyAbsent ==
    [][\A h \in narinfos \ narinfos', u \in Upstreams \ shaky :
           has[u][h] = "none"]_vars

(* An upstream that answers again is back in rotation for good, whatever   *)
(* the others do, once the checker knows it.                               *)
Rejoins ==
    \A u \in Upstreams : <>[](net[u] = "ok") => <>[](u \in getHealthyUpstreams)
=============================================================================
