------------------------------- MODULE RWLock -------------------------------
(***************************************************************************)
(* The distributed read-write lock, pkg/lock/redis/rwlocker.go: a writer   *)
(* key with a token and a TTL, and a hash of readers with an expiry each,  *)
(* for one lock key.  A Redis read and the commands decided on what it     *)
(* returned are separate steps.  A failed command may or may not have been *)
(* executed.  The circuit breaker in front is the subject of RedisLock.    *)
(*                                                                         *)
(* A client is a goroutine inside withReadLock, withWriteLock or           *)
(* withTryLock; Home is its process, which has one RWLocker. Names that    *)
(* RedisLock also has carry a prefix here (WLock is the RWLocker's Lock),  *)
(* so that LockProofs can speak of both locks.                             *)
(***************************************************************************)
EXTENDS Lockers

CONSTANT
    RWModes         \* configurations and circumstances the lockers may run in

(* lapse: a TTL may run out under its live holder; fail: a Redis command   *)
(* may fail; crash: a process may die; attempts: retryConfig.MaxAttempts.  *)
ASSUME RWModeAssumption ==
    RWModes \subseteq [lapse : BOOLEAN, fail : BOOLEAN, crash : BOOLEAN, attempts : Nat \ {0}]

VARIABLES
    rwmode,     \* the mode of this behaviour
    writer,     \* the writer key: the client whose token it holds
    readers,    \* the readers hash: the entry of each instance's readerID
    tokens,     \* writeLockTokens of each instance
    rwpc,       \* where a client is
    attempt,    \* the retry counter of Lock
    snap,       \* the HGetAll a writer looks at
    ahead       \* history: the readers inside since before the writer key was set

rwvars == <<rwmode, writer, readers, tokens, rwpc, attempt, snap, ahead>>

RWMayLapse == rwmode.lapse
MayFail == rwmode.fail
RWMayCrash == rwmode.crash
MaxAttempts == rwmode.attempts

Entry == {"none", "active", "expired"}
NoReaders == [i \in Instances |-> "none"]
Writing == {"store", "scan", "look", "tryScan", "tryLook", "writing"}
RWWhere == Writing \cup {"idle", "wait", "add", "reading", "set", "dead"}

(* Every variable stays within its type.                                   *)
RWTypeOK ==
    /\ rwmode \in RWModes
    /\ writer \in Owner
    /\ readers \in [Instances -> Entry]
    /\ tokens \in [Instances -> Owner]
    /\ rwpc \in [Clients -> RWWhere]
    /\ attempt \in [Clients -> 0..MaxAttempts - 1]
    /\ snap \in [Clients -> [Instances -> Entry]]
    /\ ahead \subseteq Clients

RWInit ==
    /\ rwmode \in RWModes
    /\ writer = Nobody /\ readers = NoReaders
    /\ tokens = [i \in Instances |-> Nobody]
    /\ rwpc = [c \in Clients |-> "idle"]
    /\ attempt = [c \in Clients |-> 0]
    /\ snap = [c \in Clients |-> NoReaders]
    /\ ahead = {}

RWGo(c, from, to) == rwpc[c] = from /\ rwpc' = [rwpc EXCEPT ![c] = to]

(* unlockScript: delete the key if it still holds the token.  Its failure  *)
(* is ignored: the key is left to its TTL.                                 *)
UnlockScript(token) ==
    \/ writer' = IF writer = token THEN Nobody ELSE writer
    \/ MayFail /\ UNCHANGED writer

-----------------------------------------------------------------------------
(* Readers.                                                                *)

RLock(c) ==
    /\ RWGo(c, "idle", "wait")
    /\ UNCHANGED <<writer, readers, tokens, attempt, snap, ahead>>

(* Exists(writerKey), until it is gone or the deadline has passed.         *)
RWait(c) ==
    /\ \/ writer = Nobody /\ RWGo(c, "wait", "add")
       \/ writer # Nobody /\ RWGo(c, "wait", "idle")
       \/ MayFail /\ RWGo(c, "wait", "idle")
    /\ UNCHANGED <<writer, readers, tokens, attempt, snap, ahead>>

(* HSet(readersKey, readerID, expiry).                                     *)
RAdd(c) ==
    /\ \/ RWGo(c, "add", "reading") /\ readers' = [readers EXCEPT ![Home[c]] = "active"]
       \/ /\ MayFail /\ RWGo(c, "add", "idle")
          /\ readers' \in {readers, [readers EXCEPT ![Home[c]] = "active"]}
    /\ UNCHANGED <<writer, tokens, attempt, snap, ahead>>

(* HDel of the entry of this instance, which its readers share.            *)
RUnlock(c) ==
    /\ RWGo(c, "reading", "idle")
    /\ \/ readers' = [readers EXCEPT ![Home[c]] = "none"]
       \/ MayFail /\ UNCHANGED readers
    /\ ahead' = {d \in ahead : Home[d] # Home[c]}
    /\ UNCHANGED <<writer, tokens, attempt, snap>>

-----------------------------------------------------------------------------
(* Writers.                                                                *)

WLock(c) ==
    /\ RWGo(c, "idle", "set")
    /\ UNCHANGED <<writer, readers, tokens, attempt, snap, ahead>>

(* Lock returns: its loop variables are gone.                              *)
Return(c, from, to) == RWGo(c, from, to) /\ attempt' = [attempt EXCEPT ![c] = 0]

(* The next attempt; the error after the last one, or when the caller is   *)
(* gone during the backoff.                                                *)
Again(c, from) ==
    \/ attempt[c] + 1 < MaxAttempts
       /\ RWGo(c, from, "set") /\ attempt' = [attempt EXCEPT ![c] = @ + 1]
    \/ Return(c, from, "idle")

(* The readers inside that have an entry.                                  *)
Listed == {d \in Clients : rwpc[d] = "reading" /\ readers[Home[d]] = "active"}

(* Mutant: SET instead of SETNX.                                           *)
SetPlain(c) ==
    /\ writer' = c
    /\ ahead' = Listed

(* SetNX(writerKey, token, ttl).                                           *)
SetNX(c) ==
    /\ writer = Nobody
    /\ writer' = c
    /\ ahead' = Listed

Acquire(c) ==
    /\ \/ RWGo(c, "set", "store") /\ SetNX(c) /\ UNCHANGED attempt
       \/ (writer # Nobody \/ MayFail) /\ Again(c, "set") /\ UNCHANGED <<writer, ahead>>
       \/ MayFail /\ SetNX(c) /\ Again(c, "set")
    /\ UNCHANGED <<readers, tokens, snap>>

WStore(c) ==
    /\ RWGo(c, "store", "scan")
    /\ tokens' = [tokens EXCEPT ![Home[c]] = c]
    /\ UNCHANGED <<writer, readers, attempt, snap, ahead>>

(* HGetAll(readersKey); its failure gives the key back and is retried.     *)
Scan(c) ==
    /\ \/ /\ RWGo(c, "scan", "look")
          /\ snap' = [snap EXCEPT ![c] = readers]
          /\ UNCHANGED <<writer, tokens, attempt>>
       \/ /\ MayFail /\ Again(c, "scan")
          /\ UnlockScript(c) /\ tokens' = [tokens EXCEPT ![Home[c]] = Nobody]
          /\ UNCHANGED snap
    /\ UNCHANGED <<readers, ahead>>

(* HDel of the entries that had expired when they were read; the failure   *)
(* of one is ignored.                                                      *)
Purge(c) ==
    /\ \E gone \in SUBSET {i \in Instances : snap[c][i] = "expired"} :
        /\ MayFail \/ gone = {i \in Instances : snap[c][i] = "expired"}
        /\ readers' = [i \in Instances |-> IF i \in gone THEN "none" ELSE readers[i]]
    /\ snap' = [snap EXCEPT ![c] = NoReaders]

NoneActive(c) == \A i \in Instances : snap[c][i] # "active"

(* Mutant: the readers found are not waited for.                           *)
LookOnce(c) ==
    /\ Purge(c)
    /\ Return(c, "look", "writing")
    /\ UNCHANGED <<writer, tokens, ahead>>

(* Mutant: no deadline while readers are active.                           *)
LookForever(c) ==
    /\ Purge(c)
    /\ \/ NoneActive(c) /\ Return(c, "look", "writing")
       \/ ~NoneActive(c) /\ RWGo(c, "look", "scan") /\ UNCHANGED attempt
    /\ UNCHANGED <<writer, tokens, ahead>>

(* Nobody reads: the lock is held.  Otherwise look again, or give the key  *)
(* back at the deadline (retry) or when the caller is gone.                *)
Look(c) ==
    /\ Purge(c)
    /\ \/ /\ NoneActive(c) /\ Return(c, "look", "writing")
          /\ UNCHANGED <<writer, tokens>>
       \/ /\ ~NoneActive(c) /\ RWGo(c, "look", "scan")
          /\ UNCHANGED <<writer, tokens, attempt>>
       \/ /\ ~NoneActive(c) /\ Again(c, "look")
          /\ UnlockScript(c) /\ tokens' = [tokens EXCEPT ![Home[c]] = Nobody]
       \/ /\ ~NoneActive(c) /\ Return(c, "look", "idle")
          /\ UnlockScript(c) /\ tokens' = [tokens EXCEPT ![Home[c]] = Nobody]
    /\ UNCHANGED ahead

(* Mutant: DEL without looking at the token.                               *)
UnlockBlind(c) ==
    /\ RWGo(c, "writing", "idle")
    /\ writer' = Nobody
    /\ tokens' = [tokens EXCEPT ![Home[c]] = Nobody]
    /\ UNCHANGED <<readers, attempt, snap, ahead>>

(* LoadAndDelete of the instance's token, then unlockScript with it.       *)
WUnlock(c) ==
    /\ RWGo(c, "writing", "idle")
    /\ tokens' = [tokens EXCEPT ![Home[c]] = Nobody]
    /\ IF tokens[Home[c]] = Nobody THEN UNCHANGED writer
                                   ELSE UnlockScript(tokens[Home[c]])
    /\ UNCHANGED <<readers, attempt, snap, ahead>>

(* TryLock: one SetNX, one look; the token is stored at the end.           *)
WTryLock(c) ==
    /\ SetNX(c)
    /\ RWGo(c, "idle", "tryScan") \/ (MayFail /\ UNCHANGED rwpc /\ rwpc[c] = "idle")
    /\ UNCHANGED <<readers, tokens, attempt, snap>>

TryScan(c) ==
    /\ \/ RWGo(c, "tryScan", "tryLook") /\ snap' = [snap EXCEPT ![c] = readers]
          /\ UNCHANGED writer
       \/ MayFail /\ RWGo(c, "tryScan", "idle") /\ UnlockScript(c) /\ UNCHANGED snap
    /\ UNCHANGED <<readers, tokens, attempt, ahead>>

TryLook(c) ==
    /\ Purge(c)
    /\ \/ /\ NoneActive(c) /\ RWGo(c, "tryLook", "writing")
          /\ tokens' = [tokens EXCEPT ![Home[c]] = c] /\ UNCHANGED writer
       \/ /\ ~NoneActive(c) /\ RWGo(c, "tryLook", "idle")
          /\ UnlockScript(c) /\ UNCHANGED tokens
    /\ UNCHANGED <<attempt, ahead>>

-----------------------------------------------------------------------------
(* TTLs, and the death of a process.                                       *)

Dead(i) == \A c \in Clients : Home[c] = i => rwpc[c] = "dead"

ExpireWriter ==
    /\ writer # Nobody /\ (RWMayLapse \/ rwpc[writer] \notin Writing)
    /\ writer' = Nobody
    /\ UNCHANGED <<readers, tokens, rwpc, attempt, snap, ahead>>

ExpireReader(i) ==
    /\ readers[i] = "active"
    /\ RWMayLapse \/ \A c \in Clients : Home[c] = i => rwpc[c] # "reading"
    /\ readers' = [readers EXCEPT ![i] = "expired"]
    /\ UNCHANGED <<writer, tokens, rwpc, attempt, snap, ahead>>

RWCrash(i) ==
    /\ RWMayCrash /\ ~Dead(i)
    /\ rwpc' = [c \in Clients |-> IF Home[c] = i THEN "dead" ELSE rwpc[c]]
    /\ tokens' = [tokens EXCEPT ![i] = Nobody]
    /\ ahead' = {d \in ahead : Home[d] # i}
    /\ UNCHANGED <<writer, readers, attempt, snap>>

RWBegin(c) == RLock(c) \/ WLock(c) \/ WTryLock(c)

RWStep(c) == RWait(c) \/ RAdd(c) \/ Acquire(c) \/ WStore(c) \/ Scan(c) \/ Look(c)
           \/ TryScan(c) \/ TryLook(c)

Finish(c) == RUnlock(c) \/ WUnlock(c)

RWNext ==
    /\ \/ \E c \in Clients : RWBegin(c) \/ RWStep(c) \/ Finish(c)
       \/ ExpireWriter
       \/ \E i \in Instances : ExpireReader(i) \/ RWCrash(i)
    /\ UNCHANGED rwmode

RWSpec == RWInit /\ [][RWNext]_rwvars

(* A call in progress goes on and its deadline passes.  Callers need not   *)
(* ever release what they hold.                                            *)
RWFairSpec ==
    /\ RWSpec
    /\ \A c \in Clients :
        /\ WF_rwvars(RWStep(c) /\ UNCHANGED rwmode)
        /\ SF_rwvars(Look(c) /\ rwpc'[c] # "scan" /\ UNCHANGED rwmode)

-----------------------------------------------------------------------------
(* While no TTL runs out under its holder, at most one client writes       *)
(* (Lock, TryLock, Unlock).                                                *)
WritersExclude ==
    ~RWMayLapse => \A c, d \in Clients : rwpc[c] = "writing" /\ rwpc[d] = "writing" => c = d

(* While no TTL runs out under its holder, a writer has waited for every   *)
(* reader that was inside and listed when it set its key and whose entry   *)
(* no other reader of its process has removed (Lock's loop over HGetAll).  *)
WaitsForReaders ==
    ~RWMayLapse => \A c \in Clients : rwpc[c] = "writing" => ahead = {}

(* The writer key of an instance is never removed by a call of another     *)
(* one, even after a lapse: Unlock deletes only its own token.             *)
NoForeignUnlock ==
    [][\A c \in Clients :
         writer = c /\ writer' # c
            => rwpc' = rwpc \/ \E d \in Clients : Home[d] = Home[c] /\ rwpc'[d] # rwpc[d]]_rwvars

(* Every call returns although other callers hold the lock for ever.       *)
CallsReturn ==
    \A c \in Clients : (rwpc[c] \notin {"idle", "reading", "writing", "dead"})
                           ~> (rwpc[c] \in {"idle", "reading", "writing", "dead"})

(* Writers have exclusive access: nobody reads while a client writes       *)
(* (RLock against Lock). Not so in the code: RLock looks for the writer    *)
(* and adds itself in two commands (README, section 3).                    *)
ReadersExcludeWriter ==
    ~\E c, d \in Clients : rwpc[c] = "writing" /\ rwpc[d] = "reading"
=============================================================================
