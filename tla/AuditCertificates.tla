------------------------- MODULE AuditCertificates -------------------------
(***************************************************************************)
(* internal/controller/auditcert and the certificate watcher of            *)
(* persephone-audit-webhook: the leader renews CA, server and client       *)
(* certificate in one Secret; every replica copies that to its disk, file  *)
(* by file; a watcher loads the server certificate from there and a        *)
(* callback the pool of CAs that client certificates are verified with.    *)
(*                                                                         *)
(* A generation of certificates is a number.  The ca.crt of generation gen *)
(* holds its own CA and the one it replaced (prev).                        *)
(***************************************************************************)
EXTENDS Integers, Sequences

CONSTANTS
    Replicas,
    MaxGeneration,     \* bound: generations ever made
    MaxLost,           \* bound: calls that take effect although their caller sees an error
    MaxDeletions       \* bound: deletions of the Secret by an administrator

ASSUME CertificatesAssumption ==
    MaxGeneration \in Nat \ {0} /\ MaxLost \in Nat /\ MaxDeletions \in Nat

VARIABLES
    secret,   \* the Secret in the API server: [gen, prev]
    made,     \* generations made so far
    aged,     \* the generations whose CA is past its half-life
    losses, deletions,
    roots,    \* the generations made when there was no Secret
    skipped,  \* generations that a rotation replaced without bundling their CA
    cache,    \* each replica's informer copy of the Secret
    leader,   \* the replica whose reconciler runs
    rotator,  \* [pc, the copy it has read, it is called again at once]
    state,    \* each replica: "down", "creating", "loading" or "running"
    writer,   \* each replica's reloader: [at : file in Order, data]
    files,    \* each replica's directory
    written,  \* the generation a reloader wrote last (lastResourceVersion)
    serving,  \* the generation of the server certificate in memory
    notify,   \* the watcher's callback has yet to run
    pool,     \* the CAs in memory
    client    \* the generation of the audit forwarder's client certificate

faultVars == <<losses, deletions, skipped>>
secretVars == <<secret, made, aged, roots, faultVars>>
diskVars == <<writer, files, written>>
memoryVars == <<serving, notify, pool>>
vars == <<secretVars, cache, leader, rotator, state, diskVars, memoryVars, client>>

Generation == 0..MaxGeneration
Copy == [gen : Generation, prev : Generation]
Empty == [gen |-> 0, prev |-> 0]   \* also no Secret, and a truncated file
Bundle(copy) == {copy.gen, copy.prev} \ {0}

\* The order of writeCertificatesToDisk, and a mutant of it.
OrderCertificateFirst == <<"crt", "key", "ca">>
Order == <<"ca", "crt", "key">>

TypeOK ==
    /\ secret \in Copy /\ made \in Generation /\ aged \subseteq Generation
    /\ losses \in 0..MaxLost /\ deletions \in 0..MaxDeletions
    /\ roots \subseteq Generation /\ skipped \subseteq Generation
    /\ cache \in [Replicas -> Copy] /\ leader \in Replicas
    /\ rotator \in [pc : {"idle", "create", "patch"}, base : Copy, again : BOOLEAN]
    /\ state \in [Replicas -> {"down", "creating", "loading", "running"}]
    /\ writer \in [Replicas -> [at : 0..3, data : Copy]]
    /\ files \in [Replicas -> [{"ca", "crt", "key"} -> Copy]]
    /\ written \in [Replicas -> Generation]
    /\ serving \in [Replicas -> Generation] /\ notify \in [Replicas -> BOOLEAN]
    /\ pool \in [Replicas -> Copy] /\ client \in Generation

IdleRotator == [pc |-> "idle", base |-> Empty, again |-> FALSE]
IdleWriter == [at |-> 0, data |-> Empty]
NoFiles == [f \in {"ca", "crt", "key"} |-> Empty]

Init ==
    /\ secret = Empty /\ made = 0 /\ aged = {}
    /\ losses = 0 /\ deletions = 0 /\ roots = {} /\ skipped = {}
    /\ cache = [r \in Replicas |-> Empty] /\ leader \in Replicas
    /\ rotator = IdleRotator
    /\ state = [r \in Replicas |-> "down"]
    /\ writer = [r \in Replicas |-> IdleWriter] /\ files = [r \in Replicas |-> NoFiles]
    /\ written = [r \in Replicas |-> 0] /\ serving = written
    /\ notify = [r \in Replicas |-> FALSE] /\ pool = cache
    /\ client = 0

Running(r) == state[r] = "running"

-----------------------------------------------------------------------------
(* Start of a replica (AddToManager of auditcert).                         *)

CheckSecret(r) ==
    /\ state[r] = "down"
    /\ state' = [state EXCEPT ![r] = IF secret = Empty THEN "creating" ELSE "loading"]
    /\ UNCHANGED <<secretVars, cache, leader, rotator, diskVars, memoryVars, client>>

\* generateAndCreateSecret
MakeFirst ==
    /\ secret = Empty /\ made < MaxGeneration
    /\ made' = made + 1 /\ secret' = [gen |-> made', prev |-> 0]
    /\ roots' = roots \cup {made'}
    /\ UNCHANGED <<aged, deletions, skipped>>

\* The process ends if another replica has been faster.
CreateSecret(r) ==
    /\ state[r] = "creating"
    /\ \/ MakeFirst /\ state' = [state EXCEPT ![r] = "loading"] /\ UNCHANGED losses
       \/ /\ secret # Empty
          /\ state' = [state EXCEPT ![r] = "down"] /\ UNCHANGED secretVars
    /\ UNCHANGED <<cache, leader, rotator, diskVars, memoryVars, client>>

\* The first load reads from the API server, before anything is served.
LoadInitially(r) ==
    /\ state[r] = "loading" /\ secret # Empty
    /\ state' = [state EXCEPT ![r] = "running"]
    /\ cache' = [cache EXCEPT ![r] = secret]
    /\ files' = [files EXCEPT ![r] = [f \in DOMAIN NoFiles |-> secret]]
    /\ written' = [written EXCEPT ![r] = secret.gen]
    /\ serving' = [serving EXCEPT ![r] = secret.gen]
    /\ pool' = [pool EXCEPT ![r] = secret]
    /\ UNCHANGED <<secretVars, leader, rotator, writer, notify, client>>

FailToLoad(r) ==
    /\ state[r] = "loading" /\ secret = Empty
    /\ state' = [state EXCEPT ![r] = "down"]
    /\ UNCHANGED <<secretVars, cache, leader, rotator, diskVars, memoryVars, client>>

\* What the files hold is of no account: the first load overwrites them.
Crash(r) ==
    /\ Running(r)
    /\ state' = [state EXCEPT ![r] = "down"]
    /\ rotator' = IF r = leader THEN IdleRotator ELSE rotator
    /\ cache' = [cache EXCEPT ![r] = Empty] /\ pool' = [pool EXCEPT ![r] = Empty]
    /\ writer' = [writer EXCEPT ![r] = IdleWriter] /\ files' = [files EXCEPT ![r] = NoFiles]
    /\ written' = [written EXCEPT ![r] = 0] /\ serving' = [serving EXCEPT ![r] = 0]
    /\ notify' = [notify EXCEPT ![r] = FALSE]
    /\ UNCHANGED <<secretVars, leader, client>>

\* A change of the leader takes seconds, which is long against the lag of a
\* cache: it only interrupts the rotation.
ChangeLeader(r) ==
    /\ Running(r) /\ r # leader
    /\ leader' = r
    /\ rotator' = IdleRotator
    /\ UNCHANGED <<secretVars, cache, state, diskVars, memoryVars, client>>

-----------------------------------------------------------------------------
(* reconciler                                                              *)

SyncCache(r) ==
    /\ Running(r) /\ cache[r] # secret
    /\ cache' = [cache EXCEPT ![r] = secret]
    /\ UNCHANGED <<secretVars, leader, rotator, state, diskVars, memoryVars, client>>

NeedsRotation(copy) == copy.gen \in aged

\* Reconcile runs every 5 min, which is long against the lag of a cache, and
\* after an error at once.
Reconcile ==
    /\ Running(leader) /\ rotator.pc = "idle"
    /\ rotator.again \/ cache[leader] = secret
    /\ rotator' = IF cache[leader] = Empty THEN [IdleRotator EXCEPT !.pc = "create"]
                  ELSE IF NeedsRotation(cache[leader])
                  THEN [pc |-> "patch", base |-> cache[leader], again |-> FALSE]
                  ELSE IdleRotator
    /\ UNCHANGED <<secretVars, cache, leader, state, diskVars, memoryVars, client>>

CountLoss(lost) ==
    /\ lost => losses < MaxLost
    /\ losses' = IF lost THEN losses + 1 ELSE losses

CreateAgain(lost) ==
    /\ rotator.pc = "create" /\ MakeFirst /\ CountLoss(lost)
    /\ rotator' = [IdleRotator EXCEPT !.again = lost]
    /\ UNCHANGED <<cache, leader, state, diskVars, memoryVars, client>>

\* Mutant of Rotated: the previous CA is not bundled.
RotatedWithoutPrevious(base) == [gen |-> made + 1, prev |-> 0]

\* generateAndUpdateSecret: new certificates, bundled with the first CA of the
\* copy it was called with.
Rotated(base) == [gen |-> made + 1, prev |-> base.gen]

\* A merge patch overwrites whatever generation is there.
Patch(lost) ==
    /\ secret # Empty /\ made < MaxGeneration
    /\ secret' = Rotated(rotator.base) /\ made' = made + 1
    /\ skipped' = skipped \cup ({secret.gen} \ {rotator.base.gen})
    /\ CountLoss(lost) /\ UNCHANGED <<aged, roots, deletions>>

\* Mutant of PatchSecret: it asks to be called again at once, on success too.
PatchSecretAgain(lost) ==
    /\ rotator.pc = "patch" /\ Patch(lost)
    /\ rotator' = [IdleRotator EXCEPT !.again = TRUE]
    /\ UNCHANGED <<cache, leader, state, diskVars, memoryVars, client>>

PatchSecret(lost) ==
    /\ rotator.pc = "patch" /\ Patch(lost)
    /\ rotator' = [IdleRotator EXCEPT !.again = lost]
    /\ UNCHANGED <<cache, leader, state, diskVars, memoryVars, client>>

\* Also what finds no Secret to patch, or one where none should be.
FailCall ==
    /\ rotator.pc # "idle"
    /\ rotator' = [IdleRotator EXCEPT !.again = TRUE]
    /\ UNCHANGED <<secretVars, cache, leader, state, diskVars, memoryVars, client>>

DeleteSecret ==
    /\ secret # Empty /\ made < MaxGeneration /\ deletions < MaxDeletions
    /\ secret' = Empty /\ deletions' = deletions + 1
    /\ UNCHANGED <<made, aged, losses, roots, skipped, cache, leader, rotator, state, diskVars,
                   memoryVars, client>>

-----------------------------------------------------------------------------
(* reloader, watcher and callback of a replica                             *)

\* Mutant of Reload: the version is remembered before the files are written.
ReloadRemembersFirst(r) ==
    /\ Running(r) /\ writer[r].at = 0
    /\ cache[r] # Empty /\ cache[r].gen # written[r]
    /\ writer' = [writer EXCEPT ![r] = [at |-> 1, data |-> cache[r]]]
    /\ written' = [written EXCEPT ![r] = cache[r].gen]
    /\ UNCHANGED <<secretVars, cache, leader, rotator, state, files, memoryVars, client>>

\* The resourceVersion also changes with an edit of metadata, which nothing here makes.
Reload(r) ==
    /\ Running(r) /\ writer[r].at = 0
    /\ cache[r] # Empty /\ cache[r].gen # written[r]
    /\ writer' = [writer EXCEPT ![r] = [at |-> 1, data |-> cache[r]]]
    /\ UNCHANGED <<secretVars, cache, leader, rotator, state, files, written, memoryVars, client>>

\* os.WriteFile truncates the file, then it writes.  Of tls.crt and tls.key
\* that is one step: the watcher does not take a pair that does not match.
Truncate(r) ==
    /\ Running(r) /\ writer[r].at # 0 /\ Order[writer[r].at] = "ca"
    /\ files[r]["ca"] # Empty /\ files' = [files EXCEPT ![r]["ca"] = Empty]
    /\ UNCHANGED <<secretVars, cache, leader, rotator, state, writer, written, memoryVars, client>>

WriteFile(r) ==
    /\ Running(r) /\ writer[r].at # 0
    /\ LET f == Order[writer[r].at] IN
       /\ f = "ca" => files[r][f] = Empty
       /\ files' = [files EXCEPT ![r][f] = writer[r].data]

Write(r) ==
    /\ WriteFile(r)
    /\ IF writer[r].at = Len(Order)
       THEN /\ written' = [written EXCEPT ![r] = writer[r].data.gen]
            /\ writer' = [writer EXCEPT ![r] = IdleWriter]
       ELSE /\ writer' = [writer EXCEPT ![r].at = @ + 1]
            /\ UNCHANGED written
    /\ UNCHANGED <<secretVars, cache, leader, rotator, state, memoryVars, client>>

FailWrite(r) ==
    /\ Running(r) /\ writer[r].at # 0
    /\ writer' = [writer EXCEPT ![r] = IdleWriter]
    /\ UNCHANGED <<secretVars, cache, leader, rotator, state, files, written, memoryVars, client>>

\* External: the watcher, at a change of tls.crt or tls.key and every 10 s,
\* takes a pair that matches and is not the one it has.
Watch(r) ==
    /\ Running(r) /\ ~notify[r]
    /\ files[r]["crt"].gen = files[r]["key"].gen /\ files[r]["crt"] # Empty
    /\ files[r]["crt"].gen # serving[r]
    /\ serving' = [serving EXCEPT ![r] = files[r]["crt"].gen]
    /\ notify' = [notify EXCEPT ![r] = TRUE]
    /\ UNCHANGED <<secretVars, cache, leader, rotator, state, diskVars, pool, client>>

\* loadCAPool; with a truncated ca.crt the old pool stays.
Callback(r) ==
    /\ Running(r) /\ notify[r]
    /\ notify' = [notify EXCEPT ![r] = FALSE]
    /\ pool' = IF files[r]["ca"] = Empty THEN pool ELSE [pool EXCEPT ![r] = files[r]["ca"]]
    /\ UNCHANGED <<secretVars, cache, leader, rotator, state, diskVars, serving, client>>

-----------------------------------------------------------------------------
\* External: the audit forwarder comes to use the Secret's client certificate.
SyncForwarder ==
    /\ secret # Empty /\ client # secret.gen
    /\ client' = secret.gen
    /\ UNCHANGED <<secretVars, cache, leader, rotator, state, diskVars, memoryVars>>

\* Half a lifetime is 15 days: every replica and the forwarder have the
\* current generation by then.
UpToDate(r) ==
    /\ Running(r) /\ cache[r] = secret /\ writer[r] = IdleWriter
    /\ files[r] = [f \in DOMAIN NoFiles |-> secret] /\ written[r] = secret.gen
    /\ serving[r] = secret.gen /\ ~notify[r] /\ pool[r] = secret

PassHalfLife ==
    /\ secret.gen \notin aged /\ secret # Empty /\ made < MaxGeneration
    /\ \A r \in Replicas : UpToDate(r)
    /\ rotator.pc = "idle" /\ client = secret.gen
    /\ aged' = aged \cup {secret.gen}
    /\ UNCHANGED <<secret, made, roots, faultVars, cache, leader, rotator, state, diskVars, memoryVars, client>>

ReplicaNext(r) ==
    \/ CheckSecret(r) \/ CreateSecret(r) \/ LoadInitially(r) \/ FailToLoad(r)
    \/ Crash(r) \/ ChangeLeader(r) \/ SyncCache(r)
    \/ Reload(r) \/ Truncate(r) \/ Write(r) \/ FailWrite(r) \/ Watch(r) \/ Callback(r)

Next ==
    \/ \E r \in Replicas : ReplicaNext(r)
    \/ Reconcile \/ (\E lost \in BOOLEAN : CreateAgain(lost) \/ PatchSecret(lost)) \/ FailCall
    \/ DeleteSecret \/ SyncForwarder \/ PassHalfLife

Spec == Init /\ [][Next]_vars

-----------------------------------------------------------------------------
\* When the callback is through, the pool has the CA that signed the served
\* certificate: ca.crt was on disk before (main.go, lines 136-139).  It may miss
\* it for a while only if a lost response or a deletion makes two generations
\* follow each other so fast that the callback finds ca.crt being overwritten.
PoolHasServingCA ==
    /\ TypeOK
    /\ \A r \in Replicas :
          Running(r) /\ ~notify[r] /\ (losses + deletions = 0 \/ serving[r] = secret.gen) =>
              serving[r] \in Bundle(pool[r])

\* Nothing but the deletion of the Secret takes a forwarder's CA away, and a
\* rotation that started from an outdated copy.
Dropped(copy) ==
    skipped \cup {g \in Generation : \E first \in roots : g < first /\ first =< copy.gen}

\* A replica accepts a forwarder that is no newer than its own CAs: bundling
\* the previous CA is enough, whatever steps of whichever replica interleave
\* (generateAndUpdateSecret, lines 97-116).
OlderClientAccepted ==
    \A r \in Replicas :
      Running(r) /\ client # 0 /\ client =< pool[r].gen =>
          client \in Bundle(pool[r]) \cup Dropped(pool[r])

\* A rotation starts from an outdated copy, whose CA it then bundles in place of
\* the current one, only after a call's response was lost, which makes the next
\* attempt (line 113) come before the cache, or the Secret was deleted meanwhile;
\* errors, crashes and leader changes alone do not do it.
RotationsChain == skipped # {} => losses + deletions > 0

\* "... so the server trusts client certs signed by either during the rotation
\* window" (lines 107-108), whichever the forwarder has.
ClientAccepted ==
    \A r \in Replicas : Running(r) /\ client # 0 => client \in Bundle(pool[r])

\* Processes and writes do not fail for ever, the leader stays, caches catch
\* up, periodic reconciles recur.
Fairness ==
    /\ <>[][\A r \in Replicas : ~Crash(r) /\ ~FailWrite(r) /\ ~ChangeLeader(r)]_vars
    /\ <>[][rotator.pc = "patch" /\ secret # Empty /\ made < MaxGeneration => ~FailCall]_vars
    /\ <>[][rotator.pc = "create" /\ secret = Empty => ~FailCall]_vars
    /\ \A r \in Replicas :
         /\ WF_vars(CheckSecret(r) \/ CreateSecret(r) \/ LoadInitially(r) \/ FailToLoad(r)
                      \/ SyncCache(r))
         /\ WF_vars(Reload(r) \/ Truncate(r) \/ Write(r))
         /\ WF_vars(Watch(r) \/ Callback(r))
    /\ WF_vars(Reconcile)
    /\ WF_vars(FailCall \/ \E lost \in BOOLEAN : CreateAgain(lost) \/ PatchSecret(lost))

FairSpec == Spec /\ Fairness

\* A deleted Secret comes back, and again and again every replica serves the
\* Secret's generation and verifies clients with its bundle, although the
\* callback does not retry.
Converged ==
    []<>(/\ secret # Empty
         /\ \A r \in Replicas : serving[r] = secret.gen /\ pool[r] = secret)
=============================================================================
