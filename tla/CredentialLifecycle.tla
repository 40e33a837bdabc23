------------------------- MODULE CredentialLifecycle -------------------------
(***************************************************************************)
(* The life of one Shoot name's OpenStack credentials: the admission       *)
(* webhook, the operator's internalsecret and shoot controllers, Keystone, *)
(* Gardener, the owner of the Shoot and an administrator, interleaved.     *)
(***************************************************************************)
EXTENDS InternalSecretController, ShootController, ShootAdmission

vars == <<sharedVars, worker, shootWorker, admission>>

Init == SharedInit /\ WorkerInit /\ ShootWorkerInit /\ AdmissionInit

controllerVars == <<worker, shootWorker, admission>>

-----------------------------------------------------------------------------
(* The environment.                                                        *)

\* An informer catches up with the API server, skipping what it missed.
SyncSecrets ==
    /\ seen # secret /\ seen' = secret
    /\ UNCHANGED <<now, apiVars, seenShoot, openstackVars, controllerVars>>

SyncShoot ==
    /\ seenShoot # shoot /\ seenShoot' = shoot
    /\ UNCHANGED <<now, apiVars, seen, openstackVars, controllerVars>>

\* A tick is long against any call (10 s for an admission, 5 min for the
\* login as cluster user) and against the lag of an informer.
Quiet ==
    /\ \A s \in SecretId : At(s, "idle")
    /\ ShootAt("idle") /\ AdmissionsIdle
    /\ seen = secret /\ seenShoot = shoot

Tick ==
    /\ now < MaxTime /\ Quiet
    /\ now' = now + 1
    /\ UNCHANGED <<apiVars, cacheVars, openstackVars, controllerVars>>

InUse == shoot.phase \in {"live", "deleting"}

\* Nothing is left of the Secret, and the operator has noticed.
Settled(s) ==
    secret[s].stage \in {"gone", "dropped"} /\ seen[s].stage = secret[s].stage /\ At(s, "idle")

\* A name is free again when all of its last use has gone; what an attempt has
\* left that never became a Shoot may be there if it is young.  There may be
\* requests for a Shoot that exists, too.
NothingLeft ==
    /\ \/ shoot.phase = "none"
       \/ shoot.phase = "gone" /\ seenShoot.phase = "gone" /\ ShootAt("idle")
    /\ \A s \in SecretId : \/ secret[s].stage = "none" \/ Settled(s)
                           \/ secret[s].stage = "live" /\ Young(s)
NameFree == NothingLeft /\ \A s \in SecretId : secret[s].stage = "live" => s \in creds
NameInUse == InUse /\ \A s \in SecretId : IsNewest(s, secret) => ~Expired(s)

OwnerRequestsShoot(h) ==
    /\ now =< LastRequest
    /\ AllowOverlap \/ NameFree \/ NameInUse
    /\ Arrive(h)
    /\ UNCHANGED <<worker, shootWorker>>

OwnerDeletesShoot ==
    /\ shoot.phase = "live"
    /\ shoot' = [shoot EXCEPT !.phase = "deleting"]
    /\ UNCHANGED <<now, secret, bindings, cacheVars, openstackVars, controllerVars>>

\* Gardener takes longer to delete a Shoot than an admission may last.
GardenerDeletesShoot ==
    /\ shoot.phase = "deleting" /\ AdmissionsIdle
    /\ shoot' = [shoot EXCEPT !.phase = "deleted"]
    /\ UNCHANGED <<now, secret, bindings, cacheVars, openstackVars, controllerVars>>

ShootVanishes ==
    /\ shoot.phase = "deleted" /\ ~shoot.fin
    /\ shoot' = [NoShoot EXCEPT !.phase = "gone"]
    /\ UNCHANGED <<now, secret, bindings, cacheVars, openstackVars, controllerVars>>

AdministratorDeletesSecret(s) ==
    /\ AllowManualDelete
    /\ secret[s].stage = "live"
    /\ DeleteSecret(s)
    /\ UNCHANGED <<now, bindings, shoot, cacheVars, openstackVars, controllerVars>>

EnvironmentNext ==
    \/ SyncSecrets \/ SyncShoot \/ Tick
    \/ OwnerDeletesShoot \/ GardenerDeletesShoot \/ ShootVanishes
    \/ \E s \in SecretId : AdministratorDeletesSecret(s)
    \/ \E h \in Admissions : OwnerRequestsShoot(h)

Next ==
    \/ InternalSecretNext /\ UNCHANGED <<shootWorker, admission>>
    \/ ShootNext /\ UNCHANGED <<worker, admission>>
    \/ AdmissionNext /\ UNCHANGED <<worker, shootWorker>>
    \/ EnvironmentNext

Spec == Init /\ [][Next]_vars

-----------------------------------------------------------------------------
TypeOK == SharedTypeOK /\ WorkerTypeOK /\ ShootWorkerTypeOK /\ AdmissionTypeOK

\* While Gardener needs the Shoot's infrastructure, nobody deletes the cluster
\* user: the owner of the user waits for all other Secrets (delete, lines
\* 271-287), and a Secret ends only after it has a successor.
UserOutlivesShoot ==
    [][user /\ ~user' => shoot.phase \notin {"live", "deleting"}]_vars

\* The controllers never take the CredentialsBinding or the application
\* credential that the Shoot references, before it expires
\* (internalSecretDeletionAllowed).
InUseCredentialSurvives ==
    [][\A s \in SecretId :
         shoot.phase \in {"live", "deleting"} /\ shoot.binding = s /\ ~Expired(s)
         => (s \in bindings => s \in bindings') /\ (s \in creds => s \in creds')]_vars

\* While the Shoot lives a Secret starts to go only if a younger one exists
\* (reconcile, lines 146-152: expiry is looked at after the rotation).
SuccessorBeforeRemoval ==
    [][\A s \in SecretId :
         shoot.phase = "live" /\ secret[s].stage = "live" /\ secret'[s].stage = "terminating"
         => \E t \in Existing(secret) : t > s]_vars

\* A Secret whose finalizer was removed has left nothing behind.
RemovedIsCleanedUp ==
    \A s \in SecretId : secret[s].stage = "gone" => s \notin bindings /\ s \notin creds

\* An application credential is revoked before its Secret may vanish, whatever
\* owner and administrator do (delete, lines 262-266 before 290).
RevokedBeforeRemoval ==
    \A s \in SecretId : secret[s].stage = "gone" => s \notin creds

NoneDropped == \A s \in SecretId : secret[s].stage # "dropped"

\* The last Secret to lose its finalizer takes the cluster user along (lines
\* 48-51 and 311 of the internalsecret reconciler), unless somebody asks for
\* the Shoot name at that moment.
LastSecretTakesUser ==
    [][(\E s \in Existing(secret) : Existing(secret) = {s} /\ secret'[s].stage = "gone")
       /\ AdmissionsIdle => ~user']_vars

-----------------------------------------------------------------------------
(* Liveness.                                                               *)

\* A call that cannot succeed as things stand.
Impossible(s) ==
    \/ At(s, "addFinalizer") /\ (secret[s].stage # "live" \/ secret[s].fin)
    \/ At(s, "createCredential") /\ ~user
    \/ At(s, "createSecret") /\ \A t \in SecretId : secret[t].stage # "none"

ShootImpossible ==
    \/ ShootAt("addFinalizer") /\ shoot # shootWorker.obj
    \/ ShootAt("patch") /\ ~ShootExists(shoot)

\* Other errors end at some time.
ErrorsAreTransient ==
    <>[][/\ \A s \in SecretId : Fail(s) => CallOf(s) \/ Impossible(s)
         /\ FailShoot => ShootCall \/ ShootImpossible]_vars

\* Every call ends (10 s for an admission, 5 min for a login) and informers
\* catch up.  InternalSecrets are reconciled again and again (events, requeues,
\* the informer's resync every 10 h); a Shoot is while there is work for it,
\* which module ShootQueue shows of its events and requeues, and meets a window.
\* Gardener and the clock do not stop.
Fairness ==
    /\ ErrorsAreTransient
    /\ []<>Quiet
    /\ SF_vars(Tick)
    /\ SF_vars(GardenerDeletesShoot) /\ WF_vars(ShootVanishes)
    /\ \A s \in SecretId : WF_vars(StartReconcile(s) /\ UNCHANGED <<shootWorker, admission>>)
    /\ WF_vars(StartShoot(TRUE) /\ UNCHANGED <<worker, admission>>)

FairSpec == Spec /\ Fairness

\* A live Shoot's newest Secret gets a successor once its renew time has come
\* (RotationThreshold, line 37 of the internalsecret reconciler), as far as
\* the bound on Secrets allows.
RenewalDue ==
    /\ shoot.phase = "live"
    /\ \E s \in SecretId : IsNewest(s, secret) /\ s < MaxSecrets /\ PastRenewTime(s)

Rotated == RenewalDue ~> ~RenewalDue

\* What was made for a Shoot that does not exist goes, as far as the clock
\* runs: every Secret is deleted, by the shoot controller or by itself after
\* the grace period, and none waits for another for ever.
CleanedUp ==
    ~ShootExists(shoot)
    ~> \/ Existing(secret) = {} \/ ShootExists(shoot)
       \/ now = MaxTime /\ \E s \in Existing(secret) : secret[s].stage = "live" /\ Age(s) =< Grace
=============================================================================
