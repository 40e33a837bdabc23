---------------------- MODULE InternalSecretController ----------------------
(***************************************************************************)
(* internal/controller/internalsecret: one reconcile at a time per         *)
(* InternalSecret, several Secrets at once.  A step is one call to the API *)
(* server or Keystone and the informer reads up to the next call; between  *)
(* two steps anything else may happen.  A call may fail, or the process    *)
(* may stop, at any step (Fail): the Secret is then reconciled again from  *)
(* the start.                                                              *)
(***************************************************************************)
EXTENDS CredentialState

VARIABLE worker   \* [pc, the cached Shoot existed]

RegularPc == {"addFinalizer", "ensureBinding", "ensureUser", "createCredential", "createSecret",
              "deleteSelf"}
CleanupPc == {"deleteBinding", "checkUser", "loginUser", "deleteCredential", "deleteUser",
              "removeFinalizer"}
WorkerRecord == [pc : {"idle"} \cup RegularPc \cup CleanupPc, shoot : BOOLEAN]
IdleWorker == [pc |-> "idle", shoot |-> FALSE]

WorkerTypeOK == worker \in [SecretId -> WorkerRecord]
WorkerInit == worker = [s \in SecretId |-> IdleWorker]

At(s, pc) == worker[s].pc = pc

Goto(s, pc) == worker' = [worker EXCEPT ![s] = [IdleWorker EXCEPT !.pc = pc]]

-----------------------------------------------------------------------------
(* Decisions, on the Shoot and the Secrets as the informers have them.     *)

\* What a successful handleNowAfterRenewTime leaves to do.
AfterRotation(s) == IF Expired(s) THEN "deleteSelf" ELSE "idle"

\* Mutants of RegularCall: expiry before rotation; no grace period; renewal at
\* the expiry only; a Secret without Shoot is kept.
RegularCallExpiryFirst(s, shootExists) ==
    IF (~shootExists /\ Age(s) > Grace) \/ Expired(s) THEN "deleteSelf"
    ELSE IF ~PastRenewTime(s) THEN "ensureBinding"
    ELSE IF \E t \in Existing(seen) : CreatedAfterRenewTime(t, s) THEN "idle" ELSE "ensureUser"

RegularCallWithoutGrace(s, shootExists) ==
    IF ~shootExists THEN "deleteSelf"
    ELSE IF ~PastRenewTime(s) THEN "ensureBinding"
    ELSE IF \E t \in Existing(seen) : CreatedAfterRenewTime(t, s) THEN AfterRotation(s) ELSE "ensureUser"

RegularCallLateRenewal(s, shootExists) ==
    IF ~shootExists /\ Age(s) > Grace THEN "deleteSelf"
    ELSE IF ~Expired(s) THEN "ensureBinding"
    ELSE IF \E t \in Existing(seen) : CreatedAfterRenewTime(t, s) THEN AfterRotation(s) ELSE "ensureUser"

RegularCallKeepsOrphans(s, shootExists) ==
    IF ~PastRenewTime(s) THEN "ensureBinding"
    ELSE IF \E t \in Existing(seen) : CreatedAfterRenewTime(t, s) THEN AfterRotation(s) ELSE "ensureUser"

\* The first call of reconcile once the finalizer is there.
RegularCall(s, shootExists) ==
    IF ~shootExists /\ Age(s) > Grace THEN "deleteSelf"
    ELSE IF ~PastRenewTime(s) THEN "ensureBinding"
    ELSE IF \E t \in Existing(seen) : CreatedAfterRenewTime(t, s) THEN AfterRotation(s)
    ELSE "ensureUser"

\* internalSecretDeletionAllowed
DeletionAllowed(s) ==
    \/ seenShoot.phase = "deleted"
    \/ Expired(s)
    \/ ~ShootExists(seenShoot) \/ seenShoot.binding # s

\* Mutant of CallAfterCredential: the list is sorted the other way round.
CallAfterCredentialOldestOwns(s) ==
    IF Existing(seen) = {} THEN "idle"
    ELSE IF \E t \in Existing(seen) : t < s THEN "removeFinalizer" ELSE "deleteUser"

\* secretOwnsClusterServiceUser, isOnlyRemainingInternalSecretForShoot: the
\* newest Secret owns the user and waits until it is the only one.  With no
\* Secret left in the cache there is no newest one and the reconcile panics.
CallAfterCredential(s) ==
    IF Existing(seen) = {} THEN "idle"
    ELSE IF ~IsNewest(s, seen) THEN "removeFinalizer"
    ELSE IF Existing(seen) = {s} THEN "deleteUser" ELSE "idle"

-----------------------------------------------------------------------------
\* A reconcile of a terminating Secret that is still in use only requeues.
StartReconcile(s) ==
    /\ At(s, "idle")
    /\ \/ /\ seen[s].stage = "live" /\ seen[s].fin
          /\ Goto(s, RegularCall(s, ShootExists(seenShoot)))
       \/ /\ seen[s].stage = "live" /\ ~seen[s].fin
          /\ worker' = [worker EXCEPT ![s] = [pc |-> "addFinalizer", shoot |-> ShootExists(seenShoot)]]
       \/ /\ seen[s].stage = "terminating" /\ DeletionAllowed(s)
          /\ Goto(s, "deleteBinding")
    /\ UNCHANGED sharedVars

-----------------------------------------------------------------------------
(* reconcile: a Secret without deletion timestamp                          *)

\* The patch carries the resource version of the cached object.
AddFinalizer(s) ==
    /\ At(s, "addFinalizer")
    /\ secret[s].stage = "live" /\ ~secret[s].fin
    /\ secret' = [secret EXCEPT ![s].fin = TRUE]
    /\ Goto(s, RegularCall(s, worker[s].shoot))
    /\ UNCHANGED <<now, bindings, shoot, cacheVars, openstackVars>>

\* handleNowBeforeRenewTime
EnsureBinding(s) ==
    /\ At(s, "ensureBinding")
    /\ EnsureCredentialsBinding(s)
    /\ Goto(s, "idle")
    /\ UNCHANGED <<now, secret, shoot, cacheVars, openstackVars>>

\* handleNowAfterRenewTime: the next three calls
EnsureUser(s) ==
    /\ At(s, "ensureUser")
    /\ EnsureClusterUser
    /\ Goto(s, "createCredential")
    /\ UNCHANGED <<now, apiVars, cacheVars>>

CreateNewCredential(s) ==
    /\ At(s, "createCredential")
    /\ CreateCredential(s)
    /\ Goto(s, "createSecret")
    /\ UNCHANGED <<now, apiVars, cacheVars>>

CreateNewSecret(s, t) ==
    /\ At(s, "createSecret")
    /\ StoreCredential(s, t)
    /\ Goto(s, AfterRotation(s))
    /\ UNCHANGED <<now, bindings, shoot, cacheVars>>

\* The Secret deletes itself to trigger its clean-up: no Shoot, or expired.
DeleteSelf(s) ==
    /\ At(s, "deleteSelf")
    /\ DeleteSecret(s)
    /\ Goto(s, "idle")
    /\ UNCHANGED <<now, bindings, shoot, cacheVars, openstackVars>>

-----------------------------------------------------------------------------
(* delete: a Secret with deletion timestamp whose deletion is allowed      *)

DeleteBinding(s) ==
    /\ At(s, "deleteBinding")
    /\ bindings' = bindings \ {s}
    /\ Goto(s, "checkUser")
    /\ UNCHANGED <<now, secret, shoot, cacheVars, openstackVars>>

\* Mutant of CheckUser: the condition is inverted.
CheckUserInverted(s) ==
    /\ At(s, "checkUser")
    /\ Goto(s, IF user THEN CallAfterCredential(s) ELSE "loginUser")
    /\ UNCHANGED sharedVars

\* deleteApplicationCredential: without user there is no credential either.
CheckUser(s) ==
    /\ At(s, "checkUser")
    /\ Goto(s, IF user THEN "loginUser" ELSE CallAfterCredential(s))
    /\ UNCHANGED sharedVars

\* ... but logging in as the user creates it when it has gone meanwhile.
LoginUser(s) ==
    /\ At(s, "loginUser")
    /\ EnsureClusterUser
    /\ Goto(s, "deleteCredential")
    /\ UNCHANGED <<now, apiVars, cacheVars>>

\* Mutant of DeleteCredential: every credential of the user goes.
DeleteCredentialAll(s) ==
    /\ At(s, "deleteCredential")
    /\ creds' = {}
    /\ Goto(s, CallAfterCredential(s))
    /\ UNCHANGED <<now, apiVars, cacheVars, user, loose>>

DeleteCredential(s) ==
    /\ At(s, "deleteCredential")
    /\ creds' = creds \ {s}
    /\ Goto(s, CallAfterCredential(s))
    /\ UNCHANGED <<now, apiVars, cacheVars, user, loose>>

DeleteUser(s) ==
    /\ At(s, "deleteUser")
    /\ DeleteClusterUser
    /\ Goto(s, "removeFinalizer")
    /\ UNCHANGED <<now, apiVars, cacheVars>>

RemoveFinalizer(s) ==
    /\ At(s, "removeFinalizer")
    /\ secret' = IF secret[s].stage = "terminating"
                 THEN [secret EXCEPT ![s].stage = "gone", ![s].fin = FALSE] ELSE secret
    /\ Goto(s, "idle")
    /\ UNCHANGED <<now, bindings, shoot, cacheVars, openstackVars>>

\* A call returned an error, the context ended or the operator restarted.
Fail(s) ==
    /\ ~At(s, "idle")
    /\ Goto(s, "idle")
    /\ UNCHANGED sharedVars

-----------------------------------------------------------------------------
CallOf(s) ==
    \/ AddFinalizer(s) \/ EnsureBinding(s) \/ EnsureUser(s) \/ CreateNewCredential(s)
    \/ (\E t \in SecretId : CreateNewSecret(s, t)) \/ DeleteSelf(s)
    \/ DeleteBinding(s) \/ CheckUser(s) \/ LoginUser(s) \/ DeleteCredential(s)
    \/ DeleteUser(s) \/ RemoveFinalizer(s)

InternalSecretNext == \E s \in SecretId : StartReconcile(s) \/ CallOf(s) \/ Fail(s)
=============================================================================
