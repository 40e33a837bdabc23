--------------------------- MODULE ShootController ---------------------------
(***************************************************************************)
(* internal/controller/shoot: points a Shoot at its newest InternalSecret  *)
(* and, once Gardener has deleted the Shoot, deletes all InternalSecrets.  *)
(***************************************************************************)
EXTENDS CredentialState

VARIABLE shootWorker   \* [pc, the cached Shoot it works on, target, todo]

ShootWorkerPc == {"idle", "addFinalizer", "patch", "listAll", "deleteEach"}
ShootWorkerRecord == [pc : ShootWorkerPc, obj : ShootRecord,
                      target : 0..MaxSecrets, todo : SUBSET SecretId]
IdleShootWorker == [pc |-> "idle", obj |-> NoShoot, target |-> 0, todo |-> {}]

ShootWorkerTypeOK == shootWorker \in ShootWorkerRecord
ShootWorkerInit == shootWorker = IdleShootWorker

ShootAt(pc) == shootWorker.pc = pc

\* The switch of reconcile: the newest Secret, which may be terminating, is
\* adopted now or in a later maintenance window; inWindow stands for the window
\* and for a Shoot that does not wait for it, which ShootQueue distinguishes.
AdoptNewest(obj, inWindow) ==
    LET newest == NewestOrNone(seen) IN
    IF newest \notin {0, obj.binding} /\ inWindow
    THEN [IdleShootWorker EXCEPT !.pc = "patch", !.target = newest]
    ELSE IdleShootWorker

StartShoot(inWindow) ==
    /\ ShootAt("idle")
    /\ \/ /\ seenShoot.phase = "live" /\ seenShoot.fin
          /\ shootWorker' = AdoptNewest(seenShoot, inWindow)
       \/ /\ seenShoot.phase = "live" /\ ~seenShoot.fin
          /\ shootWorker' = [IdleShootWorker EXCEPT !.pc = "addFinalizer", !.obj = seenShoot]
       \/ /\ seenShoot.phase = "deleted"
          /\ shootWorker' = [IdleShootWorker EXCEPT !.pc = "listAll"]
    /\ UNCHANGED sharedVars

\* An optimistically locked patch: the cached Shoot must be the current one.
AddShootFinalizer(inWindow) ==
    /\ ShootAt("addFinalizer")
    /\ shoot = shootWorker.obj
    /\ shoot' = [shoot EXCEPT !.fin = TRUE]
    /\ shootWorker' = AdoptNewest(shoot', inWindow)
    /\ UNCHANGED <<now, secret, bindings, cacheVars, openstackVars>>

\* A merge patch of what differs from the cached Shoot, without lock.
PatchBinding ==
    /\ ShootAt("patch")
    /\ ShootExists(shoot)
    /\ shoot' = [shoot EXCEPT !.binding = shootWorker.target]
    /\ shootWorker' = IdleShootWorker
    /\ UNCHANGED <<now, secret, bindings, cacheVars, openstackVars>>

\* DeleteAllOf: the API server lists the Secrets and deletes them one by one.
ListAllSecrets ==
    /\ ShootAt("listAll")
    /\ shootWorker' = [shootWorker EXCEPT !.pc = "deleteEach", !.todo = Existing(secret)]
    /\ UNCHANGED sharedVars

DeleteListed(s) ==
    /\ ShootAt("deleteEach")
    /\ s \in shootWorker.todo
    /\ DeleteSecret(s)
    /\ shootWorker' = [shootWorker EXCEPT !.todo = @ \ {s}]
    /\ UNCHANGED <<now, bindings, shoot, cacheVars, openstackVars>>

RemoveShootFinalizer ==
    /\ ShootAt("deleteEach")
    /\ shootWorker.todo = {}
    /\ shoot' = IF shoot.phase = "deleted" THEN [shoot EXCEPT !.fin = FALSE] ELSE shoot
    /\ shootWorker' = IdleShootWorker
    /\ UNCHANGED <<now, secret, bindings, cacheVars, openstackVars>>

FailShoot ==
    /\ ~ShootAt("idle")
    /\ shootWorker' = IdleShootWorker
    /\ UNCHANGED sharedVars

ShootCall ==
    \/ (\E inWindow \in BOOLEAN : AddShootFinalizer(inWindow)) \/ PatchBinding
    \/ ListAllSecrets \/ (\E s \in SecretId : DeleteListed(s)) \/ RemoveShootFinalizer

ShootNext == (\E inWindow \in BOOLEAN : StartShoot(inWindow)) \/ ShootCall \/ FailShoot
=============================================================================
