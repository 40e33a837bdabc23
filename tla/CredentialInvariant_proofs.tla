---------------------- MODULE CredentialInvariant_proofs ----------------------
(***************************************************************************)
(* The states of CredentialLifecycle are well typed; when a Shoot name is  *)
(* not requested while the last Shoot of that name is being cleaned up,    *)
(* and no administrator deletes InternalSecrets, Inv and then LeaseInv are *)
(* invariants, the cluster user outlives the Shoot, and                    *)
(* CredentialLifecycle implements CredentialLease.  After the types, what  *)
(* a step may do to the Secrets, the Shoot and the workers is collected    *)
(* (SecretStep, PhaseStep, WorkerStep); the parts of Inv are then          *)
(* preserved one after the other.  The second half does the same for the   *)
(* account, the admissions and the Shoot's reference (AccountStep), then   *)
(* for the parts of LeaseInv, and ends with the refinement.                *)
(***************************************************************************)
EXTENDS CredentialInvariant, WellFoundedInduction, TLAPS

\* A list of Secrets that is not empty has a newest one (NewestObject).
LEMMA NewestExists ==
    ASSUME NEW view, Existing(view) # {}
    PROVE  \E s \in SecretId : IsNewest(s, view)
<1> DEFINE T == {MaxSecrets - s : s \in Existing(view)}
<1>1. Existing(view) \subseteq 1..MaxSecrets
  BY DEF Existing, SecretId
<1>2. T \subseteq Nat /\ T # {}
  BY <1>1, ConstantsAssumption
<1>3. PICK x \in T : \A y \in T : ~ (<<y, x>> \in OpToRel(<, Nat))
  <2> HIDE DEF T
  <2> QED
    BY <1>2, NatLessThanWellFounded, WFMin, Zenon
<1>4. \A y \in T : ~ (y < x)
  BY <1>2, <1>3 DEF OpToRel
<1>5. PICK s \in Existing(view) : x = MaxSecrets - s
  BY <1>3
<1>6. \A t \in Existing(view) : t =< s
  <2> TAKE t \in Existing(view)
  <2>1. ~ (MaxSecrets - t < MaxSecrets - s)
    BY <1>4, <1>5
  <2> QED
    BY <2>1, <1>1, <1>5, ConstantsAssumption
<1> QED
  BY <1>1, <1>5, <1>6 DEF IsNewest, SecretId

\* The newest Secret of a list is a Secret, or 0.
LEMMA NewestType ==
    ASSUME NEW view
    PROVE  NewestOrNone(view) \in 0..MaxSecrets
BY NewestExists, ConstantsAssumption DEF NewestOrNone, SecretId

-----------------------------------------------------------------------------
(* The steps of Next, for the proofs by cases.                             *)

\* A request comes or takes a step.
MayRequest == AllowOverlap \/ NameFree \/ NameInUse

RequestStep(h) == AdmissionStep(h) \/ (MayRequest /\ Arrive(h))

EnvironmentStep ==
    \/ SyncSecrets \/ SyncShoot \/ Tick
    \/ OwnerDeletesShoot \/ GardenerDeletesShoot \/ ShootVanishes
    \/ \E s \in SecretId : AdministratorDeletesSecret(s)

LEMMA StepCases ==
    ASSUME [Next]_vars
    PROVE  \/ \E s \in SecretId : (StartReconcile(s) \/ CallOf(s) \/ Fail(s)) /\ UNCHANGED <<shootWorker, admission>>
           \/ ShootNext /\ UNCHANGED <<worker, admission>>
           \/ \E h \in Admissions : RequestStep(h) /\ UNCHANGED <<worker, shootWorker>>
           \/ EnvironmentStep
           \/ UNCHANGED vars
BY DEF Next, InternalSecretNext, AdmissionNext, EnvironmentNext, OwnerRequestsShoot, RequestStep, EnvironmentStep, MayRequest

-----------------------------------------------------------------------------
(* Type correctness.                                                       *)

USE DEF SharedTypeOK, WorkerTypeOK, ShootWorkerTypeOK, AdmissionTypeOK

\* internalsecret controller
LEMMA WorkerTypes ==
    ASSUME TypeOK, NEW s \in SecretId, StartReconcile(s) \/ CallOf(s) \/ Fail(s),
           UNCHANGED <<shootWorker, admission>>
    PROVE  TypeOK'
<1> USE ConstantsAssumption
<1>1. ASSUME NEW pc \in RegularPc \cup CleanupPc \cup {"idle"}, Goto(s, pc) PROVE WorkerTypeOK'
  <2>1. [IdleWorker EXCEPT !.pc = pc] \in WorkerRecord
    BY DEF WorkerRecord, IdleWorker
  <2> QED
    BY <1>1, <2>1 DEF TypeOK, Goto
<1>2. RegularCall(s, TRUE) \in RegularPc \cup {"idle"} /\ RegularCall(s, FALSE) \in RegularPc \cup {"idle"}
  BY DEF RegularCall, AfterRotation, RegularPc
<1>3. CallAfterCredential(s) \in CleanupPc \cup {"idle"} /\ AfterRotation(s) \in RegularPc \cup {"idle"}
  BY DEF CallAfterCredential, AfterRotation, CleanupPc, RegularPc
<1>4. ShootExists(seenShoot) \in BOOLEAN /\ worker[s].shoot \in BOOLEAN
  BY DEF TypeOK, ShootExists, WorkerRecord
<1>5. CASE StartReconcile(s)
  <2>1. SharedTypeOK' /\ ShootWorkerTypeOK' /\ AdmissionTypeOK'
    BY <1>5 DEF TypeOK, StartReconcile, sharedVars
  <2>2. CASE Goto(s, RegularCall(s, ShootExists(seenShoot)))
    <3>1. RegularCall(s, ShootExists(seenShoot)) \in RegularPc \cup {"idle"}
      BY <1>2, <1>4
    <3> QED
      BY <1>1, <2>1, <2>2, <3>1 DEF TypeOK
  <2>3. CASE worker' = [worker EXCEPT ![s] = [pc |-> "addFinalizer", shoot |-> ShootExists(seenShoot)]]
    <3>1. [pc |-> "addFinalizer", shoot |-> ShootExists(seenShoot)] \in WorkerRecord
      BY <1>4 DEF WorkerRecord, RegularPc
    <3>2. WorkerTypeOK'
      BY <2>3, <3>1 DEF TypeOK
    <3> QED
      BY <2>1, <3>2 DEF TypeOK
  <2>4. CASE Goto(s, "deleteBinding")
    BY <1>1, <2>1, <2>4 DEF TypeOK, CleanupPc
  <2> QED
    BY <1>5, <2>2, <2>3, <2>4 DEF StartReconcile
<1>6. CASE AddFinalizer(s)
  <2>1. SharedTypeOK' /\ ShootWorkerTypeOK' /\ AdmissionTypeOK'
    BY <1>6 DEF TypeOK, AddFinalizer, cacheVars, openstackVars, SecretRecord
  <2> QED
    BY <2>1, <1>1, <1>2, <1>4, <1>6 DEF TypeOK, AddFinalizer
<1>7. CASE EnsureBinding(s)
  BY <1>1, <1>7 DEF TypeOK, EnsureBinding, EnsureCredentialsBinding, cacheVars, openstackVars
<1>8. CASE EnsureUser(s)
  BY <1>1, <1>8 DEF TypeOK, EnsureUser, EnsureClusterUser, apiVars, cacheVars, RegularPc
<1>9. CASE CreateNewCredential(s)
  BY <1>1, <1>9 DEF TypeOK, CreateNewCredential, CreateCredential, apiVars, cacheVars, RegularPc
<1>10. ASSUME NEW t \in SecretId, CreateNewSecret(s, t) PROVE TypeOK'
  <2>1. SharedTypeOK' /\ ShootWorkerTypeOK' /\ AdmissionTypeOK'
    BY <1>10 DEF TypeOK, CreateNewSecret, StoreCredential, cacheVars, SecretRecord, Stage
  <2> QED
    BY <2>1, <1>1, <1>3, <1>10 DEF TypeOK, CreateNewSecret
<1>11. CASE DeleteSelf(s)
  <2>1. SharedTypeOK' /\ ShootWorkerTypeOK' /\ AdmissionTypeOK'
    BY <1>11 DEF TypeOK, DeleteSelf, DeleteSecret, MarkDeleted, cacheVars, openstackVars, SecretRecord, Stage
  <2> QED
    BY <2>1, <1>1, <1>11 DEF TypeOK, DeleteSelf
<1>12. CASE DeleteBinding(s)
  BY <1>1, <1>12 DEF TypeOK, DeleteBinding, cacheVars, openstackVars, CleanupPc
<1>13. CASE CheckUser(s)
  BY <1>1, <1>3, <1>13 DEF TypeOK, CheckUser, sharedVars, CleanupPc
<1>14. CASE LoginUser(s)
  BY <1>1, <1>14 DEF TypeOK, LoginUser, EnsureClusterUser, apiVars, cacheVars, CleanupPc
<1>15. CASE DeleteCredential(s)
  BY <1>1, <1>3, <1>15 DEF TypeOK, DeleteCredential, apiVars, cacheVars
<1>16. CASE DeleteUser(s)
  BY <1>1, <1>16 DEF TypeOK, DeleteUser, DeleteClusterUser, apiVars, cacheVars, CleanupPc
<1>17. CASE RemoveFinalizer(s)
  <2>1. SharedTypeOK' /\ ShootWorkerTypeOK' /\ AdmissionTypeOK'
    BY <1>17 DEF TypeOK, RemoveFinalizer, cacheVars, openstackVars, SecretRecord, Stage
  <2> QED
    BY <2>1, <1>1, <1>17 DEF TypeOK, RemoveFinalizer
<1>18. CASE Fail(s)
  BY <1>1, <1>18 DEF TypeOK, Fail, sharedVars
<1> QED
  BY <1>5, <1>6, <1>7, <1>8, <1>9, <1>10, <1>11, <1>12, <1>13, <1>14, <1>15, <1>16, <1>17, <1>18 DEF CallOf

\* shoot controller
LEMMA ShootWorkerTypes ==
    ASSUME TypeOK, ShootNext, UNCHANGED <<worker, admission>>
    PROVE  TypeOK'
<1> USE ConstantsAssumption
<1>1. IdleShootWorker \in ShootWorkerRecord
  BY DEF IdleShootWorker, ShootWorkerRecord, ShootWorkerPc, NoShoot, ShootRecord, Phase
<1>2. \A obj \in ShootRecord, inWindow \in BOOLEAN : AdoptNewest(obj, inWindow) \in ShootWorkerRecord
  BY <1>1, NewestType DEF AdoptNewest, ShootWorkerRecord, ShootWorkerPc, ShootRecord, IdleShootWorker, NoShoot, Phase
<1>3. ASSUME NEW inWindow \in BOOLEAN, StartShoot(inWindow) PROVE TypeOK'
  <2>1. SharedTypeOK' /\ WorkerTypeOK' /\ AdmissionTypeOK'
    BY <1>3 DEF TypeOK, StartShoot, sharedVars
  <2>2. ShootWorkerTypeOK'
    <3>1. /\ [IdleShootWorker EXCEPT !.pc = "addFinalizer", !.obj = seenShoot] \in ShootWorkerRecord
          /\ [IdleShootWorker EXCEPT !.pc = "listAll"] \in ShootWorkerRecord
      BY <1>1 DEF TypeOK, ShootWorkerRecord, ShootWorkerPc
    <3> QED
      BY <3>1, <1>2, <1>3 DEF TypeOK, StartShoot
  <2> QED
    BY <2>1, <2>2 DEF TypeOK
<1>4. ASSUME NEW inWindow \in BOOLEAN, AddShootFinalizer(inWindow) PROVE TypeOK'
  <2>1. shoot' \in ShootRecord
    BY <1>4 DEF TypeOK, AddShootFinalizer, ShootRecord
  <2>2. shootWorker' \in ShootWorkerRecord
    BY <2>1, <1>2, <1>4 DEF AddShootFinalizer
  <2> QED
    BY <2>1, <2>2, <1>4 DEF TypeOK, AddShootFinalizer, cacheVars, openstackVars
<1>5. CASE PatchBinding
  <2>1. shoot' \in ShootRecord
    BY <1>5 DEF TypeOK, PatchBinding, ShootRecord, ShootWorkerRecord
  <2> QED
    BY <2>1, <1>1, <1>5 DEF TypeOK, PatchBinding, cacheVars, openstackVars
<1>6. CASE ListAllSecrets
  <2>1. shootWorker' \in ShootWorkerRecord
    BY <1>6 DEF TypeOK, ListAllSecrets, ShootWorkerRecord, ShootWorkerPc, Existing
  <2> QED
    BY <2>1, <1>6 DEF TypeOK, ListAllSecrets, sharedVars
<1>7. ASSUME NEW s \in SecretId, DeleteListed(s) PROVE TypeOK'
  <2>1. secret' \in [SecretId -> SecretRecord]
    BY <1>7 DEF TypeOK, DeleteListed, DeleteSecret, MarkDeleted, SecretRecord, Stage
  <2>2. shootWorker' \in ShootWorkerRecord
    BY <1>7 DEF TypeOK, DeleteListed, ShootWorkerRecord
  <2> QED
    BY <2>1, <2>2, <1>7 DEF TypeOK, DeleteListed, cacheVars, openstackVars
<1>8. CASE RemoveShootFinalizer
  <2>1. shoot' \in ShootRecord
    BY <1>8 DEF TypeOK, RemoveShootFinalizer, ShootRecord
  <2> QED
    BY <2>1, <1>1, <1>8 DEF TypeOK, RemoveShootFinalizer, cacheVars, openstackVars
<1>9. CASE FailShoot
  BY <1>1, <1>9 DEF TypeOK, FailShoot, sharedVars
<1> QED
  BY <1>3, <1>4, <1>5, <1>6, <1>7, <1>8, <1>9 DEF ShootNext, ShootCall

\* admission webhook
LEMMA AdmissionTypes ==
    ASSUME TypeOK, NEW h \in Admissions, RequestStep(h), UNCHANGED <<worker, shootWorker>>
    PROVE  TypeOK'
<1> USE ConstantsAssumption
<1>1. \A pc \in AdmissionPc \ {"ensureBinding"} : AdmissionGoto(h, pc) => AdmissionTypeOK'
  BY DEF TypeOK, AdmissionGoto, AdmissionRecord
<1>2. IdleAdmission \in AdmissionRecord /\ IdleAdmission.pc # "ensureBinding"
  BY DEF IdleAdmission, AdmissionRecord, AdmissionPc
<1>3. CASE Arrive(h)
  <2>1. AdmissionTypeOK'
    BY <1>3, NewestType DEF TypeOK, Arrive, AdmissionRecord, AdmissionPc
  <2> QED
    BY <2>1, <1>3 DEF TypeOK, Arrive, sharedVars
<1>4. ASSUME NEW workerless \in BOOLEAN, AdmissionEnsureUser(h, workerless) PROVE TypeOK'
  BY <1>1, <1>4 DEF TypeOK, AdmissionEnsureUser, EnsureClusterUser, apiVars, cacheVars, AdmissionPc
<1>5. ASSUME NEW answer \in 0..MaxSecrets, ListSecrets(h, answer) PROVE TypeOK'
  <2> DEFINE next == IF answer = 0 THEN "createCredential" ELSE "ensureBinding"
  <2>0. next \in AdmissionPc /\ (next = "ensureBinding" => answer \in SecretId)
    BY DEF AdmissionPc, SecretId
  <2>1. AdmissionTypeOK'
    <3> HIDE DEF next
    <3>1. admission' = [admission EXCEPT ![h].pc = next, ![h].ref = answer]
      BY <1>5 DEF ListSecrets, next
    <3> QED
      BY <2>0, <3>1 DEF TypeOK, AdmissionRecord
  <2> QED
    BY <2>1, <1>5 DEF TypeOK, ListSecrets, sharedVars
<1>6. CASE AdmissionCreateCredential(h)
  BY <1>1, <1>6 DEF TypeOK, AdmissionCreateCredential, CreateCredential, apiVars, cacheVars, AdmissionPc
<1>7. ASSUME NEW s \in SecretId, AdmissionCreateSecret(h, s) PROVE TypeOK'
  <2>1. SharedTypeOK'
    BY <1>7 DEF TypeOK, AdmissionCreateSecret, StoreCredential, cacheVars, SecretRecord, Stage
  <2>2. AdmissionTypeOK'
    <3>1. s \in 0..MaxSecrets /\ "ensureBinding" \in AdmissionPc
      BY DEF SecretId, AdmissionPc
    <3>2. admission' = [admission EXCEPT ![h].pc = "ensureBinding", ![h].ref = s]
      BY <1>7 DEF AdmissionCreateSecret
    <3> QED
      BY <3>1, <3>2 DEF TypeOK, AdmissionRecord
  <2> QED
    BY <2>1, <2>2 DEF TypeOK
<1>8. CASE AdmissionEnsureBinding(h)
  <2>1. admission[h].ref \in SecretId
    BY <1>8 DEF TypeOK, AdmissionEnsureBinding, AdmissionAt
  <2>2. AdmissionTypeOK'
    BY <1>1, <1>8 DEF AdmissionEnsureBinding, AdmissionPc
  <2> QED
    BY <2>1, <2>2, <1>8 DEF TypeOK, AdmissionEnsureBinding, EnsureCredentialsBinding, cacheVars, openstackVars, AdmissionPc
<1>9. CASE PersistShoot(h)
  <2>1. shoot' \in ShootRecord
    BY <1>9 DEF TypeOK, PersistShoot, NoShoot, ShootRecord, Phase, AdmissionRecord
  <2>2. AdmissionTypeOK'
    BY <1>2, <1>9 DEF TypeOK, PersistShoot
  <2> QED
    BY <2>1, <2>2, <1>9 DEF TypeOK, PersistShoot, cacheVars, openstackVars
<1>10. CASE AdmissionFail(h)
  BY <1>2, <1>10 DEF TypeOK, AdmissionFail, sharedVars
<1> QED
  BY <1>3, <1>4, <1>5, <1>6, <1>7, <1>8, <1>9, <1>10 DEF RequestStep, AdmissionStep

\* the environment
LEMMA EnvironmentTypes ==
    ASSUME TypeOK, EnvironmentStep
    PROVE  TypeOK'
<1> USE ConstantsAssumption
<1>1. CASE SyncSecrets
  BY <1>1 DEF TypeOK, SyncSecrets, apiVars, openstackVars, controllerVars
<1>2. CASE SyncShoot
  BY <1>2 DEF TypeOK, SyncShoot, apiVars, openstackVars, controllerVars
<1>3. CASE Tick
  <2>1. now' \in 0..MaxTime
    BY <1>3 DEF TypeOK, Tick
  <2> QED
    BY <2>1, <1>3 DEF TypeOK, Tick, apiVars, cacheVars, openstackVars, controllerVars
<1>4. ASSUME shoot' \in ShootRecord,
             UNCHANGED <<now, secret, bindings, cacheVars, openstackVars, controllerVars>>
      PROVE  TypeOK'
  BY <1>4 DEF TypeOK, cacheVars, openstackVars, controllerVars
<1>7. CASE OwnerDeletesShoot
  BY <1>4, <1>7 DEF TypeOK, OwnerDeletesShoot, ShootRecord, Phase
<1>8. CASE GardenerDeletesShoot
  BY <1>4, <1>8 DEF TypeOK, GardenerDeletesShoot, ShootRecord, Phase
<1>9. CASE ShootVanishes
  <2>1. NoShoot \in ShootRecord /\ "gone" \in Phase
    BY DEF ShootRecord, Phase, NoShoot
  <2>2. shoot' \in ShootRecord
    BY <2>1, <1>9 DEF ShootVanishes, ShootRecord
  <2>3. UNCHANGED <<now, secret, bindings, cacheVars, openstackVars, controllerVars>>
    BY <1>9 DEF ShootVanishes
  <2> QED
    BY <2>2, <2>3, <1>4
<1>5. ASSUME NEW s \in SecretId, AdministratorDeletesSecret(s) PROVE TypeOK'
  <2>1. secret' \in [SecretId -> SecretRecord]
    BY <1>5 DEF TypeOK, AdministratorDeletesSecret, DeleteSecret, MarkDeleted, SecretRecord, Stage
  <2> QED
    BY <2>1, <1>5 DEF TypeOK, AdministratorDeletesSecret, cacheVars, openstackVars, controllerVars
<1> QED
  BY <1>1, <1>2, <1>3, <1>5, <1>7, <1>8, <1>9 DEF EnvironmentStep

LEMMA InitTypes == Init => TypeOK
<1> SUFFICES ASSUME Init PROVE TypeOK
  OBVIOUS
<1> USE ConstantsAssumption
<1>1. NoSecret \in SecretRecord /\ NoShoot \in ShootRecord
  BY DEF NoSecret, SecretRecord, Stage, NoShoot, ShootRecord, Phase
<1>2. SharedTypeOK
  <2> SUFFICES ASSUME SharedInit PROVE SharedTypeOK
    BY DEF Init
  <2>1. secret \in [SecretId -> SecretRecord] /\ seen = secret
    BY <1>1 DEF SharedInit
  <2>2. now \in 0..MaxTime /\ shoot \in ShootRecord /\ seenShoot \in ShootRecord
    BY <1>1 DEF SharedInit
  <2> QED
    BY <2>1, <2>2 DEF SharedInit
<1>3. WorkerTypeOK
  <2>1. IdleWorker \in WorkerRecord
    BY DEF IdleWorker, WorkerRecord
  <2> QED
    BY <2>1 DEF Init, WorkerInit
<1>4. ShootWorkerTypeOK
  BY <1>1 DEF Init, ShootWorkerInit, IdleShootWorker, ShootWorkerRecord, ShootWorkerPc
<1>5. AdmissionTypeOK
  BY DEF Init, AdmissionInit, IdleAdmission, AdmissionRecord, AdmissionPc
<1> QED
  BY <1>2, <1>3, <1>4, <1>5 DEF TypeOK

LEMMA StepTypes == TypeOK /\ [Next]_vars => TypeOK'
<1> SUFFICES ASSUME TypeOK, [Next]_vars PROVE TypeOK'
  OBVIOUS
<1>1. CASE UNCHANGED vars
  BY <1>1 DEF TypeOK, vars, sharedVars
<1> QED
  BY <1>1, StepCases, WorkerTypes, ShootWorkerTypes, AdmissionTypes, EnvironmentTypes

\* Whatever the interleaving of webhook, controllers, Gardener, owner and
\* administrator, the state keeps its shape; in particular an admission only
\* ensures the CredentialsBinding of a Secret it has listed or created.
THEOREM TypeCorrect == Spec => []TypeOK
BY InitTypes, StepTypes, PTL DEF Spec

HIDE DEF SharedTypeOK, WorkerTypeOK, ShootWorkerTypeOK, AdmissionTypeOK

-----------------------------------------------------------------------------
(* What a step does to a Secret.                                           *)

Unchanged(s) == secret'[s] = secret[s]

Finalized(s) ==
    /\ secret[s].stage = "live" /\ secret'[s].stage = "live" /\ secret'[s].fin
    /\ secret'[s].created = secret[s].created

Created(s) ==
    NextSecret(s) /\ secret'[s].stage = "live" /\ secret'[s].created = now

Deleted(s) ==
    /\ secret[s].stage = "live"
    /\ secret'[s].stage = IF secret[s].fin THEN "terminating" ELSE "dropped"
    /\ secret'[s].created = secret[s].created
    /\ At(s, "deleteSelf") \/ ShootAt("deleteEach") \/ AllowManualDelete

Removed(s) ==
    /\ secret[s].stage = "terminating" /\ secret'[s].stage = "gone"
    /\ secret'[s].created = secret[s].created

SecretStep(s) == Unchanged(s) \/ Finalized(s) \/ Created(s) \/ Deleted(s) \/ Removed(s)

\* Deleting a Secret is a SecretStep of that Secret and of no other.
LEMMA DeleteStep ==
    ASSUME TypeOK, NEW s \in SecretId, DeleteSecret(s),
           At(s, "deleteSelf") \/ ShootAt("deleteEach") \/ AllowManualDelete
    PROVE  SecretStep(s) /\ \A t \in SecretId \ {s} : Unchanged(t)
<1>1. secret \in [SecretId -> SecretRecord]
  BY DEF TypeOK, SharedTypeOK
<1>2. secret'[s] = MarkDeleted(secret[s]) /\ \A t \in SecretId \ {s} : Unchanged(t)
  BY <1>1 DEF DeleteSecret, Unchanged
<1>3. secret[s] \in SecretRecord
  BY <1>1
<1>4. CASE secret[s].stage # "live"
  BY <1>2, <1>4 DEF MarkDeleted, SecretStep, Unchanged
<1>5. CASE secret[s].stage = "live" /\ secret[s].fin
  <2>1. secret'[s] = [secret[s] EXCEPT !.stage = "terminating"]
    BY <1>2, <1>5 DEF MarkDeleted
  <2> QED
    BY <2>1, <1>2, <1>3, <1>5 DEF SecretStep, Deleted, SecretRecord
<1>6. CASE secret[s].stage = "live" /\ ~secret[s].fin
  <2>1. secret'[s] = [secret[s] EXCEPT !.stage = "dropped"]
    BY <1>2, <1>6 DEF MarkDeleted
  <2> QED
    BY <2>1, <1>2, <1>3, <1>6 DEF SecretStep, Deleted, SecretRecord
<1> QED
  BY <1>4, <1>5, <1>6

\* So is creating one.
LEMMA StoreStep ==
    ASSUME TypeOK, NEW s \in SecretId, NEW p, StoreCredential(p, s)
    PROVE  Created(s) /\ \A t \in SecretId \ {s} : Unchanged(t)
<1>1. secret \in [SecretId -> SecretRecord]
  BY DEF TypeOK, SharedTypeOK
<1> QED
  BY <1>1 DEF StoreCredential, Created, Unchanged

\* A step changes one Secret at most, and not the clock with it.
SecretsStep ==
    \/ \A s \in SecretId : Unchanged(s)
    \/ /\ now' = now
       /\ \E s \in SecretId : SecretStep(s) /\ \A t \in SecretId \ {s} : Unchanged(t)

LEMMA Secrets ==
    ASSUME TypeOK, [Next]_vars
    PROVE  SecretsStep
<1>1. secret \in [SecretId -> SecretRecord]
  BY DEF TypeOK, SharedTypeOK
<1>2. ASSUME UNCHANGED secret PROVE SecretsStep
  BY <1>2 DEF SecretsStep, Unchanged
<1>3. ASSUME NEW s \in SecretId, StartReconcile(s) \/ CallOf(s) \/ Fail(s) PROVE SecretsStep
  <2>1. CASE AddFinalizer(s)
    <3>1. Finalized(s) /\ now' = now /\ \A t \in SecretId \ {s} : Unchanged(t)
      BY <1>1, <2>1 DEF AddFinalizer, Finalized, Unchanged, SecretRecord
    <3> QED
      BY <3>1 DEF SecretsStep, SecretStep
  <2>2. ASSUME NEW t \in SecretId, CreateNewSecret(s, t) PROVE SecretsStep
    <3>1. StoreCredential(s, t) /\ now' = now
      BY <2>2 DEF CreateNewSecret
    <3> QED
      BY <3>1, StoreStep DEF SecretsStep, SecretStep
  <2>3. CASE DeleteSelf(s)
    <3>1. DeleteSecret(s) /\ At(s, "deleteSelf") /\ now' = now
      BY <2>3 DEF DeleteSelf
    <3> QED
      BY <3>1, DeleteStep DEF SecretsStep
  <2>4. CASE RemoveFinalizer(s)
    <3>1. CASE secret[s].stage = "terminating"
      <4>1. Removed(s) /\ now' = now /\ \A t \in SecretId \ {s} : Unchanged(t)
        BY <1>1, <2>4, <3>1 DEF RemoveFinalizer, Removed, Unchanged, SecretRecord
      <4> QED
        BY <4>1 DEF SecretsStep, SecretStep
    <3> QED
      BY <3>1, <1>2, <2>4 DEF RemoveFinalizer
  <2>6. CASE StartReconcile(s) \/ Fail(s) \/ CheckUser(s)
    BY <1>2, <2>6 DEF StartReconcile, Fail, CheckUser, sharedVars
  <2>7. CASE EnsureBinding(s) \/ DeleteBinding(s)
    BY <1>2, <2>7 DEF EnsureBinding, DeleteBinding
  <2>8. CASE EnsureUser(s) \/ CreateNewCredential(s) \/ LoginUser(s) \/ DeleteCredential(s) \/ DeleteUser(s)
    BY <1>2, <2>8 DEF EnsureUser, CreateNewCredential, LoginUser, DeleteCredential, DeleteUser, apiVars
  <2> QED
    BY <1>3, <2>1, <2>2, <2>3, <2>4, <2>6, <2>7, <2>8 DEF CallOf
<1>4. CASE ShootNext
  <2>1. ASSUME NEW s \in SecretId, DeleteListed(s) PROVE SecretsStep
    <3>1. DeleteSecret(s) /\ ShootAt("deleteEach") /\ now' = now
      BY <2>1 DEF DeleteListed
    <3> QED
      BY <3>1, DeleteStep DEF SecretsStep
  <2> QED
    BY <1>2, <1>4, <2>1 DEF ShootNext, ShootCall, StartShoot, AddShootFinalizer, PatchBinding, ListAllSecrets,
                            RemoveShootFinalizer, FailShoot, sharedVars
<1>5. ASSUME NEW h \in Admissions, RequestStep(h) PROVE SecretsStep
  <2>1. ASSUME NEW s \in SecretId, AdmissionCreateSecret(h, s) PROVE SecretsStep
    <3>1. StoreCredential(h, s) /\ now' = now
      BY <2>1 DEF AdmissionCreateSecret
    <3> QED
      BY <3>1, StoreStep DEF SecretsStep, SecretStep
  <2>2. CASE Arrive(h) \/ AdmissionFail(h)
    BY <1>2, <2>2 DEF Arrive, AdmissionFail, sharedVars
  <2>3. CASE \E workerless \in BOOLEAN : AdmissionEnsureUser(h, workerless)
    BY <1>2, <2>3 DEF AdmissionEnsureUser, apiVars
  <2>4. CASE \E answer \in 0..MaxSecrets : ListSecrets(h, answer)
    BY <1>2, <2>4 DEF ListSecrets, sharedVars
  <2>5. CASE AdmissionCreateCredential(h)
    BY <1>2, <2>5 DEF AdmissionCreateCredential, apiVars
  <2>6. CASE AdmissionEnsureBinding(h) \/ PersistShoot(h)
    BY <1>2, <2>6 DEF AdmissionEnsureBinding, PersistShoot
  <2> QED
    BY <1>5, <2>1, <2>2, <2>3, <2>4, <2>5, <2>6 DEF RequestStep, AdmissionStep
<1>6. CASE EnvironmentStep
  <2>1. ASSUME NEW s \in SecretId, AdministratorDeletesSecret(s) PROVE SecretsStep
    <3>1. DeleteSecret(s) /\ AllowManualDelete /\ now' = now
      BY <2>1 DEF AdministratorDeletesSecret
    <3> QED
      BY <3>1, DeleteStep DEF SecretsStep
  <2>2. CASE SyncSecrets \/ SyncShoot \/ Tick
    BY <1>2, <2>2 DEF SyncSecrets, SyncShoot, Tick, apiVars
  <2>3. CASE OwnerDeletesShoot \/ GardenerDeletesShoot \/ ShootVanishes
    BY <1>2, <2>3 DEF OwnerDeletesShoot, GardenerDeletesShoot, ShootVanishes
  <2> QED
    BY <1>6, <2>1, <2>2, <2>3 DEF EnvironmentStep
<1>7. CASE UNCHANGED vars
  BY <1>2, <1>7 DEF vars, sharedVars
<1> QED
  BY <1>3, <1>4, <1>5, <1>6, <1>7, StepCases

-----------------------------------------------------------------------------
(* What a step does to everything else.                                    *)

rest == <<secret, shoot, shootWorker, admission>>

SeenStep ==
    \/ UNCHANGED <<seen, seenShoot>>
    \/ seen' = secret /\ UNCHANGED <<rest, now, seenShoot, worker>>
    \/ seenShoot' = shoot /\ UNCHANGED <<rest, now, seen, worker>>

ClockStep == now' = now \/ (now' = now + 1 /\ Quiet /\ UNCHANGED <<rest, seen, seenShoot, worker>>)

PhaseStep ==
    \/ shoot'.phase = shoot.phase
    \/ /\ \/ shoot.phase \in {"none", "gone"} /\ shoot'.phase = "live" /\ ~AdmissionsIdle
          \/ shoot.phase = "live" /\ shoot'.phase = "deleting"
          \/ shoot.phase = "deleting" /\ shoot'.phase = "deleted" /\ AdmissionsIdle
          \/ shoot.phase = "deleted" /\ shoot'.phase = "gone"
       /\ UNCHANGED <<now, secret, seen, seenShoot, worker>>

AdmissionsStep ==
    ~AdmissionsIdle' =>
      \/ ~AdmissionsIdle
      \/ MayRequest /\ UNCHANGED <<sharedVars, worker, shootWorker>>

Deleting == ShootAt("listAll") \/ ShootAt("deleteEach")

DeletingStep ==
    /\ Deleting' => Deleting \/ (seenShoot.phase = "deleted" /\ UNCHANGED shoot)
    /\ ShootAt("idle") => ShootAt("idle")' \/ seenShoot.phase \in {"live", "deleted"}

WorkerFrame == UNCHANGED worker \/ UNCHANGED <<now, seen, seenShoot, shoot, shootWorker, admission>>

Frame == SeenStep /\ ClockStep /\ PhaseStep /\ AdmissionsStep /\ DeletingStep /\ WorkerFrame

\* The steps of the workers of the internalsecret controller.
LEMMA WorkerFrames ==
    ASSUME NEW s \in SecretId, StartReconcile(s) \/ CallOf(s) \/ Fail(s),
           UNCHANGED <<shootWorker, admission>>
    PROVE  Frame
<1>1. UNCHANGED <<now, seen, seenShoot, shoot>>
  <2>1. CASE StartReconcile(s) \/ Fail(s) \/ CheckUser(s)
    BY <2>1 DEF StartReconcile, Fail, CheckUser, sharedVars
  <2>2. CASE AddFinalizer(s) \/ EnsureBinding(s) \/ DeleteBinding(s) \/ DeleteSelf(s) \/ RemoveFinalizer(s)
    BY <2>2 DEF AddFinalizer, EnsureBinding, DeleteBinding, DeleteSelf, RemoveFinalizer, cacheVars
  <2>3. CASE EnsureUser(s) \/ CreateNewCredential(s) \/ LoginUser(s) \/ DeleteCredential(s) \/ DeleteUser(s)
    BY <2>3 DEF EnsureUser, CreateNewCredential, LoginUser, DeleteCredential, DeleteUser, apiVars, cacheVars
  <2>4. CASE \E t \in SecretId : CreateNewSecret(s, t)
    BY <2>4 DEF CreateNewSecret, cacheVars
  <2> QED
    BY <2>1, <2>2, <2>3, <2>4 DEF CallOf
<1> QED
  BY <1>1 DEF Frame, SeenStep, ClockStep, PhaseStep, AdmissionsStep, DeletingStep, WorkerFrame, Deleting,
              AdmissionsIdle, AdmissionAt, ShootAt

\* The steps of the shoot controller.
LEMMA ShootFrames ==
    ASSUME TypeOK, ShootNext, UNCHANGED <<worker, admission>>
    PROVE  Frame
<1>1. UNCHANGED <<now, seen, seenShoot>>
  BY DEF ShootNext, ShootCall, StartShoot, AddShootFinalizer, PatchBinding, ListAllSecrets, DeleteListed,
         RemoveShootFinalizer, FailShoot, sharedVars, cacheVars
<1>2. shoot'.phase = shoot.phase
  <2>1. shoot \in ShootRecord
    BY DEF TypeOK, SharedTypeOK
  <2> QED
    BY <2>1 DEF ShootNext, ShootCall, StartShoot, AddShootFinalizer, PatchBinding, ListAllSecrets, DeleteListed,
                RemoveShootFinalizer, FailShoot, sharedVars, ShootRecord
<1>3. DeletingStep
  <2>1. shootWorker \in ShootWorkerRecord
    BY DEF TypeOK, ShootWorkerTypeOK
  <2>2. \A obj, inWindow : AdoptNewest(obj, inWindow).pc \in {"idle", "patch"}
    BY DEF AdoptNewest, IdleShootWorker
  <2>3. ASSUME NEW inWindow \in BOOLEAN, StartShoot(inWindow) PROVE DeletingStep
    BY <2>2, <2>3 DEF DeletingStep, Deleting, ShootAt, StartShoot, sharedVars, IdleShootWorker
  <2>4. ASSUME NEW inWindow \in BOOLEAN, AddShootFinalizer(inWindow) PROVE DeletingStep
    BY <2>2, <2>4 DEF DeletingStep, Deleting, ShootAt, AddShootFinalizer
  <2>5. CASE PatchBinding \/ FailShoot \/ RemoveShootFinalizer
    BY <2>5 DEF DeletingStep, Deleting, ShootAt, PatchBinding, FailShoot, RemoveShootFinalizer, IdleShootWorker
  <2>6. CASE ListAllSecrets \/ \E s \in SecretId : DeleteListed(s)
    BY <2>6 DEF DeletingStep, Deleting, ShootAt, ListAllSecrets, DeleteListed
  <2> QED
    BY <2>3, <2>4, <2>5, <2>6 DEF ShootNext, ShootCall
<1> QED
  BY <1>1, <1>2, <1>3 DEF Frame, SeenStep, ClockStep, PhaseStep, AdmissionsStep, WorkerFrame, AdmissionsIdle, AdmissionAt

\* The steps of an admission.
LEMMA AdmissionFrames ==
    ASSUME TypeOK, NEW h \in Admissions, RequestStep(h), UNCHANGED <<worker, shootWorker>>
    PROVE  Frame
<1>1. UNCHANGED <<now, seen, seenShoot>>
  <2>1. CASE Arrive(h) \/ AdmissionFail(h) \/ AdmissionEnsureBinding(h) \/ PersistShoot(h)
    BY <2>1 DEF Arrive, AdmissionFail, AdmissionEnsureBinding, PersistShoot, sharedVars, cacheVars
  <2>2. CASE \/ \E workerless \in BOOLEAN : AdmissionEnsureUser(h, workerless)
             \/ AdmissionCreateCredential(h)
    BY <2>2 DEF AdmissionEnsureUser, AdmissionCreateCredential, cacheVars
  <2>3. CASE \E answer \in 0..MaxSecrets : ListSecrets(h, answer)
    BY <2>3 DEF ListSecrets, sharedVars
  <2>4. CASE \E s \in SecretId : AdmissionCreateSecret(h, s)
    BY <2>4 DEF AdmissionCreateSecret, cacheVars
  <2> QED
    BY <2>1, <2>2, <2>3, <2>4 DEF RequestStep, AdmissionStep
<1>2. PhaseStep
  <2>1. CASE PersistShoot(h)
    <3>1. ~AdmissionsIdle
      BY <2>1 DEF PersistShoot, AdmissionsIdle, AdmissionAt
    <3>2. shoot'.phase = "live" /\ shoot.phase \in {"none", "gone"} /\ UNCHANGED secret
      BY <2>1 DEF PersistShoot, NoShoot
    <3> QED
      BY <3>1, <3>2, <1>1 DEF PhaseStep
  <2>2. CASE Arrive(h) \/ AdmissionFail(h) \/ AdmissionEnsureBinding(h)
    BY <2>2 DEF PhaseStep, Arrive, AdmissionFail, AdmissionEnsureBinding, sharedVars
  <2>3. CASE \/ \E workerless \in BOOLEAN : AdmissionEnsureUser(h, workerless)
             \/ AdmissionCreateCredential(h)
    BY <2>3 DEF PhaseStep, AdmissionEnsureUser, AdmissionCreateCredential, apiVars
  <2>4. CASE \E answer \in 0..MaxSecrets : ListSecrets(h, answer)
    BY <2>4 DEF PhaseStep, ListSecrets, sharedVars
  <2>5. CASE \E s \in SecretId : AdmissionCreateSecret(h, s)
    BY <2>5 DEF PhaseStep, AdmissionCreateSecret
  <2> QED
    BY <2>1, <2>2, <2>3, <2>4, <2>5 DEF RequestStep, AdmissionStep
<1>3. AdmissionsStep
  <2>1. CASE MayRequest /\ Arrive(h)
    BY <2>1 DEF AdmissionsStep, Arrive, sharedVars
  <2>2. CASE AdmissionStep(h)
    <3>1. ~AdmissionAt(h, "idle")
      BY <2>2 DEF AdmissionStep, AdmissionEnsureUser, ListSecrets, AdmissionCreateCredential, AdmissionCreateSecret,
                  AdmissionEnsureBinding, PersistShoot, AdmissionFail, AdmissionAt
    <3> QED
      BY <3>1 DEF AdmissionsStep, AdmissionsIdle
  <2> QED
    BY <2>1, <2>2 DEF RequestStep
<1> QED
  BY <1>1, <1>2, <1>3 DEF Frame, SeenStep, ClockStep, DeletingStep, WorkerFrame, Deleting, ShootAt

\* The steps of the environment.
LEMMA EnvironmentFrames ==
    ASSUME TypeOK, EnvironmentStep
    PROVE  Frame
<1>1. UNCHANGED <<worker, shootWorker, admission>>
  BY DEF EnvironmentStep, SyncSecrets, SyncShoot, Tick, OwnerDeletesShoot, GardenerDeletesShoot,
         ShootVanishes, AdministratorDeletesSecret, controllerVars
<1>2. AdmissionsStep /\ DeletingStep /\ WorkerFrame
  BY <1>1 DEF AdmissionsStep, DeletingStep, WorkerFrame, Deleting, ShootAt, AdmissionsIdle, AdmissionAt
<1>3. CASE SyncSecrets
  BY <1>1, <1>2, <1>3 DEF Frame, SeenStep, ClockStep, PhaseStep, SyncSecrets, apiVars, rest
<1>4. CASE SyncShoot
  BY <1>1, <1>2, <1>4 DEF Frame, SeenStep, ClockStep, PhaseStep, SyncShoot, apiVars, rest
<1>5. CASE Tick
  BY <1>1, <1>2, <1>5 DEF Frame, SeenStep, ClockStep, PhaseStep, Tick, apiVars, cacheVars, rest
<1>6. CASE \E s \in SecretId : AdministratorDeletesSecret(s)
  <2>1. shoot'.phase = shoot.phase
    BY <1>6 DEF TypeOK, SharedTypeOK, ShootRecord, AdministratorDeletesSecret
  <2>2. UNCHANGED <<now, seen, seenShoot>>
    BY <1>6 DEF AdministratorDeletesSecret, cacheVars
  <2> QED
    BY <2>1, <2>2, <1>2 DEF Frame, SeenStep, ClockStep, PhaseStep
<1>7. CASE OwnerDeletesShoot \/ GardenerDeletesShoot \/ ShootVanishes
  <2>1. UNCHANGED <<now, secret, seen, seenShoot>>
    BY <1>7 DEF OwnerDeletesShoot, GardenerDeletesShoot, ShootVanishes, cacheVars
  <2>2. PhaseStep
    BY <1>1, <2>1, <1>7 DEF PhaseStep, TypeOK, SharedTypeOK, ShootRecord, OwnerDeletesShoot, GardenerDeletesShoot,
                             ShootVanishes, NoShoot
  <2> QED
    BY <2>1, <2>2, <1>2 DEF Frame, SeenStep, ClockStep
<1> QED
  BY <1>3, <1>4, <1>5, <1>6, <1>7 DEF EnvironmentStep

LEMMA Frames ==
    ASSUME TypeOK, [Next]_vars
    PROVE  Frame
<1>1. CASE UNCHANGED vars
  BY <1>1 DEF Frame, SeenStep, ClockStep, PhaseStep, AdmissionsStep, DeletingStep, WorkerFrame, Deleting, ShootAt,
              AdmissionsIdle, AdmissionAt, vars, sharedVars
<1> QED
  BY <1>1, StepCases, WorkerFrames, ShootFrames, AdmissionFrames, EnvironmentFrames

-----------------------------------------------------------------------------
(* How a worker of the internalsecret controller moves.                    *)

Idles(s) == worker'[s].pc = "idle"

Starts(s) ==
    /\ seen[s].stage = "live" /\ seen[s].fin /\ UNCHANGED secret
    /\ worker'[s].pc = RegularCall(s, ShootExists(seenShoot))

StartsNew(s) ==
    /\ seen[s].stage = "live" /\ UNCHANGED secret
    /\ worker'[s].pc = "addFinalizer" /\ worker'[s].shoot = ShootExists(seenShoot)

Continues(s) ==
    /\ At(s, "addFinalizer") /\ secret'[s].fin
    /\ worker'[s].pc = RegularCall(s, worker[s].shoot)

Renews(s) ==
    /\ worker[s].pc \in {"ensureUser", "createCredential"} /\ UNCHANGED secret
    /\ worker'[s].pc \in {"createCredential", "createSecret"}

Renewed(s) ==
    /\ At(s, "createSecret") /\ \E t \in SecretId : Created(t)
    /\ worker'[s].pc = AfterRotation(s)

StartsCleanup(s) ==
    seen[s].stage = "terminating" /\ worker'[s].pc = "deleteBinding" /\ UNCHANGED secret

CleansUp(s) ==
    /\ worker[s].pc \in CleanupPc /\ UNCHANGED secret
    /\ worker'[s].pc \in CleanupPc \ {"deleteUser"} \/ worker'[s].pc = CallAfterCredential(s)

WorkerStep(s) ==
    \/ Idles(s) \/ Starts(s) \/ StartsNew(s) \/ Continues(s) \/ Renews(s) \/ Renewed(s)
    \/ StartsCleanup(s) \/ CleansUp(s)

WorkersStep ==
    \/ UNCHANGED worker
    \/ \E s \in SecretId : WorkerStep(s) /\ \A t \in SecretId \ {s} : worker'[t] = worker[t]

LEMMA WorkerMoves ==
    ASSUME TypeOK, NEW s \in SecretId, StartReconcile(s) \/ CallOf(s) \/ Fail(s)
    PROVE  WorkerStep(s) /\ \A t \in SecretId \ {s} : worker'[t] = worker[t]
<1>1. worker \in [SecretId -> WorkerRecord]
  BY DEF TypeOK, WorkerTypeOK
<1>2. \A pc : Goto(s, pc) => worker'[s].pc = pc /\ \A t \in SecretId \ {s} : worker'[t] = worker[t]
  BY <1>1 DEF Goto, IdleWorker
<1> DEFINE Moves == WorkerStep(s) /\ \A t \in SecretId \ {s} : worker'[t] = worker[t]
<1>3. CASE StartReconcile(s)
  <2>1. UNCHANGED secret
    BY <1>3 DEF StartReconcile, sharedVars
  <2>2. CASE seen[s].stage = "live" /\ seen[s].fin /\ Goto(s, RegularCall(s, ShootExists(seenShoot)))
    BY <2>1, <2>2, <1>2 DEF WorkerStep, Starts
  <2>3. CASE /\ seen[s].stage = "live"
             /\ worker' = [worker EXCEPT ![s] = [pc |-> "addFinalizer", shoot |-> ShootExists(seenShoot)]]
    BY <2>1, <2>3, <1>1 DEF WorkerStep, StartsNew
  <2>4. CASE seen[s].stage = "terminating" /\ Goto(s, "deleteBinding")
    BY <2>1, <2>4, <1>2 DEF WorkerStep, StartsCleanup
  <2> QED
    BY <1>3, <2>2, <2>3, <2>4 DEF StartReconcile
<1>4. CASE AddFinalizer(s)
  <2>1. secret'[s].fin
    BY <1>4 DEF AddFinalizer, TypeOK, SharedTypeOK, SecretRecord
  <2> QED
    BY <2>1, <1>2, <1>4 DEF AddFinalizer, WorkerStep, Continues
<1>5. CASE EnsureBinding(s) \/ DeleteSelf(s) \/ RemoveFinalizer(s) \/ Fail(s)
  BY <1>2, <1>5 DEF EnsureBinding, DeleteSelf, RemoveFinalizer, Fail, WorkerStep, Idles
<1>6. CASE EnsureUser(s) \/ CreateNewCredential(s)
  BY <1>2, <1>6 DEF EnsureUser, CreateNewCredential, WorkerStep, Renews, At, apiVars
<1>7. CASE \E t \in SecretId : CreateNewSecret(s, t)
  <2>1. PICK t \in SecretId : CreateNewSecret(s, t)
    BY <1>7
  <2>2. Created(t)
    BY <2>1, StoreStep DEF CreateNewSecret
  <2> QED
    BY <2>1, <2>2, <1>2 DEF CreateNewSecret, WorkerStep, Renewed
<1>8. CASE DeleteBinding(s) \/ LoginUser(s) \/ DeleteUser(s)
  BY <1>2, <1>8 DEF DeleteBinding, LoginUser, DeleteUser, WorkerStep, CleansUp, At, apiVars, CleanupPc
<1>9. CASE CheckUser(s)
  <2>1. worker[s].pc \in CleanupPc /\ UNCHANGED secret
    BY <1>9 DEF CheckUser, At, CleanupPc, sharedVars
  <2>2. CASE Goto(s, "loginUser")
    BY <2>1, <2>2, <1>2 DEF WorkerStep, CleansUp, CleanupPc
  <2>3. CASE Goto(s, CallAfterCredential(s))
    BY <2>1, <2>3, <1>2 DEF WorkerStep, CleansUp
  <2> QED
    BY <1>9, <2>2, <2>3 DEF CheckUser
<1>10. CASE DeleteCredential(s)
  <2>1. worker[s].pc \in CleanupPc /\ UNCHANGED secret
    BY <1>10 DEF DeleteCredential, At, CleanupPc, apiVars
  <2> QED
    BY <2>1, <1>2, <1>10 DEF DeleteCredential, WorkerStep, CleansUp
<1> QED
  BY <1>3, <1>4, <1>5, <1>6, <1>7, <1>8, <1>9, <1>10 DEF CallOf

LEMMA WorkersMove ==
    ASSUME TypeOK, [Next]_vars
    PROVE  WorkersStep
<1>1. CASE UNCHANGED worker
  BY <1>1 DEF WorkersStep
<1>2. ASSUME NEW s \in SecretId, StartReconcile(s) \/ CallOf(s) \/ Fail(s) PROVE WorkersStep
  BY <1>2, WorkerMoves DEF WorkersStep
<1>3. CASE EnvironmentStep
  BY <1>1, <1>3 DEF EnvironmentStep, SyncSecrets, SyncShoot, Tick, OwnerDeletesShoot,
                    GardenerDeletesShoot, ShootVanishes, AdministratorDeletesSecret, controllerVars
<1> QED
  BY <1>1, <1>2, <1>3, StepCases DEF vars

-----------------------------------------------------------------------------
(* The parts of Inv about the order of events.                             *)

\* What happens to one Secret, without the steps of the others.
LEMMA EachSecret ==
    ASSUME TypeOK, [Next]_vars, NEW s \in SecretId
    PROVE  SecretStep(s)
BY Secrets DEF SecretsStep, SecretStep

LEMMA Types ==
    ASSUME TypeOK, NEW s \in SecretId
    PROVE  /\ secret[s].stage \in Stage /\ secret[s].created \in Nat /\ secret[s].fin \in BOOLEAN
           /\ seen[s].stage \in Stage /\ seen[s].fin \in BOOLEAN
           /\ now \in Nat /\ s \in Nat
           /\ worker[s].pc \in {"idle"} \cup RegularPc \cup CleanupPc
BY ConstantsAssumption
   DEF TypeOK, SharedTypeOK, WorkerTypeOK, SecretRecord, WorkerRecord, SecretId

\* A Secret that changes was not at its end, and a created one did not exist.
LEMMA LagStep ==
    ASSUME Inv, [Next]_vars
    PROVE  Lag'
<1> SUFFICES ASSUME NEW s \in SecretId
             PROVE  /\ seen'[s].stage = "live" => secret'[s].stage # "none"
                    /\ seen'[s].stage = "terminating" => secret'[s].stage \in {"terminating", "gone"}
                    /\ seen'[s].stage \in Ended => secret'[s].stage = seen'[s].stage
                    /\ seen'[s].stage = "live" /\ seen'[s].fin /\ secret'[s].stage = "live" => secret'[s].fin
  BY DEF Lag
<1>1. TypeOK /\ Lag
  BY DEF Inv
<1>2. SecretStep(s) /\ SeenStep
  BY <1>1, EachSecret, Frames DEF Frame
<1>3. CASE UNCHANGED seen
  BY <1>1, <1>2, <1>3
     DEF Lag, SecretStep, Unchanged, Finalized, Created, Deleted, Removed, NextSecret, Ended
<1>4. CASE seen' = secret /\ UNCHANGED secret
  BY <1>4 DEF Ended
<1> QED
  BY <1>2, <1>3, <1>4 DEF SeenStep, rest

LEMMA ShootLagStep ==
    ASSUME Inv, Orderly, [Next]_vars
    PROVE  ShootLag'
<1>1. TypeOK /\ ShootLag /\ Asking
  BY DEF Inv
<1>2. PhaseStep /\ SeenStep /\ DeletingStep /\ shoot.phase \in Phase
  BY <1>1, Frames DEF Frame, TypeOK, SharedTypeOK, ShootRecord
<1>3. shoot.phase = "gone" /\ ~AdmissionsIdle => seenShoot.phase = "gone" /\ ~Deleting
  BY <1>1 DEF Asking, NothingLeft, InUse, Deleting, ShootAt
<1>4. CASE shoot'.phase = shoot.phase
  <2>1. seenShoot' = seenShoot \/ seenShoot'.phase = shoot.phase
    BY <1>2 DEF SeenStep
  <2>2. Deleting' => shoot.phase \in {"deleted", "gone"}
    BY <1>1, <1>2 DEF ShootLag, DeletingStep, Deleting, Phase
  <2> QED
    BY <2>1, <2>2, <1>1, <1>4 DEF ShootLag, Deleting
<1>5. CASE shoot'.phase # shoot.phase
  <2>1. seenShoot' = seenShoot
    BY <1>2, <1>5 DEF PhaseStep
  <2>2. Deleting' => shoot.phase \in {"deleted", "gone"}
    BY <1>1, <1>2, <1>5 DEF ShootLag, DeletingStep, Deleting, Phase
  <2>3. Deleting' => Deleting
    BY <1>2, <1>5 DEF DeletingStep
  <2> QED
    BY <2>1, <2>2, <2>3, <1>1, <1>2, <1>3, <1>5 DEF ShootLag, PhaseStep, Deleting
<1> QED
  BY <1>4, <1>5

LEMMA OrderedStep ==
    ASSUME Inv, [Next]_vars
    PROVE  Ordered' /\ CreatedInPast'
<1>1. TypeOK /\ Ordered /\ CreatedInPast
  BY DEF Inv
<1>2. now \in Nat /\ (now' = now \/ now' = now + 1)
  BY <1>1, Frames DEF Frame, ClockStep, TypeOK, SharedTypeOK
<1>3. ASSUME NEW s \in SecretId
      PROVE  /\ secret'[s].created \in Nat
             /\ \/ secret'[s].created = secret[s].created /\ (secret[s].stage # "none" <=> secret'[s].stage # "none")
                \/ Created(s)
  BY <1>1, <1>2, EachSecret, Types
     DEF SecretStep, Unchanged, Finalized, Created, Deleted, Removed
<1>4. CreatedInPast'
  <2> SUFFICES ASSUME NEW s \in SecretId PROVE secret'[s].created =< now'
    BY DEF CreatedInPast
  <2>1. secret'[s].created = secret[s].created \/ secret'[s].created = now
    BY <1>3 DEF Created
  <2> QED
    BY <2>1, <1>1, <1>2, Types DEF CreatedInPast
<1>5. Ordered'
  <2> SUFFICES ASSUME NEW s \in SecretId, NEW t \in SecretId, s < t, secret'[t].stage # "none"
               PROVE  secret'[s].stage # "none" /\ secret'[s].created =< secret'[t].created
    BY DEF Ordered
  <2>1. CASE secret[t].stage # "none"
    <3>1. secret[s].stage # "none" /\ secret[s].created =< secret[t].created
      BY <2>1, <1>1 DEF Ordered
    <3> QED
      BY <3>1, <2>1, <1>3 DEF Created, NextSecret
  <2>2. CASE Created(t)
    <3>1. secret[s].stage # "none"
      BY <2>2 DEF Created, NextSecret
    <3>2. secret'[s].stage # "none" /\ secret'[s].created = secret[s].created
      BY <3>1, <1>3 DEF Created, NextSecret
    <3> QED
      BY <3>2, <2>2, <1>1 DEF Created, CreatedInPast
  <2> QED
    BY <2>1, <2>2, <1>3
<1> QED
  BY <1>4, <1>5

-----------------------------------------------------------------------------
(* What the decisions of the internalsecret controller rest on.            *)

LEMMA ExpiredIsOld ==
    ASSUME TypeOK, NEW s \in SecretId
    PROVE  Expired(s) => PastRenewTime(s) /\ ~Young(s)
<1>1. Age(s) \in Int
  BY Types DEF Age
<1> QED
  BY <1>1, ConstantsAssumption DEF Expired, PastRenewTime, Young

LEMMA RotationDecision ==
    ASSUME TypeOK, NEW s \in SecretId
    PROVE  /\ AfterRotation(s) \in {"deleteSelf", "idle"}
           /\ AfterRotation(s) = "deleteSelf" => ~Young(s) /\ Expired(s)
<1>1. Expired(s) => ~Young(s)
  BY ExpiredIsOld
<1> QED
  BY <1>1 DEF AfterRotation

LEMMA RegularDecision ==
    ASSUME TypeOK, NEW s \in SecretId, NEW shootExists
    PROVE  /\ RegularCall(s, shootExists) \in (RegularPc \ {"addFinalizer"}) \cup {"idle"}
           /\ RegularCall(s, shootExists) = "deleteSelf"
              => /\ ~Young(s)
                 /\ ~shootExists \/ (Expired(s) /\ \E t \in Existing(seen) : CreatedAfterRenewTime(t, s))
           /\ RegularCall(s, shootExists) \in {"ensureUser", "createCredential", "createSecret"} => PastRenewTime(s)
<1>1. Age(s) > Grace => ~Young(s)
  BY Types, ConstantsAssumption DEF Age, Young
<1> QED
  BY <1>1, RotationDecision DEF RegularCall, RegularPc

LEMMA OwnerDecision ==
    ASSUME NEW s \in SecretId
    PROVE  /\ CallAfterCredential(s) \in {"idle", "removeFinalizer", "deleteUser"}
           /\ CallAfterCredential(s) = "deleteUser" => Existing(seen) = {s}
BY DEF CallAfterCredential

\* One worker moves at most.
LEMMA EachWorker ==
    ASSUME TypeOK, [Next]_vars, NEW s \in SecretId
    PROVE  worker'[s] = worker[s] \/ WorkerStep(s)
BY WorkersMove DEF WorkersStep

\* While a Secret exists its credential only grows older.
LEMMA AgesOnly ==
    ASSUME TypeOK, [Next]_vars, NEW s \in SecretId, secret[s].stage # "none"
    PROVE  /\ secret'[s].created = secret[s].created
           /\ ~Young(s) => ~Young(s)'
           /\ PastRenewTime(s) => PastRenewTime(s)'
           /\ Expired(s) => Expired(s)'
           /\ now' = now => /\ Young(s) => Young(s)'
                            /\ ~Expired(s) => ~Expired(s)'
<1>1. secret'[s].created = secret[s].created
  BY EachSecret DEF SecretStep, Unchanged, Finalized, Created, Deleted, Removed, NextSecret
<1>2. now' = now \/ now' = now + 1
  BY Frames DEF Frame, ClockStep
<1>3. Age(s) \in Int /\ (Age(s)' = Age(s) \/ Age(s)' = Age(s) + 1) /\ (now' = now => Age(s)' = Age(s))
  BY <1>1, <1>2, Types DEF Age
<1> QED
  BY <1>1, <1>3, ConstantsAssumption DEF Young, PastRenewTime, Expired

\* A Secret just created is young.
LEMMA CreatedIsYoung ==
    ASSUME TypeOK, [Next]_vars, NEW s \in SecretId, Created(s), now' = now
    PROVE  Young(s)' /\ ~Expired(s)'
<1>1. Age(s)' = 0
  BY Types DEF Created, Age
<1> QED
  BY <1>1, ConstantsAssumption DEF Young, PastRenewTime, Expired

Renewing == {"ensureUser", "createCredential", "createSecret"}

LEMMA WorkersInvStep ==
    ASSUME Inv, [Next]_vars
    PROVE  Workers'
<1> SUFFICES ASSUME NEW s \in SecretId
             PROVE  /\ ~At(s, "idle")' => secret'[s].stage # "none"
                    /\ worker'[s].pc \in RegularPc \ {"addFinalizer"} /\ secret'[s].stage = "live" => secret'[s].fin
                    /\ At(s, "deleteSelf")' => ~Young(s)'
                    /\ worker'[s].pc \in Renewing => PastRenewTime(s)'
                    /\ worker'[s].pc \in CleanupPc => seen'[s].stage \in {"terminating", "gone"}
  BY DEF Workers, At, Renewing
<1>1. TypeOK /\ Workers /\ Lag
  BY DEF Inv
<1>2. /\ ~At(s, "idle") => secret[s].stage # "none"
      /\ worker[s].pc \in RegularPc \ {"addFinalizer"} /\ secret[s].stage = "live" => secret[s].fin
      /\ At(s, "deleteSelf") => ~Young(s)
      /\ worker[s].pc \in Renewing => PastRenewTime(s)
      /\ worker[s].pc \in CleanupPc => seen[s].stage \in {"terminating", "gone"}
  BY <1>1 DEF Workers, Renewing
<1>3. SecretStep(s) /\ SeenStep /\ ClockStep
  BY <1>1, EachSecret, Frames DEF Frame
<1>4. /\ secret[s].stage # "none" => secret'[s].stage # "none" /\ secret'[s].created = secret[s].created
      /\ secret[s].stage # "none" /\ secret'[s].stage = "live" => secret[s].stage = "live"
      /\ secret[s].stage = "live" /\ secret[s].fin /\ secret'[s].stage = "live" => secret'[s].fin
  BY <1>3 DEF SecretStep, Unchanged, Finalized, Created, Deleted, Removed, NextSecret
<1>5. seen[s].stage \in {"terminating", "gone"} => seen'[s].stage \in {"terminating", "gone"}
  BY <1>1, <1>3 DEF SeenStep, Lag, Ended
<1>6. CASE worker'[s] = worker[s]
  <2>1. secret[s].stage # "none" => (~Young(s) => ~Young(s)') /\ (PastRenewTime(s) => PastRenewTime(s)')
    BY <1>1, AgesOnly
  <2>2. ~At(s, "idle") => secret[s].stage # "none"
    BY <1>2
  <2>3. worker[s].pc = "deleteSelf" => worker[s].pc # "idle"
    OBVIOUS
  <2>4. worker[s].pc \in RegularPc \/ worker[s].pc \in Renewing => worker[s].pc # "idle"
    BY DEF RegularPc, Renewing
  <2> QED
    BY <2>1, <2>2, <2>3, <2>4, <1>2, <1>4, <1>5, <1>6 DEF At
<1>7. CASE WorkerStep(s) /\ worker'[s] # worker[s]
  <2>1. UNCHANGED <<now, seen, seenShoot>>
    BY <1>1, <1>7, Frames DEF Frame, WorkerFrame
  <2>a. secret[s].stage # "none" => (~Young(s) => ~Young(s)') /\ (PastRenewTime(s) => PastRenewTime(s)')
    BY <1>1, AgesOnly
  <2>2. CASE Idles(s)
    BY <2>2 DEF Idles, At, RegularPc, CleanupPc, Renewing
  <2>3. CASE Starts(s)
    <3>1. secret[s].stage # "none" /\ (secret[s].stage = "live" => secret[s].fin)
      BY <2>3, <1>1 DEF Starts, Lag
    <3>2. worker'[s].pc \notin CleanupPc
      BY <2>3, <1>1, RegularDecision DEF Starts, RegularPc, CleanupPc
    <3>3. (At(s, "deleteSelf")' => ~Young(s)) /\ (worker'[s].pc \in Renewing => PastRenewTime(s))
      BY <2>3, <1>1, RegularDecision DEF Starts, At, Renewing
    <3> QED
      BY <3>1, <3>2, <3>3, <2>1, <2>3, <2>a, <1>4 DEF Starts
  <2>4. CASE StartsNew(s)
    BY <2>4, <1>1 DEF StartsNew, Lag, At, RegularPc, CleanupPc, Renewing
  <2>5. CASE Continues(s)
    <3>1. secret[s].stage # "none" /\ secret'[s].fin
      BY <2>5, <1>2 DEF Continues, At
    <3>2. worker'[s].pc \notin CleanupPc
      BY <2>5, <1>1, RegularDecision DEF Continues, RegularPc, CleanupPc
    <3>3. (At(s, "deleteSelf")' => ~Young(s)) /\ (worker'[s].pc \in Renewing => PastRenewTime(s))
      BY <2>5, <1>1, RegularDecision DEF Continues, At, Renewing
    <3> QED
      BY <3>1, <3>2, <3>3, <2>1, <2>a, <1>4
  <2>6. CASE Renews(s)
    <3>1. secret[s].stage # "none" /\ PastRenewTime(s) /\ (secret[s].stage = "live" => secret[s].fin)
      BY <2>6, <1>2 DEF Renews, At, RegularPc, Renewing
    <3> QED
      BY <3>1, <2>6, <2>a DEF Renews, At, RegularPc, CleanupPc
  <2>7. CASE Renewed(s)
    <3>1. secret[s].stage # "none" /\ (secret[s].stage = "live" => secret[s].fin)
      BY <2>7, <1>2 DEF Renewed, At, RegularPc
    <3>2. At(s, "deleteSelf")' => ~Young(s)
      BY <2>7, <1>1, RotationDecision DEF Renewed, At
    <3>3. worker'[s].pc \notin CleanupPc /\ worker'[s].pc \notin Renewing
      BY <2>7, <1>1, RotationDecision DEF Renewed, CleanupPc, Renewing
    <3> QED
      BY <3>1, <3>2, <3>3, <2>1, <2>a, <1>4
  <2>8. CASE StartsCleanup(s)
    <3>1. secret[s].stage # "none"
      BY <2>8, <1>1 DEF StartsCleanup, Lag
    <3> QED
      BY <3>1, <2>1, <2>8 DEF StartsCleanup, At, RegularPc, Renewing
  <2>9. CASE CleansUp(s)
    <3>1. worker[s].pc \in CleanupPc /\ secret[s].stage # "none" /\ seen[s].stage \in {"terminating", "gone"}
      BY <2>9, <1>2 DEF CleansUp, At, CleanupPc
    <3>2. worker'[s].pc \notin RegularPc
      BY <2>9, OwnerDecision DEF CleansUp, RegularPc, CleanupPc
    <3> QED
      BY <3>1, <3>2, <2>1, <1>4 DEF At, RegularPc, Renewing
  <2> QED
    BY <1>7, <2>2, <2>3, <2>4, <2>5, <2>6, <2>7, <2>8, <2>9 DEF WorkerStep
<1> QED
  BY <1>1, <1>6, <1>7, EachWorker

-----------------------------------------------------------------------------
(* While somebody asks for the name.                                       *)

\* A Secret that has gone, as the operator knows, remains so.
LEMMA SettledStays ==
    ASSUME TypeOK, [Next]_vars, NEW s \in SecretId, Settled(s)
    PROVE  Settled(s)'
<1>1. secret'[s].stage = secret[s].stage
  BY EachSecret DEF Settled, SecretStep, Unchanged, Finalized, Created, Deleted, Removed, NextSecret
<1>2. seen'[s].stage = seen[s].stage
  BY <1>1, Frames DEF Settled, Frame, SeenStep, rest
<1>3. At(s, "idle")'
  BY EachWorker DEF Settled, WorkerStep, Idles, Starts, StartsNew, Continues, Renews, Renewed, StartsCleanup, CleansUp,
                    At, CleanupPc
<1> QED
  BY <1>1, <1>2, <1>3 DEF Settled

\* All Secrets stay young while the clock stands.
LEMMA AllYoungStep ==
    ASSUME TypeOK, [Next]_vars, AllYoung, now' = now
    PROVE  AllYoung'
<1> SUFFICES ASSUME NEW s \in SecretId PROVE Past(s)' \/ Young(s)'
  BY DEF AllYoung
<1>1. CASE Settled(s)
  BY <1>1, SettledStays DEF Past
<1>2. CASE secret[s].stage = "none"
  <2>1. Unchanged(s) \/ Created(s)
    BY <1>2, EachSecret DEF SecretStep, Finalized, Deleted, Removed
  <2> QED
    BY <2>1, <1>2, CreatedIsYoung DEF Unchanged, Past
<1>3. CASE Young(s) /\ secret[s].stage # "none"
  BY <1>3, AgesOnly
<1> QED
  BY <1>1, <1>2, <1>3 DEF AllYoung, Past

\* What the newest Secret of a list is.
LEMMA NewestIs ==
    ASSUME NEW view, NewestOrNone(view) \in SecretId
    PROVE  IsNewest(NewestOrNone(view), view)
BY NewestExists, ConstantsAssumption DEF NewestOrNone, SecretId

\* A worker moves by its own steps only, and so does an admission.
LEMMA WhoMoves ==
    ASSUME TypeOK, [Next]_vars, NEW s \in SecretId
    PROVE  worker'[s] = worker[s] \/ StartReconcile(s) \/ CallOf(s) \/ Fail(s)
<1>1. CASE EnvironmentStep \/ UNCHANGED vars
  BY <1>1 DEF EnvironmentStep, SyncSecrets, SyncShoot, Tick, OwnerDeletesShoot, GardenerDeletesShoot,
              ShootVanishes, AdministratorDeletesSecret, controllerVars, vars
<1> QED
  BY <1>1, StepCases, WorkerMoves

LEMMA WhoAsks ==
    ASSUME TypeOK, [Next]_vars, NEW h \in Admissions
    PROVE  admission'[h] = admission[h] \/ RequestStep(h)
<1>1. CASE EnvironmentStep \/ UNCHANGED vars
  BY <1>1 DEF EnvironmentStep, SyncSecrets, SyncShoot, Tick, OwnerDeletesShoot, GardenerDeletesShoot,
              ShootVanishes, AdministratorDeletesSecret, controllerVars, vars
<1>2. ASSUME NEW g \in Admissions, RequestStep(g) PROVE admission'[h] = admission[h] \/ g = h
  <2>1. \E r : admission' = [admission EXCEPT ![g] = r]
    BY <1>2 DEF RequestStep, AdmissionStep, Arrive, AdmissionEnsureUser, ListSecrets, AdmissionCreateCredential,
                AdmissionCreateSecret, AdmissionEnsureBinding, PersistShoot, AdmissionFail, AdmissionGoto
  <2> QED
    BY <2>1 DEF TypeOK, AdmissionTypeOK
<1> QED
  BY <1>1, <1>2, StepCases

\* A request comes across the newest Secret and the one it creates.
LEMMA CitedStep ==
    ASSUME TypeOK, [Next]_vars, NEW s \in SecretId, s \in Cited'
    PROVE  s \in Cited \/ IsNewest(s, secret) \/ Created(s)
<1>1. PICK h \in Admissions : ~AdmissionAt(h, "idle")' /\ s \in {admission'[h].newest, admission'[h].ref}
  BY DEF Cited, AdmissionAt
<1>2. admission[h] \in AdmissionRecord /\ admission \in [Admissions -> AdmissionRecord]
  BY DEF TypeOK, AdmissionTypeOK
<1>3. s # 0
  BY ConstantsAssumption DEF SecretId
<1>4. \A pc : AdmissionGoto(h, pc) => /\ admission'[h].newest = admission[h].newest
                                      /\ admission'[h].ref = admission[h].ref
  BY <1>2 DEF AdmissionGoto, AdmissionRecord
<1>5. ASSUME s = NewestOrNone(secret) PROVE IsNewest(s, secret)
  BY <1>5, NewestIs
<1>6. CASE admission'[h] = admission[h]
  BY <1>1, <1>6 DEF Cited, AdmissionAt
<1>7. CASE Arrive(h)
  BY <1>1, <1>2, <1>3, <1>5, <1>7 DEF Arrive
<1>8. CASE PersistShoot(h) \/ AdmissionFail(h)
  BY <1>1, <1>2, <1>8 DEF PersistShoot, AdmissionFail, IdleAdmission, AdmissionAt
<1>9. ASSUME ~AdmissionAt(h, "idle"), s \in {admission[h].newest, admission[h].ref} PROVE s \in Cited
  BY <1>9 DEF Cited
<1>10. CASE AdmissionEnsureBinding(h) \/ AdmissionCreateCredential(h)
            \/ \E workerless \in BOOLEAN : AdmissionEnsureUser(h, workerless)
  BY <1>1, <1>4, <1>9, <1>10
     DEF AdmissionEnsureBinding, AdmissionCreateCredential, AdmissionEnsureUser, AdmissionAt
<1>11. ASSUME NEW answer \in 0..MaxSecrets, ListSecrets(h, answer)
       PROVE  s \in Cited \/ IsNewest(s, secret)
  <2>1. ~AdmissionAt(h, "idle") /\ s \in {admission[h].newest, NewestOrNone(secret)}
    BY <1>1, <1>2, <1>11 DEF ListSecrets, AdmissionRecord, AdmissionAt
  <2> QED
    BY <2>1, <1>5, <1>9
<1>12. ASSUME NEW t \in SecretId, AdmissionCreateSecret(h, t)
       PROVE  s \in Cited \/ Created(s)
  <2>1. Created(t)
    BY <1>12, StoreStep DEF AdmissionCreateSecret
  <2>2. ~AdmissionAt(h, "idle") /\ s \in {admission[h].newest, t}
    BY <1>1, <1>2, <1>12 DEF AdmissionCreateSecret, AdmissionRecord, AdmissionAt
  <2> QED
    BY <2>1, <2>2, <1>9
<1> QED
  BY <1>6, <1>7, <1>8, <1>10, <1>11, <1>12, WhoAsks DEF RequestStep, AdmissionStep

\* While the name is free the operator does nothing about a Secret that is
\* there, and the Shoot controller sleeps.
LEMMA NothingLeftStep ==
    ASSUME Inv, Orderly, [Next]_vars, NothingLeft, now' = now
    PROVE  /\ \A s \in SecretId : /\ secret'[s].stage = "none" \/ Settled(s)' \/ (secret'[s].stage = "live" /\ Young(s)' /\ ~Expired(s)')
                                  /\ secret[s].stage = "live" => secret'[s].stage = "live"
           /\ shoot'.phase = shoot.phase => NothingLeft'
<1>1. TypeOK
  BY DEF Inv
<1>2. ASSUME NEW s \in SecretId
      PROVE  /\ secret'[s].stage = "none" \/ Settled(s)' \/ (secret'[s].stage = "live" /\ Young(s)' /\ ~Expired(s)')
             /\ secret[s].stage = "live" => secret'[s].stage = "live"
  <2>1. CASE Settled(s)
    BY <2>1, <1>1, SettledStays DEF Settled
  <2>2. CASE secret[s].stage = "none"
    <3>1. Unchanged(s) \/ Created(s)
      BY <2>2, <1>1, EachSecret DEF SecretStep, Finalized, Deleted, Removed
    <3> QED
      BY <3>1, <2>2, <1>1, CreatedIsYoung DEF Unchanged, Created
  <2>3. CASE secret[s].stage = "live" /\ Young(s)
    <3>1. ~At(s, "deleteSelf")
      BY <2>3 DEF Inv, Workers
    <3>2. ~ShootAt("deleteEach")
      BY DEF Inv, ShootLag, NothingLeft, ShootAt
    <3>3. secret'[s].stage = "live"
      BY <3>1, <3>2, <2>3, <1>1, EachSecret
         DEF SecretStep, Unchanged, Finalized, Created, Deleted, Removed, Orderly
    <3> QED
      BY <3>3, <2>3, <1>1, AgesOnly, ExpiredIsOld
  <2> QED
    BY <2>1, <2>2, <2>3 DEF NothingLeft
<1>3. CASE shoot.phase = "none" /\ shoot'.phase = "none"
  BY <1>2, <1>3 DEF NothingLeft
<1>4. CASE shoot.phase = "gone" /\ shoot'.phase = "gone"
  <2>1. seenShoot'.phase = "gone" /\ ShootAt("idle")'
    BY <1>1, <1>4, Frames DEF Frame, SeenStep, DeletingStep, NothingLeft
  <2> QED
    BY <2>1, <1>2, <1>4 DEF NothingLeft
<1> QED
  BY <1>2, <1>3, <1>4 DEF NothingLeft

\* A live Secret that has not expired stays while the Shoot is in use.
LEMMA FreshStays ==
    ASSUME Inv, Orderly, InUse, [Next]_vars, now' = now, NEW s \in SecretId, secret[s].stage = "live", ~Expired(s)
    PROVE  secret'[s].stage = "live" /\ ~Expired(s)'
<1>1. TypeOK
  BY DEF Inv
<1>2. ~At(s, "deleteSelf")
  BY DEF Inv, InUseInv, Settled
<1>3. ~ShootAt("deleteEach")
  BY DEF Inv, ShootLag, InUse
<1>4. secret'[s].stage = "live"
  BY <1>1, <1>2, <1>3, EachSecret DEF SecretStep, Unchanged, Finalized, Created, Deleted, Removed, Orderly
<1> QED
  BY <1>1, <1>4, AgesOnly

\* So the newest Secret remains the newest until a younger one is created.
LEMMA NewestFresh ==
    ASSUME Inv, Orderly, InUse, [Next]_vars, now' = now,
           \A s \in SecretId : IsNewest(s, secret) => ~Expired(s),
           NEW t \in SecretId, IsNewest(t, secret)'
    PROVE  ~Expired(t)'
<1>1. TypeOK /\ InUseInv
  BY DEF Inv
<1>2. secret'[t].stage \in {"live", "terminating"} /\ \A u \in Existing(secret)' : u =< t
  BY DEF IsNewest, Existing
<1>3. CASE Existing(secret) = {}
  <2>1. Created(t)
    BY <1>1, <1>2, <1>3, EachSecret
       DEF Existing, SecretStep, Unchanged, Finalized, Deleted, Removed
  <2> QED
    BY <2>1, <1>1, CreatedIsYoung
<1>4. CASE Existing(secret) # {}
  <2>1. PICK s \in SecretId : IsNewest(s, secret)
    BY <1>4, NewestExists
  <2>2. secret[s].stage = "live" /\ ~Expired(s)
    <3>1. ~Expired(s) /\ secret[s].stage \in {"live", "terminating"}
      BY <2>1 DEF IsNewest, Existing
    <3> QED
      BY <3>1, <1>1 DEF InUseInv, Settled
  <2>3. secret'[s].stage = "live" /\ ~Expired(s)'
    BY <2>2, FreshStays
  <2>4. s =< t
    BY <2>3, <1>2 DEF Existing
  <2>5. CASE t = s
    BY <2>3, <2>5
  <2>6. CASE t # s
    <3>1. t \notin Existing(secret)
      BY <2>1, <2>4, <2>6, <1>1, Types DEF IsNewest
    <3>2. Created(t)
      BY <3>1, <1>1, <1>2, EachSecret DEF Existing, SecretStep, Unchanged, Finalized, Deleted, Removed
    <3> QED
      BY <3>2, <1>1, CreatedIsYoung
  <2> QED
    BY <2>5, <2>6
<1> QED
  BY <1>3, <1>4

LEMMA AskingStep ==
    ASSUME Inv, Orderly, [Next]_vars
    PROVE  Asking'
<1>1. TypeOK /\ Asking /\ InUseInv
  BY DEF Inv
<1>2. PhaseStep /\ ClockStep /\ AdmissionsStep
  BY <1>1, Frames DEF Frame
<1> DEFINE Fresh == \A s \in SecretId : s \in Cited \/ IsNewest(s, secret) => ~Expired(s)
<1>3. CASE AdmissionsIdle'
  BY <1>3 DEF Asking, Cited, AdmissionsIdle
<1>4. CASE ~AdmissionsIdle' /\ AdmissionsIdle
  <2>1. (NothingLeft \/ NameInUse) /\ UNCHANGED <<sharedVars, worker, shootWorker>>
    BY <1>2, <1>4 DEF AdmissionsStep, MayRequest, NameFree, Orderly
  <2>2. \A s \in SecretId : s \in Cited' => IsNewest(s, secret)
    <3>1. Cited = {}
      BY <1>4 DEF Cited, AdmissionsIdle
    <3>2. \A s \in SecretId : ~Created(s)
      BY <2>1 DEF Created, NextSecret, sharedVars
    <3> QED
      BY <3>1, <3>2, <1>1, CitedStep
  <2>3. CASE NothingLeft
    <3>1. NothingLeft'
      BY <2>1, <2>3 DEF NothingLeft, Settled, Young, Age, PastRenewTime, At, ShootAt, sharedVars
    <3>2. \A s \in SecretId : IsNewest(s, secret) => secret'[s].stage = "live"
      BY <2>1, <2>3 DEF NothingLeft, Settled, IsNewest, Existing, sharedVars
    <3>3. \A s \in Cited' : s \in SecretId
      BY DEF Cited
    <3> QED
      BY <3>1, <3>2, <3>3, <2>2 DEF Asking
  <2>4. CASE NameInUse
    <3>1. \A s \in SecretId : IsNewest(s, secret) => ~Expired(s)' /\ secret'[s].stage = "live"
      <4> SUFFICES ASSUME NEW s \in SecretId, IsNewest(s, secret)
                   PROVE  ~Expired(s)' /\ secret'[s].stage = "live"
        OBVIOUS
      <4>1. ~Expired(s) /\ secret[s].stage \in {"live", "terminating"} /\ InUse
        BY <2>4 DEF NameInUse, IsNewest, Existing
      <4>2. secret[s].stage = "live"
        BY <4>1, <1>1 DEF InUseInv, Settled
      <4> QED
        BY <4>1, <4>2, <2>1 DEF Expired, Age, sharedVars
    <3>2. InUse' /\ \A s \in SecretId : IsNewest(s, secret)' => IsNewest(s, secret)
      BY <2>1, <2>4 DEF NameInUse, InUse, IsNewest, Existing, sharedVars
    <3>3. \A s \in Cited' : s \in SecretId
      BY DEF Cited
    <3> QED
      BY <3>1, <3>2, <3>3, <2>2 DEF Asking
  <2> QED
    BY <2>1, <2>3, <2>4
<1>5. CASE ~AdmissionsIdle
  <2>1. now' = now
    BY <1>2, <1>5 DEF ClockStep, Quiet
  <2>2. \A s \in Cited' : s \in SecretId /\ (s \in Cited \/ IsNewest(s, secret) \/ Created(s))
    <3>1. \A s \in Cited' : s \in SecretId
      BY DEF Cited
    <3> QED
      BY <3>1, <1>1, CitedStep
  <2>3. \A s \in SecretId : Created(s) => secret'[s].stage = "live" /\ ~Expired(s)'
    BY <2>1, <1>1, CreatedIsYoung DEF Created
  <2>4. CASE NothingLeft
    <3>1. \A s \in SecretId : s \in Cited \/ IsNewest(s, secret) => secret'[s].stage = "live"
      <4>1. \A s \in SecretId : s \in Cited \/ IsNewest(s, secret) => secret[s].stage = "live"
        BY <2>4, <1>1 DEF Asking, NothingLeft, Settled, IsNewest, Existing
      <4> QED
        BY <4>1, <2>1, <2>4, NothingLeftStep
    <3>2. \A s \in Cited' : secret'[s].stage = "live"
      BY <3>1, <2>2, <2>3
    <3>3. CASE shoot'.phase = shoot.phase
      BY <3>2, <3>3, <2>1, <2>4, NothingLeftStep DEF Asking
    <3>4. CASE shoot'.phase # shoot.phase
      <4>1. InUse'
        BY <3>4, <2>4, <1>2 DEF PhaseStep, NothingLeft, InUse
      <4>2. \A s \in SecretId : secret'[s].stage = "live" => ~Expired(s)'
        BY <2>1, <2>4, NothingLeftStep DEF Settled
      <4>3. \A s \in SecretId : IsNewest(s, secret)' => secret'[s].stage = "live"
        <5>1. \A s \in SecretId : IsNewest(s, secret)' => secret'[s].stage \in {"live", "terminating"}
          BY DEF IsNewest, Existing
        <5> QED
          BY <5>1, <2>1, <2>4, NothingLeftStep DEF Settled
      <4> QED
        BY <4>1, <4>2, <4>3, <3>2 DEF Asking
    <3> QED
      BY <3>3, <3>4
  <2>5. CASE InUse /\ Fresh
    <3>1. \A s \in SecretId : s \in Cited \/ IsNewest(s, secret) => secret'[s].stage = "live" /\ ~Expired(s)'
      <4> SUFFICES ASSUME NEW s \in SecretId, s \in Cited \/ IsNewest(s, secret)
                   PROVE  secret'[s].stage = "live" /\ ~Expired(s)'
        OBVIOUS
      <4>1. ~Expired(s)
        BY <2>5
      <4>2. secret[s].stage = "live"
        BY <4>1, <2>5, <1>1 DEF Asking, InUseInv, Settled, IsNewest, Existing
      <4> QED
        BY <4>1, <4>2, <2>1, <2>5, FreshStays
    <3>2. \A s \in Cited' : s \in SecretId /\ secret'[s].stage = "live" /\ ~Expired(s)'
      BY <3>1, <2>2, <2>3
    <3>3. InUse'
      BY <2>5, <1>2, <1>5 DEF PhaseStep, InUse
    <3>4. \A t \in SecretId : IsNewest(t, secret)' => ~Expired(t)'
      BY <2>1, <2>5, NewestFresh
    <3> QED
      BY <3>2, <3>3, <3>4 DEF Asking
  <2> QED
    BY <2>4, <2>5, <1>1, <1>5 DEF Asking
<1> QED
  BY <1>3, <1>4, <1>5

-----------------------------------------------------------------------------
(* While the Shoot is in use.                                              *)

LEMMA InUseStep ==
    ASSUME Inv, Orderly, [Next]_vars, InUse'
    PROVE  \/ InUse
           \/ UNCHANGED <<now, secret, seen, seenShoot, worker>> /\ NothingLeft
<1>1. TypeOK /\ Asking
  BY DEF Inv
<1>2. PhaseStep
  BY <1>1, Frames DEF Frame
<1> QED
  BY <1>1, <1>2 DEF PhaseStep, InUse, Asking

\* What is going, or about to delete itself, has a younger Secret that stays.
Follower(s) == \E t \in SecretId : t > s /\ secret[t].stage = "live"

LEMMA LiveStep ==
    ASSUME Inv, Orderly, InUse, [Next]_vars, NEW s \in SecretId
    PROVE  /\ secret[s].stage = "live" => secret'[s].stage \in {"live", "terminating"}
           /\ secret[s].stage = "live" /\ secret'[s].stage # "live" => At(s, "deleteSelf")
           /\ secret[s].stage # "dropped" => secret'[s].stage # "dropped"
           /\ secret'[s].stage \in {"terminating", "gone"}
              => secret[s].stage \in {"terminating", "gone"} \/ At(s, "deleteSelf")
<1>1. TypeOK
  BY DEF Inv
<1>2. ~ShootAt("deleteEach") /\ ~AllowManualDelete
  BY DEF Inv, ShootLag, InUse, Orderly
<1>3. At(s, "deleteSelf") /\ secret[s].stage = "live" => secret[s].fin
  BY DEF Inv, Workers, At, RegularPc
<1>4. SecretStep(s)
  BY <1>1, EachSecret
<1> QED
  BY <1>2, <1>3, <1>4 DEF SecretStep, Unchanged, Finalized, Created, Deleted, Removed, NextSecret

\* A follower that goes has a follower itself.
LEMMA FollowerStep ==
    ASSUME Inv, Orderly, InUse, [Next]_vars, NEW s \in SecretId, Follower(s)
    PROVE  Follower(s)'
<1>1. TypeOK /\ InUseInv
  BY DEF Inv
<1>2. PICK t \in SecretId : t > s /\ secret[t].stage = "live"
  BY DEF Follower
<1>3. CASE secret'[t].stage = "live"
  BY <1>2, <1>3 DEF Follower
<1>4. CASE secret'[t].stage # "live"
  <2>1. At(t, "deleteSelf")
    BY <1>2, <1>4, LiveStep
  <2>2. PICK u \in SecretId : u > t /\ secret[u].stage = "live"
    BY <2>1, <1>1 DEF InUseInv
  <2>3. secret'[u] = secret[u]
    <3>1. secret'[t] # secret[t] /\ u # t
      BY <1>2, <1>4, <2>2, Types, <1>1
    <3> QED
      BY <3>1, <1>1, Secrets DEF SecretsStep, Unchanged
  <2>4. u > s
    BY <1>1, <1>2, <2>2, Types
  <2> QED
    BY <2>2, <2>3, <2>4 DEF Follower
<1> QED
  BY <1>3, <1>4

\* The Secrets that go.
DroppedIsSettled == \A s \in SecretId : secret[s].stage = "dropped" => Settled(s)

LEMMA SucceededStep ==
    ASSUME Inv, Orderly, InUse, [Next]_vars
    PROVE  DroppedIsSettled' /\ Succeeded(secret)' /\ Succeeded(seen)'
<1>1. TypeOK /\ InUseInv
  BY DEF Inv
<1>a. \A s \in SecretId : ~Settled(s)' => ~Settled(s)
  BY <1>1, SettledStays
<1>2. DroppedIsSettled'
  BY <1>1, <1>a, LiveStep DEF DroppedIsSettled, InUseInv
<1>3. Succeeded(secret)'
  <2> SUFFICES ASSUME NEW s \in SecretId, secret'[s].stage \in {"terminating", "gone"}, ~Settled(s)'
               PROVE  Follower(s)'
    BY DEF Succeeded, Follower
  <2>1. secret[s].stage \in {"terminating", "gone"} \/ At(s, "deleteSelf")
    BY LiveStep
  <2>2. Follower(s)
    BY <2>1, <1>1, <1>a DEF InUseInv, Succeeded, Follower
  <2> QED
    BY <2>2, FollowerStep
<1>4. Succeeded(seen)'
  <2>1. CASE UNCHANGED seen
    BY <2>1, <1>1, <1>a DEF InUseInv, Succeeded
  <2>2. CASE seen' = secret
    BY <2>2, <1>1, <1>a DEF InUseInv, Succeeded
  <2> QED
    BY <2>1, <2>2, <1>1, Frames DEF Frame, SeenStep
<1> QED
  BY <1>2, <1>3, <1>4

\* A Secret in the cache created after s's renew time means that s has a follower.
LEMMA RenewedHasFollower ==
    ASSUME Inv, InUse, NEW s \in SecretId, secret[s].stage # "none",
           NEW t \in Existing(seen), CreatedAfterRenewTime(t, s)
    PROVE  Follower(s)
<1>1. TypeOK /\ InUseInv /\ Lag /\ Ordered
  BY DEF Inv
<1>2. t \in SecretId /\ seen[t].stage \in {"live", "terminating"}
  BY DEF Existing
<1>3. secret[s].created < secret[t].created
  BY <1>1, <1>2, Types, ConstantsAssumption DEF CreatedAfterRenewTime
<1>4. t > s
  <2>1. ~ (t < s)
    BY <1>1, <1>2, <1>3, Types DEF Ordered
  <2>2. t # s
    BY <1>1, <1>3, Types
  <2> QED
    BY <2>1, <2>2, <1>1, <1>2, Types
<1>5. secret[t].stage \in {"live", "terminating", "gone"} /\ ~Settled(t)
  BY <1>1, <1>2, Types DEF Lag, InUseInv, Settled, Stage
<1>6. CASE secret[t].stage = "live"
  BY <1>2, <1>4, <1>6 DEF Follower
<1>7. CASE secret[t].stage # "live"
  <2>1. PICK u \in SecretId : u > t /\ secret[u].stage = "live"
    BY <1>1, <1>2, <1>5, <1>7 DEF InUseInv, Succeeded
  <2> QED
    BY <2>1, <1>1, <1>2, <1>4, Types DEF Follower
<1> QED
  BY <1>6, <1>7

\* Nothing is new enough to be overlooked and old enough to be deleted.
LEMMA RegularDeletesExpired ==
    ASSUME Inv, InUse, NEW s \in SecretId, NEW shootExists, ~Past(s),
           ~shootExists => ShootOverlooked, RegularCall(s, shootExists) = "deleteSelf"
    PROVE  Follower(s) /\ Expired(s)
<1>1. TypeOK /\ InUseInv
  BY DEF Inv
<1>2. ~Young(s)
  BY <1>1, RegularDecision
<1>3. shootExists
  BY <1>1, <1>2 DEF InUseInv, AllYoung
<1> QED
  BY <1>1, <1>3, RegularDecision, RenewedHasFollower DEF Past

\* A Secret about to delete itself has a follower.
LEMMA DeleteSelfStep ==
    ASSUME Inv, Orderly, InUse, [Next]_vars, NEW s \in SecretId, At(s, "deleteSelf")'
    PROVE  Follower(s)'
<1>1. TypeOK /\ InUseInv /\ Workers /\ Lag
  BY DEF Inv
<1>2. ASSUME Follower(s) PROVE Follower(s)'
  BY <1>2, FollowerStep
<1>3. CASE worker'[s] = worker[s]
  BY <1>1, <1>2, <1>3 DEF InUseInv, Follower, At
<1>4. CASE Starts(s)
  <2>1. ~Past(s)
    BY <1>1, <1>4 DEF Starts, Lag, Past, Settled
  <2>2. RegularCall(s, ShootExists(seenShoot)) = "deleteSelf"
    BY <1>4 DEF Starts, At
  <2> QED
    BY <2>1, <2>2, <1>2, RegularDeletesExpired DEF ShootOverlooked
<1>5. CASE Continues(s)
  <2>1. ~Past(s) /\ At(s, "addFinalizer")
    BY <1>1, <1>5 DEF Continues, Workers, At, Past, Settled
  <2>2. RegularCall(s, worker[s].shoot) = "deleteSelf"
    BY <1>5 DEF Continues, At
  <2> QED
    BY <2>1, <2>2, <1>2, RegularDeletesExpired DEF ShootOverlooked
<1>6. CASE Renewed(s)
  <2>1. PICK t \in SecretId : Created(t)
    BY <1>6 DEF Renewed
  <2>2. secret[s].stage # "none"
    BY <1>1, <1>6 DEF Renewed, Workers, At
  <2>3. t > s
    <3>1. t # s /\ ~ (t < s)
      BY <2>1, <2>2, <1>1 DEF Created, NextSecret, Inv, Ordered
    <3> QED
      BY <3>1, <1>1, Types
  <2> QED
    BY <2>1, <2>3 DEF Created, Follower
<1>7. CASE Idles(s) \/ StartsNew(s) \/ Renews(s) \/ StartsCleanup(s)
  BY <1>7 DEF Idles, StartsNew, Renews, StartsCleanup, At
<1>8. CASE CleansUp(s)
  BY <1>8, OwnerDecision DEF CleansUp, At, CleanupPc
<1> QED
  BY <1>1, <1>3, <1>4, <1>5, <1>6, <1>7, <1>8, EachWorker DEF WorkerStep

\* Only what has expired goes.
LEMMA ExpiredStep ==
    ASSUME Inv, Orderly, InUse, [Next]_vars, NEW s \in SecretId,
           secret'[s].stage \in {"terminating", "gone"} \/ At(s, "deleteSelf")'
    PROVE  Expired(s)' \/ Settled(s)'
<1>1. TypeOK /\ InUseInv /\ Workers /\ Lag
  BY DEF Inv
<1>2. ASSUME Expired(s) \/ Settled(s), secret[s].stage # "none" PROVE Expired(s)' \/ Settled(s)'
  BY <1>1, <1>2, AgesOnly, SettledStays
<1>3. CASE secret'[s].stage \in {"terminating", "gone"}
  <2>1. secret[s].stage \in {"terminating", "gone"} \/ At(s, "deleteSelf")
    BY <1>3, LiveStep
  <2> QED
    BY <2>1, <1>1, <1>2 DEF InUseInv, Workers, At
<1>4. CASE At(s, "deleteSelf")' /\ worker'[s] = worker[s]
  BY <1>1, <1>2, <1>4 DEF InUseInv, Workers, At
<1>5. CASE At(s, "deleteSelf")' /\ WorkerStep(s)
  <2>1. CASE Starts(s)
    <3>1. ~Past(s) /\ RegularCall(s, ShootExists(seenShoot)) = "deleteSelf"
      BY <1>1, <1>5, <2>1 DEF Starts, Lag, At, Past, Settled
    <3> QED
      BY <3>1, <1>2, RegularDeletesExpired DEF ShootOverlooked, Past
  <2>2. CASE Continues(s)
    <3>1. /\ ~Past(s) /\ At(s, "addFinalizer")
          /\ RegularCall(s, worker[s].shoot) = "deleteSelf"
      BY <1>1, <1>5, <2>2 DEF Continues, Workers, At, Past, Settled
    <3> QED
      BY <3>1, <1>2, RegularDeletesExpired DEF ShootOverlooked, Past
  <2>3. CASE Renewed(s)
    <3>1. secret[s].stage # "none" /\ AfterRotation(s) = "deleteSelf"
      BY <1>1, <1>5, <2>3 DEF Renewed, Workers, At
    <3> QED
      BY <3>1, <1>1, <1>2, RotationDecision
  <2>4. CASE Idles(s) \/ StartsNew(s) \/ Renews(s) \/ StartsCleanup(s)
    BY <1>5, <2>4 DEF Idles, StartsNew, Renews, StartsCleanup, At
  <2>5. CASE CleansUp(s)
    BY <1>5, <2>5, OwnerDecision DEF CleansUp, At, CleanupPc
  <2> QED
    BY <1>5, <2>1, <2>2, <2>3, <2>4, <2>5 DEF WorkerStep
<1> QED
  BY <1>1, <1>3, <1>4, <1>5, EachWorker

\* The operator overlooks the Shoot only while everything is new.
LEMMA OverlookedStep ==
    ASSUME Inv, Orderly, InUse, [Next]_vars, ShootOverlooked'
    PROVE  AllYoung'
<1>1. TypeOK /\ InUseInv
  BY DEF Inv
<1>2. SeenStep /\ ClockStep /\ WorkerFrame
  BY <1>1, Frames DEF Frame
<1>3. ShootExists(shoot)
  BY DEF InUse, ShootExists
<1>4. ShootOverlooked /\ now' = now
  <2>1. CASE ~ShootExists(seenShoot')
    <3>1. seenShoot' = seenShoot \/ seenShoot' = shoot
      BY <1>2 DEF SeenStep
    <3>2. ~ShootExists(seenShoot)
      BY <3>1, <2>1, <1>3
    <3>3. ~Quiet
      BY <3>2, <1>3 DEF Quiet
    <3> QED
      BY <3>2, <3>3, <1>2 DEF ShootOverlooked, ClockStep
  <2>2. ASSUME NEW s \in SecretId, At(s, "addFinalizer")', ~worker'[s].shoot
        PROVE  ShootOverlooked /\ now' = now
    <3>1. CASE worker'[s] = worker[s]
      <4>1. At(s, "addFinalizer") /\ ~worker[s].shoot
        BY <2>2, <3>1 DEF At
      <4>2. ~Quiet
        BY <4>1 DEF Quiet, At
      <4> QED
        BY <4>1, <4>2, <1>2 DEF ShootOverlooked, ClockStep
    <3>2. CASE WorkerStep(s) /\ worker'[s] # worker[s]
      <4>1. now' = now
        BY <3>2, <1>2 DEF WorkerFrame
      <4>2. StartsNew(s)
        BY <2>2, <3>2, <1>1, RegularDecision, RotationDecision, OwnerDecision
           DEF WorkerStep, Idles, Starts, Continues, Renews, Renewed, StartsCleanup, CleansUp, At, CleanupPc
      <4> QED
        BY <2>2, <4>1, <4>2 DEF StartsNew, ShootOverlooked
    <3> QED
      BY <3>1, <3>2, <1>1, EachWorker
  <2> QED
    BY <2>1, <2>2 DEF ShootOverlooked
<1> QED
  BY <1>1, <1>4, AllYoungStep DEF InUseInv

\* Nobody gets as far as deleting the cluster user.
LEMMA NoUserDeletionStep ==
    ASSUME Inv, Orderly, InUse, [Next]_vars, NEW s \in SecretId
    PROVE  ~At(s, "deleteUser")'
<1>1. TypeOK /\ InUseInv /\ Workers
  BY DEF Inv
<1>2. CASE worker'[s] = worker[s]
  BY <1>1, <1>2 DEF InUseInv, At
<1>3. CASE CleansUp(s)
  <2>1. seen[s].stage \in {"terminating", "gone"}
    BY <1>1, <1>3 DEF CleansUp, Workers
  <2>2. PICK t \in SecretId : t > s /\ seen[t].stage = "live"
    BY <2>1, <1>1, <1>3 DEF InUseInv, Succeeded, CleansUp, Settled, At, CleanupPc
  <2>3. t \in Existing(seen) /\ t # s
    BY <2>2, <1>1, Types DEF Existing
  <2>4. CallAfterCredential(s) # "deleteUser"
    BY <2>3, OwnerDecision
  <2> QED
    BY <2>4, <1>3 DEF CleansUp, At
<1>4. CASE Idles(s) \/ Starts(s) \/ StartsNew(s) \/ Continues(s) \/ Renews(s) \/ Renewed(s) \/ StartsCleanup(s)
  BY <1>1, <1>4, RegularDecision, RotationDecision
     DEF Idles, Starts, StartsNew, Continues, Renews, Renewed, StartsCleanup, At, RegularPc
<1> QED
  BY <1>1, <1>2, <1>3, <1>4, EachWorker DEF WorkerStep

LEMMA InUseInvStep ==
    ASSUME Inv, Orderly, [Next]_vars
    PROVE  InUseInv'
<1> SUFFICES ASSUME InUse'
             PROVE  /\ DroppedIsSettled' /\ Succeeded(secret)' /\ Succeeded(seen)'
                    /\ \A s \in SecretId : At(s, "deleteSelf")' => Follower(s)'
                    /\ \A s \in SecretId : secret'[s].stage \in {"terminating", "gone"} \/ At(s, "deleteSelf")'
                                        => Expired(s)' \/ Settled(s)'
                    /\ ShootOverlooked' => AllYoung'
                    /\ \A s \in SecretId : ~At(s, "deleteUser")'
  BY DEF InUseInv, Follower, DroppedIsSettled
<1>1. CASE InUse
  BY <1>1, SucceededStep, DeleteSelfStep, ExpiredStep, OverlookedStep, NoUserDeletionStep
<1>2. CASE UNCHANGED <<now, secret, seen, seenShoot, worker>> /\ NothingLeft
  <2>0. TypeOK /\ Lag /\ Workers
    BY DEF Inv
  <2>1. ASSUME NEW s \in SecretId PROVE Settled(s)' = Settled(s) /\ Young(s)' = Young(s)
    BY <1>2 DEF Settled, At, Young, Age, PastRenewTime
  <2>2. \A s \in SecretId : \/ secret[s].stage = "none" \/ Settled(s)
                            \/ secret[s].stage = "live" /\ Young(s)
    BY <1>2 DEF NothingLeft
  <2>3. AllYoung'
    BY <2>1, <2>2, <1>2 DEF AllYoung, Past
  <2>4. \A s \in SecretId : Settled(s) \/ secret[s].stage \in {"none", "live"}
    BY <2>2
  <2>5. DroppedIsSettled' /\ Succeeded(secret)'
    BY <2>1, <2>4, <1>2 DEF DroppedIsSettled, Succeeded
  <2>6. \A s \in SecretId : Settled(s) \/ seen[s].stage \notin {"terminating", "gone"}
    BY <2>4, <2>0 DEF Lag, Ended
  <2>7. Succeeded(seen)'
    BY <2>1, <2>6, <1>2 DEF Succeeded
  <2>8. ASSUME NEW s \in SecretId PROVE ~At(s, "deleteSelf")' /\ ~At(s, "deleteUser")'
    <3>1. CASE Settled(s)
      BY <3>1, <2>1 DEF Settled, At
    <3>2. CASE secret[s].stage = "none"
      BY <3>2, <2>0, <1>2 DEF Workers, At
    <3>3. CASE secret[s].stage = "live" /\ Young(s)
      BY <3>3, <2>0, <1>2 DEF Workers, Lag, At, CleanupPc, Ended
    <3> QED
      BY <3>1, <3>2, <3>3, <2>2
  <2>9. \A s \in SecretId : secret'[s].stage \in {"terminating", "gone"} => Settled(s)'
    BY <2>1, <2>4, <1>2
  <2> QED
    BY <2>3, <2>5, <2>7, <2>8, <2>9
<1> QED
  BY <1>1, <1>2, InUseStep

-----------------------------------------------------------------------------
LEMMA InvInit == Init => Inv
<1> SUFFICES ASSUME Init PROVE Inv
  OBVIOUS
<1>1. TypeOK
  BY InitTypes
<1>2. /\ \A s \in SecretId : secret[s].stage = "none" /\ secret[s].created = 0
      /\ seen = secret /\ now = 0 /\ shoot.phase = "none" /\ seenShoot = shoot
  BY DEF Init, SharedInit, NoSecret, NoShoot
<1>3. \A s \in SecretId : At(s, "idle")
  BY DEF Init, WorkerInit, IdleWorker, At
<1>4. ShootAt("idle") /\ AdmissionsIdle
  BY DEF Init, ShootWorkerInit, IdleShootWorker, ShootAt, AdmissionInit, IdleAdmission, AdmissionsIdle, AdmissionAt
<1>5. Lag /\ Ordered /\ CreatedInPast
  BY <1>2 DEF Lag, Ended, Ordered, CreatedInPast
<1>6. ShootLag /\ Asking /\ InUseInv
  BY <1>2, <1>4 DEF ShootLag, ShootAt, Asking, Cited, AdmissionsIdle, InUseInv, InUse
<1>7. Workers
  BY <1>3 DEF Workers, At, RegularPc, CleanupPc
<1> QED
  BY <1>1, <1>5, <1>6, <1>7 DEF Inv

LEMMA InvStep ==
    ASSUME Inv, Orderly, [Next]_vars
    PROVE  Inv'
<1>1. TypeOK'
  BY StepTypes DEF Inv
<1> QED
  BY <1>1, LagStep, ShootLagStep, OrderedStep, WorkersInvStep, AskingStep, InUseInvStep DEF Inv

\* The invariant holds whatever the numbers of Secrets, requests and instants,
\* the validity and the grace period are.
THEOREM Invariance ==
    ASSUME Orderly
    PROVE  Spec => []Inv
<1>1. Inv /\ [Next]_vars => Inv'
  BY InvStep
<1> QED
  BY InvInit, <1>1, PTL DEF Spec

\* In use, nobody may delete the user: only DeleteUser does.
LEMMA UserStep ==
    ASSUME [Next]_vars, user, ~user'
    PROVE  \E s \in SecretId : DeleteUser(s)
<1>1. ASSUME NEW s \in SecretId, StartReconcile(s) \/ CallOf(s) \/ Fail(s) PROVE DeleteUser(s)
  <2>2. CASE StartReconcile(s) \/ Fail(s) \/ CheckUser(s)
    BY <2>2 DEF StartReconcile, Fail, CheckUser, sharedVars
  <2>3. CASE AddFinalizer(s) \/ EnsureBinding(s) \/ DeleteBinding(s) \/ DeleteSelf(s) \/ RemoveFinalizer(s)
    BY <2>3 DEF AddFinalizer, EnsureBinding, DeleteBinding, DeleteSelf, RemoveFinalizer, openstackVars
  <2>4. CASE EnsureUser(s) \/ CreateNewCredential(s) \/ LoginUser(s) \/ DeleteCredential(s)
    BY <2>4 DEF EnsureUser, CreateNewCredential, LoginUser, DeleteCredential, EnsureClusterUser, CreateCredential
  <2>5. CASE \E t \in SecretId : CreateNewSecret(s, t)
    BY <2>5 DEF CreateNewSecret, StoreCredential
  <2> QED
    BY <1>1, <2>2, <2>3, <2>4, <2>5 DEF CallOf
<1>2. CASE ShootNext
  BY <1>2 DEF ShootNext, ShootCall, StartShoot, AddShootFinalizer, PatchBinding, ListAllSecrets, DeleteListed,
              RemoveShootFinalizer, FailShoot, sharedVars, openstackVars
<1>3. ASSUME NEW h \in Admissions, RequestStep(h) PROVE FALSE
  <2>1. CASE Arrive(h) \/ AdmissionFail(h) \/ AdmissionEnsureBinding(h) \/ PersistShoot(h)
    BY <2>1 DEF Arrive, AdmissionFail, AdmissionEnsureBinding, PersistShoot, sharedVars, openstackVars
  <2>2. CASE \/ \E workerless \in BOOLEAN : AdmissionEnsureUser(h, workerless)
             \/ AdmissionCreateCredential(h)
    BY <2>2 DEF AdmissionEnsureUser, AdmissionCreateCredential, EnsureClusterUser, CreateCredential
  <2>3. CASE \E answer \in 0..MaxSecrets : ListSecrets(h, answer)
    BY <2>3 DEF ListSecrets, sharedVars
  <2>4. CASE \E s \in SecretId : AdmissionCreateSecret(h, s)
    BY <2>4 DEF AdmissionCreateSecret, StoreCredential
  <2> QED
    BY <1>3, <2>1, <2>2, <2>3, <2>4 DEF RequestStep, AdmissionStep
<1>4. CASE EnvironmentStep
  BY <1>4 DEF EnvironmentStep, SyncSecrets, SyncShoot, Tick, OwnerDeletesShoot,
              GardenerDeletesShoot, ShootVanishes, AdministratorDeletesSecret, openstackVars
<1>5. CASE UNCHANGED vars
  BY <1>5 DEF vars, sharedVars
<1> QED
  BY <1>1, <1>2, <1>3, <1>4, <1>5, StepCases

\* While Gardener needs the infrastructure of the Shoot the operator does not
\* delete its cluster user, however the reconciles of its Secrets, the webhook
\* and stale informer reads interleave (delete, lines 268-287).
THEOREM UserOutlives ==
    ASSUME Orderly
    PROVE  Spec => UserOutlivesShoot
<1>1. ASSUME Inv, [Next]_vars PROVE user /\ ~user' => shoot.phase \notin {"live", "deleting"}
  BY <1>1, UserStep DEF Inv, InUseInv, InUse, DeleteUser
<1>2. Inv /\ [Next]_vars => [user /\ ~user' => shoot.phase \notin {"live", "deleting"}]_vars
  BY <1>1
<1> QED
  BY <1>2, Invariance, PTL DEF Spec, UserOutlivesShoot

\* Who takes a CredentialsBinding or an application credential.
LEMMA BindingStep ==
    ASSUME [Next]_vars, NEW s \in SecretId, s \in bindings, s \notin bindings'
    PROVE  DeleteBinding(s)
<1>1. ASSUME NEW t \in SecretId, StartReconcile(t) \/ CallOf(t) \/ Fail(t) PROVE DeleteBinding(s)
  <2>1. CASE StartReconcile(t) \/ Fail(t) \/ CheckUser(t)
    BY <2>1 DEF StartReconcile, Fail, CheckUser, sharedVars
  <2>2. CASE AddFinalizer(t) \/ DeleteSelf(t) \/ RemoveFinalizer(t) \/ \E u \in SecretId : CreateNewSecret(t, u)
    BY <2>2 DEF AddFinalizer, DeleteSelf, RemoveFinalizer, CreateNewSecret
  <2>3. CASE EnsureUser(t) \/ CreateNewCredential(t) \/ LoginUser(t) \/ DeleteCredential(t) \/ DeleteUser(t)
    BY <2>3 DEF EnsureUser, CreateNewCredential, LoginUser, DeleteCredential, DeleteUser, apiVars
  <2>4. CASE EnsureBinding(t)
    BY <2>4 DEF EnsureBinding, EnsureCredentialsBinding
  <2>5. CASE DeleteBinding(t)
    <3>1. t = s
      BY <2>5 DEF DeleteBinding
    <3> QED
      BY <3>1, <2>5
  <2> QED
    BY <1>1, <2>1, <2>2, <2>3, <2>4, <2>5 DEF CallOf
<1>2. CASE ShootNext
  BY <1>2 DEF ShootNext, ShootCall, StartShoot, AddShootFinalizer, PatchBinding, ListAllSecrets, DeleteListed,
              RemoveShootFinalizer, FailShoot, sharedVars
<1>3. ASSUME NEW h \in Admissions, RequestStep(h) PROVE FALSE
  <2>1. CASE Arrive(h) \/ AdmissionFail(h) \/ PersistShoot(h)
    BY <2>1 DEF Arrive, AdmissionFail, PersistShoot, sharedVars
  <2>2. CASE \/ \E workerless \in BOOLEAN : AdmissionEnsureUser(h, workerless)
             \/ AdmissionCreateCredential(h)
    BY <2>2 DEF AdmissionEnsureUser, AdmissionCreateCredential, apiVars
  <2>3. CASE \E answer \in 0..MaxSecrets : ListSecrets(h, answer)
    BY <2>3 DEF ListSecrets, sharedVars
  <2>4. CASE \E t \in SecretId : AdmissionCreateSecret(h, t)
    BY <2>4 DEF AdmissionCreateSecret
  <2>5. CASE AdmissionEnsureBinding(h)
    BY <2>5 DEF AdmissionEnsureBinding, EnsureCredentialsBinding
  <2> QED
    BY <1>3, <2>1, <2>2, <2>3, <2>4, <2>5 DEF RequestStep, AdmissionStep
<1>4. CASE EnvironmentStep
  BY <1>4 DEF EnvironmentStep, SyncSecrets, SyncShoot, Tick, OwnerDeletesShoot,
              GardenerDeletesShoot, ShootVanishes, AdministratorDeletesSecret, apiVars
<1>5. CASE UNCHANGED vars
  BY <1>5 DEF vars, sharedVars
<1> QED
  BY <1>1, <1>2, <1>3, <1>4, <1>5, StepCases

LEMMA CredentialStep ==
    ASSUME [Next]_vars, NEW s \in SecretId, s \in creds, s \notin creds'
    PROVE  DeleteCredential(s) \/ \E t \in SecretId : DeleteUser(t)
<1>1. ASSUME NEW t \in SecretId, StartReconcile(t) \/ CallOf(t) \/ Fail(t)
      PROVE  DeleteUser(t) \/ DeleteCredential(s)
  <2>1. CASE StartReconcile(t) \/ Fail(t) \/ CheckUser(t)
    BY <2>1 DEF StartReconcile, Fail, CheckUser, sharedVars
  <2>2. CASE AddFinalizer(t) \/ EnsureBinding(t) \/ DeleteBinding(t) \/ DeleteSelf(t) \/ RemoveFinalizer(t)
    BY <2>2 DEF AddFinalizer, EnsureBinding, DeleteBinding, DeleteSelf, RemoveFinalizer, openstackVars
  <2>3. CASE EnsureUser(t) \/ CreateNewCredential(t) \/ LoginUser(t)
    BY <2>3 DEF EnsureUser, CreateNewCredential, LoginUser, EnsureClusterUser, CreateCredential
  <2>4. CASE \E u \in SecretId : CreateNewSecret(t, u)
    BY <2>4 DEF CreateNewSecret, StoreCredential
  <2>5. CASE DeleteCredential(t)
    <3>1. t = s
      BY <2>5 DEF DeleteCredential
    <3> QED
      BY <3>1, <2>5
  <2> QED
    BY <1>1, <2>1, <2>2, <2>3, <2>4, <2>5 DEF CallOf
<1>2. CASE ShootNext
  BY <1>2 DEF ShootNext, ShootCall, StartShoot, AddShootFinalizer, PatchBinding, ListAllSecrets, DeleteListed,
              RemoveShootFinalizer, FailShoot, sharedVars, openstackVars
<1>3. ASSUME NEW h \in Admissions, RequestStep(h) PROVE FALSE
  <2>1. CASE Arrive(h) \/ AdmissionFail(h) \/ AdmissionEnsureBinding(h) \/ PersistShoot(h)
    BY <2>1 DEF Arrive, AdmissionFail, AdmissionEnsureBinding, PersistShoot, sharedVars, openstackVars
  <2>2. CASE \/ \E workerless \in BOOLEAN : AdmissionEnsureUser(h, workerless)
             \/ AdmissionCreateCredential(h)
    BY <2>2 DEF AdmissionEnsureUser, AdmissionCreateCredential, EnsureClusterUser, CreateCredential
  <2>3. CASE \E answer \in 0..MaxSecrets : ListSecrets(h, answer)
    BY <2>3 DEF ListSecrets, sharedVars
  <2>4. CASE \E t \in SecretId : AdmissionCreateSecret(h, t)
    BY <2>4 DEF AdmissionCreateSecret, StoreCredential
  <2> QED
    BY <1>3, <2>1, <2>2, <2>3, <2>4 DEF RequestStep, AdmissionStep
<1>4. CASE EnvironmentStep
  BY <1>4 DEF EnvironmentStep, SyncSecrets, SyncShoot, Tick, OwnerDeletesShoot,
              GardenerDeletesShoot, ShootVanishes, AdministratorDeletesSecret, openstackVars
<1>5. CASE UNCHANGED vars
  BY <1>5 DEF vars, sharedVars
<1> QED
  BY <1>1, <1>2, <1>3, <1>4, <1>5, StepCases

\* While the Shoot needs them, neither the CredentialsBinding nor the
\* application credential of a Secret that has not expired is taken away:
\* what is being cleaned up has expired (internalSecretDeletionAllowed).
THEOREM InUseSurvives ==
    ASSUME Orderly
    PROVE  Spec => InUseCredentialSurvives
<1> DEFINE Survives == \A s \in SecretId :
                         shoot.phase \in {"live", "deleting"} /\ shoot.binding = s /\ ~Expired(s)
                         => (s \in bindings => s \in bindings') /\ (s \in creds => s \in creds')
<1>1. ASSUME Inv, [Next]_vars PROVE Survives
  <2> SUFFICES ASSUME NEW s \in SecretId, InUse, ~Expired(s)
               PROVE  (s \in bindings => s \in bindings') /\ (s \in creds => s \in creds')
    BY DEF InUse
  <2>1. worker[s].pc \notin CleanupPc
    BY <1>1 DEF Inv, Workers, Lag, Ended, InUseInv, Settled, At, CleanupPc
  <2>2. ~DeleteBinding(s) /\ ~DeleteCredential(s)
    BY <2>1 DEF DeleteBinding, DeleteCredential, At, CleanupPc
  <2>3. \A t \in SecretId : ~DeleteUser(t)
    BY <1>1 DEF Inv, InUseInv, DeleteUser
  <2> QED
    BY <1>1, <2>2, <2>3, BindingStep, CredentialStep
<1>2. Inv /\ [Next]_vars => [Survives]_vars
  BY <1>1
<1>3. Spec => [][Survives]_vars
  <2> HIDE DEF Survives
  <2> QED
    BY <1>2, Invariance, PTL DEF Spec
<1> QED
  BY <1>3 DEF InUseCredentialSurvives

\* While the Shoot lives, a Secret starts to go only after a younger one was
\* created (reconcile, lines 142-152).
THEOREM SuccessorFirst ==
    ASSUME Orderly
    PROVE  Spec => SuccessorBeforeRemoval
<1> DEFINE Succeeds == \A s \in SecretId :
                         shoot.phase = "live" /\ secret[s].stage = "live" /\ secret'[s].stage = "terminating"
                         => \E t \in Existing(secret) : t > s
<1>1. ASSUME Inv, [Next]_vars PROVE Succeeds
  <2> SUFFICES ASSUME NEW s \in SecretId, shoot.phase = "live", secret[s].stage = "live",
                      secret'[s].stage = "terminating"
               PROVE  \E t \in Existing(secret) : t > s
    OBVIOUS
  <2>1. InUse /\ At(s, "deleteSelf")
    BY <1>1, LiveStep DEF InUse
  <2>2. PICK t \in SecretId : t > s /\ secret[t].stage = "live"
    BY <1>1, <2>1 DEF Inv, InUseInv
  <2> QED
    BY <2>2 DEF Existing
<1>2. Inv /\ [Next]_vars => [Succeeds]_vars
  BY <1>1
<1>3. Spec => [][Succeeds]_vars
  <2> HIDE DEF Succeeds
  <2> QED
    BY <1>2, Invariance, PTL DEF Spec
<1> QED
  BY <1>3 DEF SuccessorBeforeRemoval

-----------------------------------------------------------------------------
(* What a step does in Keystone.                                           *)

\* A process that has made a credential and not yet put it into a Secret.
Storing(p) ==
    \/ p \in SecretId /\ At(p, "createSecret")
    \/ p \in Admissions /\ AdmissionAt(p, "createSecret")

Stores(p, t) == Storing(p) /\ ~Storing(p)' /\ StoreCredential(p, t)

NothingCreated == \A s \in SecretId : secret[s].stage = "none" => secret'[s].stage = "none"

AccountStep ==
    \/ UNCHANGED openstackVars /\ NothingCreated
    \/ /\ UNCHANGED <<now, shoot, secret>>
       /\ \/ EnsureClusterUser
          \/ \E p \in SecretId \cup Admissions : CreateCredential(p)
          \/ \E s \in SecretId : DeleteCredential(s) \/ DeleteUser(s)
    \/ UNCHANGED <<now, shoot>> /\ \E p \in SecretId \cup Admissions, t \in SecretId : Stores(p, t)

\* Deleting a Secret creates none.
LEMMA DeleteCreatesNothing ==
    ASSUME TypeOK, NEW s \in SecretId, DeleteSecret(s)
    PROVE  NothingCreated
BY DEF TypeOK, SharedTypeOK, DeleteSecret, MarkDeleted, NothingCreated

\* The steps of a worker of the internalsecret controller.
LEMMA WorkerAccount ==
    ASSUME TypeOK, NEW s \in SecretId, StartReconcile(s) \/ CallOf(s) \/ Fail(s)
    PROVE  AccountStep
<1>1. CASE StartReconcile(s) \/ Fail(s) \/ CheckUser(s)
  BY <1>1 DEF StartReconcile, Fail, CheckUser, sharedVars, openstackVars, AccountStep, NothingCreated
<1>2. CASE AddFinalizer(s)
  BY <1>2 DEF AddFinalizer, openstackVars, AccountStep, NothingCreated, TypeOK, SharedTypeOK
<1>3. CASE EnsureBinding(s) \/ DeleteBinding(s)
  BY <1>3 DEF EnsureBinding, DeleteBinding, openstackVars, AccountStep, NothingCreated
<1>4. CASE DeleteSelf(s)
  BY <1>4, DeleteCreatesNothing DEF DeleteSelf, AccountStep
<1>5. CASE RemoveFinalizer(s)
  BY <1>5 DEF RemoveFinalizer, openstackVars, AccountStep, NothingCreated, TypeOK, SharedTypeOK
<1>6. CASE EnsureUser(s) \/ LoginUser(s)
  BY <1>6 DEF EnsureUser, LoginUser, apiVars, AccountStep
<1>7. CASE CreateNewCredential(s)
  BY <1>7 DEF CreateNewCredential, apiVars, AccountStep
<1>8. CASE DeleteCredential(s) \/ DeleteUser(s)
  BY <1>8 DEF DeleteCredential, DeleteUser, apiVars, AccountStep
<1>9. ASSUME NEW t \in SecretId, CreateNewSecret(s, t) PROVE AccountStep
  <2>1. At(s, "createSecret") /\ StoreCredential(s, t) /\ UNCHANGED <<now, shoot>>
    BY <1>9 DEF CreateNewSecret
  <2>2. worker'[s].pc = AfterRotation(s)
    BY <1>9 DEF CreateNewSecret, Goto, IdleWorker, TypeOK, WorkerTypeOK
  <2>3. ~At(s, "createSecret")' /\ s \notin Admissions
    BY <2>2, ProcessesAssumption DEF At, AfterRotation, SecretId
  <2> QED
    BY <2>1, <2>3 DEF AccountStep, Stores, Storing
<1> QED
  BY <1>1, <1>2, <1>3, <1>4, <1>5, <1>6, <1>7, <1>8, <1>9 DEF CallOf

\* The steps of an admission.
LEMMA AdmissionAccount ==
    ASSUME TypeOK, NEW h \in Admissions, RequestStep(h)
    PROVE  AccountStep
<1>1. CASE Arrive(h) \/ AdmissionFail(h) \/ AdmissionEnsureBinding(h) \/ PersistShoot(h)
  BY <1>1 DEF Arrive, AdmissionFail, AdmissionEnsureBinding, PersistShoot, sharedVars, openstackVars,
              AccountStep, NothingCreated
<1>2. ASSUME NEW workerless \in BOOLEAN, AdmissionEnsureUser(h, workerless) PROVE AccountStep
  BY <1>2 DEF AdmissionEnsureUser, apiVars, AccountStep
<1>3. ASSUME NEW answer \in 0..MaxSecrets, ListSecrets(h, answer) PROVE AccountStep
  BY <1>3 DEF ListSecrets, sharedVars, openstackVars, AccountStep, NothingCreated
<1>4. CASE AdmissionCreateCredential(h)
  BY <1>4 DEF AdmissionCreateCredential, apiVars, AccountStep
<1>5. ASSUME NEW t \in SecretId, AdmissionCreateSecret(h, t) PROVE AccountStep
  <2>1. AdmissionAt(h, "createSecret") /\ StoreCredential(h, t) /\ UNCHANGED <<now, shoot>>
    BY <1>5 DEF AdmissionCreateSecret
  <2>2. admission'[h].pc = "ensureBinding"
    BY <1>5 DEF AdmissionCreateSecret, TypeOK, AdmissionTypeOK, AdmissionRecord
  <2>3. ~AdmissionAt(h, "createSecret")' /\ h \notin SecretId
    BY <2>2, ProcessesAssumption DEF AdmissionAt, SecretId
  <2> QED
    BY <2>1, <2>3 DEF AccountStep, Stores, Storing
<1> QED
  BY <1>1, <1>2, <1>3, <1>4, <1>5 DEF RequestStep, AdmissionStep

LEMMA AccountSteps ==
    ASSUME TypeOK, [Next]_vars
    PROVE  AccountStep
<1>1. CASE ShootNext
  <2>1. ASSUME NEW s \in SecretId, DeleteListed(s) PROVE AccountStep
    BY <2>1, DeleteCreatesNothing DEF DeleteListed, AccountStep
  <2> QED
    BY <1>1, <2>1 DEF ShootNext, ShootCall, StartShoot, AddShootFinalizer, PatchBinding, ListAllSecrets,
                      RemoveShootFinalizer, FailShoot, sharedVars, openstackVars, AccountStep, NothingCreated
<1>2. CASE EnvironmentStep
  <2>1. ASSUME NEW s \in SecretId, AdministratorDeletesSecret(s) PROVE AccountStep
    BY <2>1, DeleteCreatesNothing DEF AdministratorDeletesSecret, AccountStep
  <2> QED
    BY <1>2, <2>1 DEF EnvironmentStep, SyncSecrets, SyncShoot, Tick, OwnerDeletesShoot, GardenerDeletesShoot,
                      ShootVanishes, apiVars, openstackVars, AccountStep, NothingCreated
<1>3. CASE UNCHANGED vars
  BY <1>3 DEF vars, sharedVars, openstackVars, AccountStep, NothingCreated
<1> QED
  BY <1>1, <1>2, <1>3, StepCases, WorkerAccount, AdmissionAccount

-----------------------------------------------------------------------------
(* Removal comes after revocation, without any assumption.                 *)

\* A Secret that exists stays known, and what is new or live was before.
LEMMA KnownStays ==
    ASSUME TypeOK, [Next]_vars, NEW s \in SecretId
    PROVE  /\ secret[s].stage # "none" => secret'[s].stage # "none"
           /\ secret'[s].stage \in {"none", "live"} => secret[s].stage \in {"none", "live"}
           /\ secret'[s].stage = "live" /\ secret[s].stage # "live" => Created(s)
BY EachSecret DEF SecretStep, Unchanged, Finalized, Created, NextSecret, Deleted, Removed

\* Neither deleting a Secret nor creating one ends its finalization.
LEMMA OthersRemoveNone ==
    ASSUME TypeOK, NEW s \in SecretId, secret[s].stage # "gone",
           UNCHANGED secret \/ \E t \in SecretId : DeleteSecret(t) \/ \E p : StoreCredential(p, t)
    PROVE  secret'[s].stage # "gone"
BY DEF TypeOK, SharedTypeOK, DeleteSecret, MarkDeleted, StoreCredential, SecretRecord

\* Only a worker that has come to the end of the clean-up removes the finalizer.
LEMMA RemovedBy ==
    ASSUME TypeOK, [Next]_vars, NEW s \in SecretId, secret[s].stage # "gone", secret'[s].stage = "gone"
    PROVE  RemoveFinalizer(s)
<1>1. ~ (UNCHANGED secret \/ \E t \in SecretId : DeleteSecret(t) \/ \E p : StoreCredential(p, t))
  BY OthersRemoveNone
<1>2. ASSUME NEW t \in SecretId, StartReconcile(t) \/ CallOf(t) \/ Fail(t) PROVE RemoveFinalizer(s)
  <2>1. CASE StartReconcile(t) \/ Fail(t) \/ CheckUser(t) \/ EnsureBinding(t) \/ DeleteBinding(t)
    BY <1>1, <2>1 DEF StartReconcile, Fail, CheckUser, EnsureBinding, DeleteBinding, sharedVars
  <2>2. CASE EnsureUser(t) \/ CreateNewCredential(t) \/ LoginUser(t) \/ DeleteCredential(t) \/ DeleteUser(t)
    BY <1>1, <2>2 DEF EnsureUser, CreateNewCredential, LoginUser, DeleteCredential, DeleteUser, apiVars
  <2>3. CASE AddFinalizer(t)
    <3>1. secret'[t].stage = "live" /\ \A u \in SecretId \ {t} : secret'[u] = secret[u]
      BY <2>3 DEF AddFinalizer, TypeOK, SharedTypeOK, SecretRecord
    <3> QED
      BY <3>1
  <2>4. CASE DeleteSelf(t) \/ \E u \in SecretId : CreateNewSecret(t, u)
    BY <1>1, <2>4 DEF DeleteSelf, CreateNewSecret
  <2>5. CASE RemoveFinalizer(t)
    <3>1. t = s
      BY <2>5 DEF RemoveFinalizer, TypeOK, SharedTypeOK
    <3> QED
      BY <3>1, <2>5
  <2> QED
    BY <1>2, <2>1, <2>2, <2>3, <2>4, <2>5 DEF CallOf
<1>3. ~ShootNext
  BY <1>1 DEF ShootNext, ShootCall, StartShoot, AddShootFinalizer, PatchBinding, ListAllSecrets, DeleteListed,
              RemoveShootFinalizer, FailShoot, sharedVars
<1>4. ASSUME NEW h \in Admissions, RequestStep(h) PROVE FALSE
  <2>1. CASE Arrive(h) \/ AdmissionFail(h) \/ AdmissionEnsureBinding(h) \/ PersistShoot(h)
    BY <1>1, <2>1 DEF Arrive, AdmissionFail, AdmissionEnsureBinding, PersistShoot, sharedVars
  <2>2. CASE (\E workerless \in BOOLEAN : AdmissionEnsureUser(h, workerless)) \/ AdmissionCreateCredential(h)
    BY <1>1, <2>2 DEF AdmissionEnsureUser, AdmissionCreateCredential, apiVars
  <2>3. CASE \E answer \in 0..MaxSecrets : ListSecrets(h, answer)
    BY <1>1, <2>3 DEF ListSecrets, sharedVars
  <2>4. CASE \E t \in SecretId : AdmissionCreateSecret(h, t)
    BY <1>1, <2>4 DEF AdmissionCreateSecret
  <2> QED
    BY <1>4, <2>1, <2>2, <2>3, <2>4 DEF RequestStep, AdmissionStep
<1>5. ~EnvironmentStep
  BY <1>1 DEF EnvironmentStep, SyncSecrets, SyncShoot, Tick, OwnerDeletesShoot, GardenerDeletesShoot,
              ShootVanishes, AdministratorDeletesSecret, apiVars
<1> QED
  BY <1>1, <1>2, <1>3, <1>4, <1>5, StepCases DEF vars, sharedVars

\* Keystone makes credentials under the user only, and drops them with it.
LEMMA AccountedStep ==
    ASSUME TypeOK, Accounted, [Next]_vars
    PROVE  Accounted'
<1> USE DEF Accounted
<1>1. CASE UNCHANGED openstackVars
  BY <1>1 DEF openstackVars
<1>2. CASE EnsureClusterUser
  BY <1>2 DEF EnsureClusterUser
<1>3. ASSUME NEW p, CreateCredential(p) PROVE Accounted'
  BY <1>3 DEF CreateCredential
<1>4. ASSUME NEW s \in SecretId, DeleteCredential(s) \/ DeleteUser(s) PROVE Accounted'
  BY <1>4 DEF DeleteCredential, DeleteUser, DeleteClusterUser
<1>5. ASSUME NEW p, NEW t \in SecretId, StoreCredential(p, t) PROVE Accounted'
  BY <1>5 DEF StoreCredential
<1> QED
  BY <1>1, <1>2, <1>3, <1>4, <1>5, AccountSteps DEF AccountStep, Stores

\* A credential is added for a Secret that is created with it.
LEMMA CredentialMade ==
    ASSUME TypeOK, [Next]_vars, NEW s \in SecretId, s \in creds', s \notin creds
    PROVE  \E p \in SecretId \cup Admissions : Stores(p, s) /\ p \in loose
BY AccountSteps DEF AccountStep, openstackVars, EnsureClusterUser, CreateCredential, DeleteCredential, DeleteUser,
                    DeleteClusterUser, Stores, StoreCredential

\* Where the calls of a worker lead.
LEMMA Calls ==
    ASSUME TypeOK, NEW s \in SecretId, StartReconcile(s) \/ CallOf(s) \/ Fail(s)
    PROVE  \/ worker'[s].pc \in RegularPc \cup {"idle", "deleteBinding"} /\ ~At(s, "createSecret")'
           \/ At(s, "createSecret")' /\ CreateNewCredential(s)
           \/ At(s, "checkUser")' /\ DeleteBinding(s)
           \/ At(s, "loginUser")' /\ CheckUser(s)
           \/ At(s, "deleteCredential")' /\ LoginUser(s)
           \/ At(s, "deleteUser")' /\ ((CheckUser(s) /\ ~user) \/ DeleteCredential(s))
           \/ At(s, "removeFinalizer")' /\ ((CheckUser(s) /\ ~user) \/ DeleteCredential(s) \/ DeleteUser(s))
<1>1. worker \in [SecretId -> WorkerRecord]
  BY DEF TypeOK, WorkerTypeOK
<1>2. \A pc : Goto(s, pc) => worker'[s].pc = pc
  BY <1>1 DEF Goto, IdleWorker
<1>3. /\ \A exists : RegularCall(s, exists) \in (RegularPc \cup {"idle"}) \ {"createSecret"}
      /\ AfterRotation(s) \in {"deleteSelf", "idle"}
      /\ CallAfterCredential(s) \in {"idle", "deleteUser", "removeFinalizer"}
  BY DEF RegularCall, AfterRotation, CallAfterCredential, RegularPc
<1>4. CASE StartReconcile(s)
  <2>1. CASE worker' = [worker EXCEPT ![s] = [pc |-> "addFinalizer", shoot |-> ShootExists(seenShoot)]]
    BY <2>1, <1>1 DEF At, RegularPc
  <2> QED
    BY <1>4, <2>1, <1>2, <1>3 DEF StartReconcile, At
<1>5. CASE AddFinalizer(s) \/ \E t \in SecretId : CreateNewSecret(s, t)
  BY <1>5, <1>2, <1>3 DEF AddFinalizer, CreateNewSecret, At, RegularPc
<1>6. CASE EnsureBinding(s) \/ EnsureUser(s) \/ CreateNewCredential(s) \/ DeleteSelf(s) \/ RemoveFinalizer(s) \/ Fail(s)
  BY <1>6, <1>2 DEF EnsureBinding, EnsureUser, CreateNewCredential, DeleteSelf, RemoveFinalizer, Fail, At, RegularPc
<1>7. CASE DeleteBinding(s) \/ LoginUser(s) \/ DeleteUser(s)
  BY <1>7, <1>2 DEF DeleteBinding, LoginUser, DeleteUser, At
<1>8. CASE CheckUser(s) \/ DeleteCredential(s)
  <2>1. \/ CheckUser(s) /\ At(s, "loginUser")'
        \/ ((CheckUser(s) /\ ~user) \/ DeleteCredential(s)) /\ worker'[s].pc = CallAfterCredential(s)
    BY <1>8, <1>2 DEF CheckUser, DeleteCredential, At
  <2> QED
    BY <2>1, <1>3 DEF At
<1> QED
  BY <1>4, <1>5, <1>6, <1>7, <1>8 DEF CallOf

\* A Secret that a worker or an informer knows exists, and stays known to exist.
LEMMA KnownStep ==
    ASSUME RevokedInv, [Next]_vars, NEW s \in SecretId, seen'[s].stage # "none" \/ ~At(s, "idle")'
    PROVE  secret'[s].stage # "none"
<1>1. TypeOK /\ (seen[s].stage # "none" \/ ~At(s, "idle") => secret[s].stage # "none")
  BY DEF RevokedInv
<1>2. CASE seen'[s].stage # "none"
  <2>1. SeenStep
    BY <1>1, Frames DEF Frame
  <2> QED
    BY <2>1, <1>1, <1>2, KnownStays DEF SeenStep, rest
<1>3. CASE ~At(s, "idle")'
  <2>1. worker'[s] = worker[s] \/ WorkerStep(s)
    BY <1>1, EachWorker
  <2>2. ~At(s, "idle") \/ seen[s].stage # "none"
    BY <2>1, <1>3 DEF WorkerStep, Idles, Starts, StartsNew, Continues, Renews, Renewed, StartsCleanup, CleansUp, At, CleanupPc
  <2> QED
    BY <2>2, <1>1, KnownStays
<1> QED
  BY <1>2, <1>3

\* When a worker comes to the end of the clean-up the credential has gone: it
\* was just deleted, or there is no user; and it does not come back.
LEMMA RevokedStep ==
    ASSUME RevokedInv, [Next]_vars
    PROVE  RevokedInv'
<1>1. TypeOK /\ Accounted
  BY DEF RevokedInv
<1>2. TypeOK' /\ Accounted'
  BY <1>1, StepTypes, AccountedStep
<1>3. ASSUME NEW s \in SecretId, At(s, "deleteUser")' \/ At(s, "removeFinalizer")' \/ secret'[s].stage = "gone"
      PROVE  s \notin creds'
  <2>1. secret[s].stage # "none" => (s \in creds' => s \in creds)
    BY <1>1, CredentialMade DEF Stores, StoreCredential, NextSecret
  <2>2. CASE secret'[s].stage = "gone"
    <3>1. secret[s].stage = "gone" \/ RemoveFinalizer(s)
      BY <1>1, <2>2, RemovedBy
    <3>2. secret[s].stage # "none" /\ s \notin creds
      BY <3>1 DEF RevokedInv, RemoveFinalizer, At
    <3> QED
      BY <3>2, <2>1
  <2>3. CASE worker'[s].pc \in {"deleteUser", "removeFinalizer"}
    <3>1. CASE worker'[s] = worker[s]
      <4>1. secret[s].stage # "none" /\ s \notin creds
        BY <3>1, <2>3 DEF RevokedInv, At
      <4> QED
        BY <4>1, <2>1
    <3>2. CASE CheckUser(s) /\ ~user
      BY <3>2, <1>1 DEF CheckUser, sharedVars, Accounted
    <3>3. CASE DeleteCredential(s) \/ DeleteUser(s)
      BY <3>3 DEF DeleteCredential, DeleteUser, DeleteClusterUser
    <3> QED
      BY <3>1, <3>2, <3>3, <2>3, <1>1, WhoMoves, Calls DEF At, RegularPc
  <2> QED
    BY <1>3, <2>2, <2>3 DEF At
<1> QED
  BY <1>2, <1>3, KnownStep DEF RevokedInv

LEMMA RevokedInit == Init => RevokedInv
BY InitTypes DEF Init, SharedInit, NoSecret, WorkerInit, IdleWorker, At, RevokedInv, Accounted

\* A Secret vanishes only after its application credential was revoked, however
\* owner, administrator, webhook and both controllers interleave (delete, lines
\* 262-266 before 290); nothing is assumed about how the name is used.
THEOREM RevokedFirst == Spec => []RevokedBeforeRemoval
<1>1. RevokedInv => RevokedBeforeRemoval
  BY DEF RevokedInv, RevokedBeforeRemoval
<1>2. RevokedInv /\ [Next]_vars => RevokedInv'
  BY RevokedStep
<1> QED
  BY <1>1, <1>2, RevokedInit, PTL DEF Spec

-----------------------------------------------------------------------------
(* Backed: no credential is lost while the Shoot needs it.                 *)

Begun == AdmissionsIdle /\ NameFree /\ UNCHANGED <<sharedVars, worker, shootWorker>>

LEMMA NeededStep ==
    ASSUME Inv, Orderly, [Next]_vars, Needed'
    PROVE  Needed \/ Begun
<1>1. TypeOK
  BY DEF Inv
<1>2. PhaseStep /\ AdmissionsStep
  BY <1>1, Frames DEF Frame
<1>3. CASE InUse'
  BY <1>2, <1>3 DEF PhaseStep, InUse, Needed
<1>4. CASE ~AdmissionsIdle'
  BY <1>2, <1>4 DEF AdmissionsStep, MayRequest, NameInUse, Orderly, Needed, Begun
<1> QED
  BY <1>3, <1>4 DEF Needed

\* Where the name is free no worker is under way to its end.
LEMMA NobodyWorks ==
    ASSUME Inv, NothingLeft, NEW s \in SecretId
    PROVE  worker[s].pc \notin CleanupPc /\ ~At(s, "createSecret")
<1>1. CASE Settled(s)
  BY <1>1 DEF Settled, At, CleanupPc
<1>2. CASE secret[s].stage = "none"
  BY <1>2 DEF Inv, Workers, At, CleanupPc
<1>3. CASE secret[s].stage = "live" /\ Young(s)
  BY <1>3 DEF Inv, Workers, Lag, Ended, At, Young
<1> QED
  BY <1>1, <1>2, <1>3 DEF NothingLeft

\* Nobody deletes the user or the credential of a Secret that stays.
LEMMA NothingLost ==
    ASSUME Inv, Needed, NEW s \in SecretId
    PROVE  ~DeleteUser(s) /\ (DeleteCredential(s) => secret[s].stage \in {"terminating", "gone"})
<1>1. worker[s].pc \in CleanupPc => secret[s].stage \in {"terminating", "gone"}
  BY DEF Inv, Workers, Lag, Ended
<1>2. InUse \/ NothingLeft
  BY DEF Needed, Inv, Asking
<1>3. ~DeleteUser(s)
  BY <1>2, NobodyWorks DEF Inv, InUseInv, DeleteUser, At, CleanupPc
<1> QED
  BY <1>1, <1>3 DEF DeleteCredential, At, CleanupPc

\* Where a process has its credential from.
LEMMA StoringStep ==
    ASSUME TypeOK, [Next]_vars, NEW p \in SecretId \cup Admissions, Storing(p)'
    PROVE  Storing(p) \/ CreateCredential(p)
<1>1. ASSUME p \in SecretId, At(p, "createSecret")' PROVE Storing(p) \/ CreateCredential(p)
  <2>1. worker'[p] = worker[p] \/ CreateNewCredential(p)
    BY <1>1, WhoMoves, Calls DEF At, RegularPc
  <2> QED
    BY <2>1, <1>1 DEF Storing, At, CreateNewCredential
<1>2. ASSUME p \in Admissions, AdmissionAt(p, "createSecret")' PROVE Storing(p) \/ CreateCredential(p)
  <2>1. admission \in [Admissions -> AdmissionRecord]
    BY DEF TypeOK, AdmissionTypeOK
  <2>2. \A pc : AdmissionGoto(p, pc) => admission'[p].pc = pc
    BY <2>1, <1>2 DEF AdmissionGoto, AdmissionRecord
  <2>3. CASE admission'[p] = admission[p]
    BY <2>3, <1>2 DEF Storing, AdmissionAt
  <2>4. CASE RequestStep(p)
    <3>1. CASE Arrive(p) \/ AdmissionFail(p) \/ PersistShoot(p)
      BY <3>1, <2>1, <1>2 DEF Arrive, AdmissionFail, PersistShoot, AdmissionAt, IdleAdmission
    <3>2. CASE AdmissionEnsureBinding(p) \/ \E workerless \in BOOLEAN : AdmissionEnsureUser(p, workerless)
      BY <3>2, <2>2, <1>2 DEF AdmissionEnsureBinding, AdmissionEnsureUser, AdmissionAt
    <3>3. ASSUME NEW answer \in 0..MaxSecrets, ListSecrets(p, answer) PROVE FALSE
      BY <3>3, <2>1, <1>2 DEF ListSecrets, AdmissionAt, AdmissionRecord
    <3>4. ASSUME NEW t \in SecretId, AdmissionCreateSecret(p, t) PROVE FALSE
      BY <3>4, <2>1, <1>2 DEF AdmissionCreateSecret, AdmissionAt, AdmissionRecord
    <3>5. CASE AdmissionCreateCredential(p)
      BY <3>5 DEF AdmissionCreateCredential
    <3> QED
      BY <2>4, <3>1, <3>2, <3>3, <3>4, <3>5 DEF RequestStep, AdmissionStep
  <2> QED
    BY <2>3, <2>4, <1>2, WhoAsks
<1> QED
  BY <1>1, <1>2 DEF Storing

Loaded == \A p \in SecretId \cup Admissions : Storing(p) => p \in loose

LEMMA LoadedStep ==
    ASSUME Inv, Orderly, Needed, Loaded, [Next]_vars
    PROVE  Loaded'
<1> SUFFICES ASSUME NEW p \in SecretId \cup Admissions, Storing(p)' PROVE p \in loose'
  BY DEF Loaded
<1>1. TypeOK
  BY DEF Inv
<1>2. CASE CreateCredential(p)
  BY <1>2 DEF CreateCredential
<1>3. CASE p \in loose
  <2>1. ASSUME NEW q \in SecretId \cup Admissions, CreateCredential(q) PROVE p \in loose'
    BY <2>1, <1>3 DEF CreateCredential
  <2>2. ASSUME NEW q \in SecretId \cup Admissions, NEW t \in SecretId, Stores(q, t) PROVE p \in loose'
    BY <2>2, <1>3 DEF Stores, StoreCredential
  <2>3. ASSUME NEW s \in SecretId, DeleteCredential(s) PROVE p \in loose'
    BY <2>3, <1>3 DEF DeleteCredential
  <2>4. CASE UNCHANGED openstackVars \/ EnsureClusterUser
    BY <2>4, <1>3 DEF openstackVars, EnsureClusterUser
  <2> QED
    BY <2>1, <2>2, <2>3, <2>4, <1>1, AccountSteps, NothingLost DEF AccountStep
<1> QED
  BY <1>1, <1>2, <1>3, StoringStep DEF Loaded

\* A Secret is stored with the credential that its maker has just created.
LEMMA BackedStep ==
    ASSUME Inv, Orderly, Backed, [Next]_vars
    PROVE  Backed'
<1> SUFFICES ASSUME Needed'
             PROVE  (\A s \in SecretId : secret'[s].stage = "live" => s \in creds') /\ Loaded'
  BY DEF Backed, Loaded, Storing
<1>0. TypeOK
  BY DEF Inv
<1>a. CASE Begun
  <2>1. \A s \in SecretId : secret'[s].stage = "live" => s \in creds'
    BY <1>a DEF Begun, NameFree, sharedVars
  <2>2. ASSUME NEW p \in SecretId \cup Admissions, Storing(p)' PROVE p \in loose'
    <3>1. ~Storing(p)
      BY <1>a, NobodyWorks DEF Begun, NameFree, Storing, AdmissionsIdle, AdmissionAt
    <3> QED
      BY <3>1, <2>2, <1>0, StoringStep DEF CreateCredential
  <2> QED
    BY <2>1, <2>2 DEF Loaded
<1> SUFFICES ASSUME Needed
             PROVE  (\A s \in SecretId : secret'[s].stage = "live" => s \in creds') /\ Loaded'
  BY <1>a, NeededStep
<1>1. TypeOK /\ Needed
  BY <1>0
<1>2. Loaded /\ \A s \in SecretId : secret[s].stage = "live" => s \in creds
  BY <1>1, ProcessesAssumption DEF Backed, Loaded, Storing, SecretId
<1>3. Loaded'
  BY <1>1, <1>2, LoadedStep
<1>4. ASSUME NEW s \in SecretId, secret'[s].stage = "live", secret[s].stage = "live" PROVE s \in creds'
  BY <1>1, <1>2, <1>4, CredentialStep, NothingLost
<1>5. ASSUME NEW s \in SecretId, secret'[s].stage = "live", secret[s].stage # "live" PROVE s \in creds'
  <2>1. Created(s) /\ secret[s].stage = "none"
    BY <1>1, <1>5, KnownStays DEF Created, NextSecret
  <2>2. secret'[s] # secret[s]
    BY <1>5
  <2>3. PICK q \in SecretId \cup Admissions, t \in SecretId : Stores(q, t)
    BY <2>1, <2>2, <1>1, <1>5, AccountSteps DEF AccountStep, NothingCreated
  <2>4. t = s
    BY <2>2, <2>3, <1>1 DEF Stores, StoreCredential, TypeOK, SharedTypeOK
  <2> QED
    BY <2>3, <2>4, <1>2 DEF Loaded, Stores, StoreCredential
<1> QED
  BY <1>3, <1>4, <1>5

-----------------------------------------------------------------------------
(* References: who names a Secret.                                         *)

LEMMA KnownMonotone ==
    ASSUME TypeOK, [Next]_vars, NEW x \in 0..MaxSecrets, Known(x)
    PROVE  Known(x)'
BY KnownStays, ConstantsAssumption DEF Known, SecretId

LEMMA NewestKnown ==
    ASSUME Inv
    PROVE  Known(NewestOrNone(secret)) /\ Known(NewestOrNone(seen))
<1>1. ASSUME NEW view, \A s \in Existing(view) : secret[s].stage # "none"
      PROVE  Known(NewestOrNone(view))
  BY <1>1, NewestExists DEF NewestOrNone, Known, IsNewest
<1>2. \A s \in Existing(secret) : secret[s].stage # "none"
  BY DEF Existing
<1>3. \A s \in Existing(seen) : secret[s].stage # "none"
  BY DEF Existing, Inv, Lag
<1> QED
  BY <1>1, <1>2, <1>3

\* What an admission names: what it knew, the newest Secret, or the one it made.
LEMMA AdmissionNames ==
    ASSUME TypeOK, [Next]_vars, NEW h \in Admissions
    PROVE  /\ admission'[h].newest \in {0, admission[h].newest, NewestOrNone(secret)}
           /\ \/ admission'[h].ref \in {0, admission[h].ref, admission[h].newest, NewestOrNone(secret)}
              \/ admission'[h].ref \in SecretId /\ secret'[admission'[h].ref].stage # "none"
<1>1. admission[h] \in AdmissionRecord /\ admission \in [Admissions -> AdmissionRecord]
  BY DEF TypeOK, AdmissionTypeOK
<1>2. \A pc : AdmissionGoto(h, pc) => /\ admission'[h].newest = admission[h].newest
                                      /\ admission'[h].ref = admission[h].ref
  BY <1>1 DEF AdmissionGoto, AdmissionRecord
<1>3. CASE Arrive(h) \/ PersistShoot(h) \/ AdmissionFail(h)
  BY <1>1, <1>3 DEF Arrive, PersistShoot, AdmissionFail, IdleAdmission
<1>4. CASE AdmissionEnsureBinding(h) \/ AdmissionCreateCredential(h)
           \/ \E workerless \in BOOLEAN : AdmissionEnsureUser(h, workerless)
  BY <1>2, <1>4 DEF AdmissionEnsureBinding, AdmissionCreateCredential, AdmissionEnsureUser
<1>5. ASSUME NEW answer \in 0..MaxSecrets, ListSecrets(h, answer)
      PROVE  admission'[h].newest = admission[h].newest /\ admission'[h].ref \in {admission[h].newest, NewestOrNone(secret)}
  BY <1>1, <1>5 DEF ListSecrets, AdmissionRecord
<1>6. ASSUME NEW s \in SecretId, AdmissionCreateSecret(h, s)
      PROVE  admission'[h].newest = admission[h].newest /\ admission'[h].ref = s /\ secret'[s].stage # "none"
  <2>1. secret'[s].stage = "live"
    BY <1>6, StoreStep DEF AdmissionCreateSecret, Created
  <2> QED
    BY <2>1, <1>1, <1>6 DEF AdmissionCreateSecret, AdmissionRecord
<1>7. CASE admission'[h] = admission[h]
  BY <1>7
<1> QED
  BY <1>3, <1>4, <1>5, <1>6, <1>7, WhoAsks DEF RequestStep, AdmissionStep

\* Who changes the reference of the Shoot.
LEMMA BindingMoves ==
    ASSUME TypeOK, [Next]_vars
    PROVE  \/ shoot'.binding = shoot.binding /\ (shoot.phase \in {"none", "gone"} => shoot'.phase = shoot.phase)
           \/ PatchBinding /\ shoot'.binding = shootWorker.target /\ shoot'.phase = shoot.phase
           \/ \E h \in Admissions : PersistShoot(h) /\ shoot'.binding = admission[h].ref /\ shoot'.phase = "live"
           \/ shoot'.binding = 0 /\ shoot'.phase = "gone" /\ shoot.phase = "deleted"
<1>1. shoot \in ShootRecord
  BY DEF TypeOK, SharedTypeOK
<1>2. CASE UNCHANGED shoot
  BY <1>2
<1>3. CASE ShootNext
  BY <1>1, <1>3 DEF ShootNext, ShootCall, StartShoot, AddShootFinalizer, PatchBinding, ListAllSecrets, DeleteListed,
                    RemoveShootFinalizer, FailShoot, sharedVars, ShootRecord
<1>4. ASSUME NEW s \in SecretId, StartReconcile(s) \/ CallOf(s) \/ Fail(s) PROVE UNCHANGED shoot
  BY <1>4 DEF StartReconcile, CallOf, Fail, AddFinalizer, EnsureBinding, EnsureUser, CreateNewCredential, CreateNewSecret,
              DeleteSelf, DeleteBinding, CheckUser, LoginUser, DeleteCredential, DeleteUser, RemoveFinalizer,
              sharedVars, apiVars
<1>5. ASSUME NEW h \in Admissions, RequestStep(h)
      PROVE  UNCHANGED shoot \/ PersistShoot(h)
  BY <1>5 DEF RequestStep, AdmissionStep, Arrive, AdmissionEnsureUser, ListSecrets, AdmissionCreateCredential,
              AdmissionCreateSecret, AdmissionEnsureBinding, AdmissionFail, sharedVars, apiVars
<1>6. ASSUME NEW h \in Admissions, PersistShoot(h)
      PROVE  shoot'.binding = admission[h].ref /\ shoot'.phase = "live"
  BY <1>6 DEF PersistShoot, NoShoot
<1>7. CASE EnvironmentStep
  BY <1>1, <1>7 DEF EnvironmentStep, SyncSecrets, SyncShoot, Tick, OwnerDeletesShoot, GardenerDeletesShoot,
              ShootVanishes, AdministratorDeletesSecret, apiVars, ShootRecord, NoShoot
<1> QED
  BY <1>2, <1>3, <1>4, <1>5, <1>6, <1>7, StepCases DEF vars, sharedVars

\* The shoot controller decides to patch: it adopts the newest Secret it sees.
Adoption ==
    /\ shootWorker'.target = NewestOrNone(seen) /\ shootWorker'.target # 0
    /\ shoot'.phase = shoot.phase /\ shoot'.binding = shoot.binding
    /\ seenShoot.phase # "none" \/ ShootAt("addFinalizer")
    /\ UNCHANGED <<now, secret, seen, seenShoot>>

LEMMA ShootWorkerMoves ==
    ASSUME TypeOK, [Next]_vars
    PROVE  /\ ShootAt("patch")' => UNCHANGED shootWorker \/ Adoption
           /\ ShootAt("addFinalizer")' => UNCHANGED shootWorker \/ (seenShoot.phase # "none" /\ UNCHANGED seenShoot)
<1>1. shoot \in ShootRecord /\ shootWorker \in ShootWorkerRecord
  BY DEF TypeOK, SharedTypeOK, ShootWorkerTypeOK
<1>2. ASSUME NEW obj, NEW inWindow, shootWorker' = AdoptNewest(obj, inWindow)
      PROVE  /\ ~ShootAt("addFinalizer")'
             /\ ShootAt("patch")' => shootWorker'.target = NewestOrNone(seen) /\ shootWorker'.target # 0
  BY <1>2 DEF AdoptNewest, IdleShootWorker, ShootAt
<1>3. ASSUME NEW inWindow \in BOOLEAN, StartShoot(inWindow)
      PROVE  (ShootAt("patch")' => Adoption) /\ seenShoot.phase # "none" /\ UNCHANGED seenShoot
  BY <1>2, <1>3 DEF StartShoot, sharedVars, Adoption, IdleShootWorker, ShootAt
<1>4. ASSUME NEW inWindow \in BOOLEAN, AddShootFinalizer(inWindow)
      PROVE  (ShootAt("patch")' => Adoption) /\ ~ShootAt("addFinalizer")'
  <2>1. shoot'.phase = shoot.phase /\ shoot'.binding = shoot.binding
    BY <1>1, <1>4 DEF AddShootFinalizer, ShootRecord
  <2> QED
    BY <2>1, <1>2, <1>4 DEF AddShootFinalizer, cacheVars, Adoption
<1>5. CASE PatchBinding \/ RemoveShootFinalizer \/ FailShoot
  BY <1>5 DEF PatchBinding, RemoveShootFinalizer, FailShoot, IdleShootWorker, ShootAt
<1>8. CASE ListAllSecrets \/ \E s \in SecretId : DeleteListed(s)
  <2>1. shootWorker'.pc = "deleteEach"
    <3>1. CASE ListAllSecrets
      BY <3>1, <1>1 DEF ListAllSecrets, ShootWorkerRecord
    <3>2. ASSUME NEW s \in SecretId, DeleteListed(s) PROVE shootWorker'.pc = "deleteEach"
      BY <3>2, <1>1 DEF DeleteListed, ShootAt, ShootWorkerRecord
    <3> QED
      BY <1>8, <3>1, <3>2
  <2> QED
    BY <2>1 DEF ShootAt
<1>6. CASE UNCHANGED shootWorker
  BY <1>6
<1>7. CASE EnvironmentStep
  BY <1>7 DEF EnvironmentStep, SyncSecrets, SyncShoot, Tick, OwnerDeletesShoot, GardenerDeletesShoot,
              ShootVanishes, AdministratorDeletesSecret, controllerVars
<1> QED
  BY <1>3, <1>4, <1>5, <1>6, <1>7, <1>8, StepCases DEF ShootNext, ShootCall, ShootAt, vars

LEMMA ReferencesStep ==
    ASSUME Inv, References, [Next]_vars
    PROVE  References'
<1>1. TypeOK /\ \A h \in Admissions : /\ admission[h].newest \in 0..MaxSecrets
                                      /\ admission[h].ref \in 0..MaxSecrets
  BY DEF Inv, TypeOK, AdmissionTypeOK, AdmissionRecord
<1>2. /\ shoot.binding \in 0..MaxSecrets /\ shootWorker.target \in 0..MaxSecrets
      /\ NewestOrNone(secret) \in 0..MaxSecrets /\ NewestOrNone(seen) \in 0..MaxSecrets
  BY <1>1, NewestType DEF TypeOK, SharedTypeOK, ShootRecord, ShootWorkerTypeOK, ShootWorkerRecord
<1>3. Known(0)' /\ Known(NewestOrNone(secret))
  BY NewestKnown DEF Known
<1>4. \A x \in 0..MaxSecrets : Known(x) => (secret'[x].stage # "none" \/ x = 0)
  BY <1>1, KnownMonotone DEF Known
<1>5. ASSUME NEW h \in Admissions PROVE Known(admission[h].newest)' /\ Known(admission[h].ref)'
  BY <1>1, <1>2, <1>3, <1>4, AdmissionNames DEF References, Known
<1>6. \A s \in SecretId : seen[s].stage # "none" => seen'[s].stage # "none" /\ secret[s].stage # "none"
  BY <1>1, Frames, Types DEF Frame, SeenStep, rest, Inv, Lag, Ended, Stage
<1>7. ShootAt("patch") => Known(shootWorker.target)
  BY <1>2, <1>6, ConstantsAssumption DEF References, Known, SecretId
<1>8. Known(shoot.binding)'
  BY <1>1, <1>2, <1>4, <1>7, BindingMoves DEF References, Known, PatchBinding
<1>9. ASSUME ShootAt("patch")' PROVE shootWorker'.target # 0 /\ seen'[shootWorker'.target].stage # "none"
  <2>1. CASE UNCHANGED shootWorker
    BY <2>1, <1>2, <1>6, <1>9, ConstantsAssumption DEF References, ShootAt, SecretId
  <2>2. CASE Adoption
    <3>1. Existing(seen) # {}
      BY <2>2 DEF Adoption, NewestOrNone
    <3>2. NewestOrNone(seen) \in Existing(seen)
      BY <3>1, NewestExists DEF NewestOrNone, IsNewest
    <3> QED
      BY <2>2, <3>2 DEF Adoption, Existing
  <2> QED
    BY <1>1, <1>9, <2>1, <2>2, ShootWorkerMoves
<1> QED
  BY <1>5, <1>8, <1>9 DEF References

-----------------------------------------------------------------------------
(* Forward: the Shoot moves on to younger Secrets.                         *)

\* What is kept remains so.
LEMMA KeptStep ==
    ASSUME Inv, Orderly, InUse, [Next]_vars, NEW s \in SecretId, Kept(s)
    PROVE  Kept(s)'
<1>1. TypeOK /\ InUseInv /\ SeenStep
  BY Frames DEF Inv, Frame
<1>2. PICK t \in SecretId : t >= s /\ secret[t].stage = "live"
  BY DEF Kept
<1>3. \E u \in SecretId : u >= s /\ secret'[u].stage = "live"
  <2>1. CASE secret'[t].stage # "live"
    <3>1. Follower(t)
      BY <2>1, <1>1, <1>2, LiveStep DEF InUseInv, Follower
    <3>2. PICK u \in SecretId : u > t /\ secret'[u].stage = "live"
      BY <3>1, FollowerStep DEF Follower
    <3>3. u >= s
      BY <3>2, <1>1, <1>2, Types
    <3> QED
      BY <3>2, <3>3
  <2> QED
    BY <2>1, <1>2
<1>4. seen'[s].stage # "none" => \E u \in SecretId : u >= s /\ seen'[u].stage = "live"
  <2>1. CASE seen' = secret
    BY <2>1, <1>2
  <2>2. CASE seen' = seen
    BY <2>2 DEF Kept
  <2> QED
    BY <2>1, <2>2, <1>1 DEF SeenStep
<1> QED
  BY <1>3, <1>4 DEF Kept

\* What begins to be used is live, and so it is for the operator if it has it.
LEMMA LiveIsKept ==
    ASSUME TypeOK, Lag, NEW s \in SecretId, secret[s].stage = "live"
    PROVE  Kept(s)
<1>1. s >= s
  BY Types
<1>2. seen[s].stage \in {"none", "live"}
  BY Types DEF Lag, Ended, Stage
<1> QED
  BY <1>1, <1>2 DEF Kept

\* What the shoot controller adopts has not gone, or something younger stays.
LEMMA AdoptedIsKept ==
    ASSUME Inv, InUse, NEW s \in Existing(seen)
    PROVE  Kept(s) /\ (secret[s].stage = "live" \/ Expired(s))
<1>1. TypeOK /\ Lag /\ InUseInv
  BY DEF Inv
<1>2. s \in SecretId /\ seen[s].stage \in {"live", "terminating"} /\ s >= s
  BY <1>1, Types DEF Existing
<1>3. ~Settled(s)
  BY <1>2 DEF Settled
<1>4. secret[s].stage \in {"live", "terminating", "gone"}
  BY <1>1, <1>2, <1>3, Types DEF Lag, InUseInv, Stage
<1>5. \E t \in SecretId : t >= s /\ secret[t].stage = "live"
  <2>1. CASE secret[s].stage = "live"
    BY <2>1, <1>2
  <2>2. CASE secret[s].stage # "live"
    <3>1. PICK t \in SecretId : t > s /\ secret[t].stage = "live"
      BY <2>2, <1>1, <1>2, <1>3, <1>4 DEF InUseInv, Succeeded
    <3>2. t >= s
      BY <3>1, <1>1, <1>2, Types
    <3> QED
      BY <3>1, <3>2
  <2> QED
    BY <2>1, <2>2
<1>6. \E t \in SecretId : t >= s /\ seen[t].stage = "live"
  <2>1. CASE seen[s].stage = "live"
    BY <2>1, <1>2
  <2>2. CASE seen[s].stage = "terminating"
    <3>1. PICK t \in SecretId : t > s /\ seen[t].stage = "live"
      BY <2>2, <1>1, <1>2, <1>3 DEF InUseInv, Succeeded
    <3>2. t >= s
      BY <3>1, <1>1, <1>2, Types
    <3> QED
      BY <3>1, <3>2
  <2> QED
    BY <2>1, <2>2, <1>2
<1>7. secret[s].stage = "live" \/ Expired(s)
  BY <1>1, <1>2, <1>3, <1>4 DEF InUseInv
<1> QED
  BY <1>5, <1>6, <1>7 DEF Kept

\* A Secret to which the Shoot moves stays, or expires.
LEMMA UsableStep ==
    ASSUME Inv, Orderly, InUse, [Next]_vars, NEW s \in SecretId,
           secret[s].stage = "live" \/ (secret[s].stage # "none" /\ Expired(s))
    PROVE  secret'[s].stage = "live" \/ Expired(s)'
<1>1. TypeOK /\ InUseInv
  BY DEF Inv
<1>2. CASE secret[s].stage # "none" /\ Expired(s)
  BY <1>1, <1>2, AgesOnly
<1>3. CASE secret[s].stage = "live" /\ secret'[s].stage # "live"
  <2>1. Expired(s)
    BY <1>1, <1>3, LiveStep DEF InUseInv, Settled
  <2> QED
    BY <2>1, <1>1, <1>3, AgesOnly
<1> QED
  BY <1>2, <1>3

\* What the shoot controller adopts is not older than what the Shoot uses,
\* unless the informer does not have the latter yet.
LEMMA AdoptionForward ==
    ASSUME Inv, References, Forward, InUse, Adoption
    PROVE  shoot.binding =< NewestOrNone(seen) \/ ~Expired(NewestOrNone(seen))
<1> DEFINE b == shoot.binding
<1>1. TypeOK
  BY DEF Inv
<1>2. Existing(seen) # {}
  BY DEF Adoption, NewestOrNone
<1>3. IsNewest(NewestOrNone(seen), seen)
  BY <1>2, NewestExists DEF NewestOrNone
<1>4. b \in 0..MaxSecrets /\ NewestOrNone(seen) \in SecretId
  BY <1>1, <1>3 DEF TypeOK, SharedTypeOK, ShootRecord, IsNewest, Existing
<1>5. CASE b = 0
  BY <1>4, <1>5, ConstantsAssumption DEF SecretId
<1>6. CASE b # 0 /\ seen[b].stage # "none"
  <2>1. PICK t \in SecretId : t >= b /\ seen[t].stage = "live"
    BY <1>6 DEF Forward, Kept
  <2>2. t =< NewestOrNone(seen)
    BY <2>1, <1>3 DEF IsNewest, Existing
  <2> QED
    BY <2>1, <2>2, <1>4, ConstantsAssumption DEF SecretId
<1>7. CASE b # 0 /\ seen[b].stage = "none"
  <2>1. AllYoung
    BY <1>7 DEF Forward
  <2>2. ~Past(NewestOrNone(seen))
    BY <1>1, <1>3, Types DEF Past, Settled, IsNewest, Existing, Inv, Lag
  <2> QED
    BY <2>1, <2>2, <1>1, <1>4, ExpiredIsOld DEF AllYoung
<1> QED
  BY <1>5, <1>6, <1>7

\* At the beginning of its use the Shoot names a live Secret or none, and the
\* shoot controller has nothing in hand.
LEMMA ForwardBegins ==
    ASSUME Inv, References, Forward, Orderly, [Next]_vars, ~InUse, InUse'
    PROVE  /\ ~ShootAt("patch")' /\ AllYoung'
           /\ shoot'.binding # 0 => Kept(shoot.binding)'
<1>1. TypeOK /\ TypeOK' /\ Lag' /\ ShootLag /\ Asking
  BY StepTypes, LagStep DEF Inv
<1>2. UNCHANGED <<now, secret, seen, seenShoot, worker>> /\ NothingLeft
  BY InUseStep
<1>3. AllYoung'
  BY <1>2 DEF NothingLeft, AllYoung, Past, Settled, Young, Age, PastRenewTime, At
<1>4. PICK h \in Admissions : PersistShoot(h) /\ shoot'.binding = admission[h].ref
  BY <1>1, <1>2, BindingMoves DEF InUse, NothingLeft
<1>5. ~ShootAt("patch")'
  <2>1. ~ShootAt("patch")
    BY <1>1, <1>2 DEF NothingLeft, ShootLag, Forward, ShootAt
  <2>2. ~Adoption
    BY <1>1, <1>2, <1>4 DEF PersistShoot, NoShoot, Adoption
  <2> QED
    BY <2>1, <2>2, <1>1, ShootWorkerMoves DEF ShootAt
<1>6. ASSUME shoot'.binding # 0 PROVE Kept(shoot.binding)'
  <2>0. admission[h].ref \in 0..MaxSecrets
    BY <1>1 DEF TypeOK, AdmissionTypeOK, AdmissionRecord
  <2>1. shoot'.binding \in SecretId /\ shoot'.binding \in Cited
    BY <2>0, <1>4, <1>6, ConstantsAssumption DEF Cited, PersistShoot, AdmissionAt, SecretId
  <2>2. secret'[shoot'.binding].stage = "live"
    BY <2>1, <1>1, <1>2 DEF Asking
  <2>3. \A s \in SecretId : secret'[s].stage = "live" => Kept(s)'
    <3> TAKE s \in SecretId
    <3>1. secret[s].stage = "live" => Kept(s)
      BY LiveIsKept DEF Inv
    <3> QED
      BY <3>1, <1>2 DEF Kept
  <2> QED
    BY <2>1, <2>2, <2>3 DEF Kept
<1> QED
  BY <1>3, <1>5, <1>6

LEMMA ForwardStep ==
    ASSUME Inv, References, Forward, Orderly, [Next]_vars
    PROVE  Forward'
<1>1. TypeOK /\ TypeOK' /\ Lag /\ ShootLag /\ SeenStep /\ ClockStep
  BY StepTypes, Frames DEF Inv, Frame
<1>2. ASSUME ShootAt("addFinalizer")' \/ ShootAt("patch")' PROVE seenShoot'.phase # "none"
  <2>1. seenShoot.phase # "none"
    BY <1>1, <1>2, ShootWorkerMoves DEF Forward, Adoption, ShootAt
  <2> QED
    BY <2>1, <1>1 DEF SeenStep, ShootLag
<1>3. CASE InUse' /\ ~InUse
  <2>1. ~ShootAt("patch")' /\ AllYoung' /\ (shoot'.binding # 0 => Kept(shoot.binding)')
    BY <1>3, ForwardBegins
  <2> QED
    BY <2>1, <1>2 DEF Forward
<1>4. CASE InUse' /\ InUse
  <2>1. shoot.binding \in 0..MaxSecrets /\ Known(shoot.binding)
    BY <1>1 DEF TypeOK, SharedTypeOK, ShootRecord, References
  <2>2. ASSUME ShootAt("patch") PROVE shootWorker.target \in SecretId /\ seen[shootWorker.target].stage # "none"
    <3>1. shootWorker.target \in 0..MaxSecrets
      BY <1>1 DEF TypeOK, ShootWorkerTypeOK, ShootWorkerRecord
    <3> QED
      BY <3>1, <2>2, ConstantsAssumption DEF References, SecretId
  <2>3. \/ shoot'.binding = shoot.binding
        \/ PatchBinding /\ shoot'.binding = shootWorker.target
    BY <1>1, <1>4, BindingMoves DEF InUse, PersistShoot
  <2>4. \A s \in SecretId : Kept(s) => Kept(s)'
    BY <1>4, KeptStep
  <2>5. ASSUME shoot'.binding # 0 PROVE Kept(shoot.binding)'
    <3>1. shoot'.binding \in SecretId /\ Kept(shoot'.binding)
      <4>1. CASE shoot'.binding = shoot.binding
        BY <4>1, <2>1, <2>5, <1>4, ConstantsAssumption DEF Forward, SecretId
      <4>2. CASE PatchBinding /\ shoot'.binding = shootWorker.target
        BY <4>2, <2>2, <1>4 DEF Forward, PatchBinding
      <4> QED
        BY <2>3, <4>1, <4>2
    <3> QED
      BY <3>1, <2>4 DEF Kept
  <2>6. ASSUME shoot.binding # 0, AllYoung => now' # now PROVE seen'[shoot.binding].stage # "none"
    <3>1. secret[shoot.binding].stage # "none" /\ shoot.binding \in SecretId
      BY <2>1, <2>6, ConstantsAssumption DEF Known, SecretId
    <3>2. CASE seen' = secret
      BY <3>1, <3>2
    <3>3. CASE seen' = seen /\ ~AllYoung
      BY <3>3, <1>4, <2>6 DEF Forward
    <3>4. CASE seen' = seen /\ now' # now
      BY <3>1, <3>4, <1>1 DEF ClockStep, Quiet
    <3> QED
      BY <3>2, <3>3, <3>4, <2>6, <1>1 DEF SeenStep
  <2>7. ASSUME shoot'.binding # 0, seen'[shoot'.binding].stage = "none" PROVE AllYoung'
    <3>1. CASE PatchBinding /\ shoot'.binding = shootWorker.target
      BY <3>1, <2>2, <2>7 DEF PatchBinding, cacheVars
    <3>2. CASE shoot'.binding = shoot.binding
      <4>1. AllYoung /\ now' = now
        BY <3>2, <2>6, <2>7
      <4> QED
        BY <4>1, <1>1, AllYoungStep
    <3> QED
      BY <2>3, <3>1, <3>2
  <2>8. CASE ~ShootAt("patch")'
    BY <1>2, <1>4, <2>5, <2>7, <2>8 DEF Forward
  <2>9. CASE ShootAt("patch")' /\ UNCHANGED shootWorker
    <3>1. ShootAt("patch") /\ now' = now
      BY <2>9, <1>1 DEF ClockStep, Quiet, ShootAt
    <3>2. shoot'.binding = shoot.binding
      BY <2>3, <2>9 DEF PatchBinding, ShootAt, IdleShootWorker
    <3>3. secret[shootWorker.target].stage # "none"
      BY <3>1, <2>2, <1>1, Types DEF Lag, Ended, Stage
    <3>4. PICK l \in SecretId : l = shootWorker.target /\ l = shootWorker'.target
      BY <3>1, <2>2, <2>9
    <3>5. secret'[l].stage = "live" \/ Expired(l)'
      BY <3>1, <3>3, <3>4, <1>4, UsableStep DEF Forward
    <3>6. shoot'.binding =< l \/ ~Expired(l)'
      BY <3>1, <3>2, <3>3, <3>4, <1>1, <1>4, AgesOnly DEF Forward
    <3>7. Kept(l)'
      BY <3>1, <3>4, <2>4, <1>4 DEF Forward
    <3>8. /\ Kept(shootWorker.target)'
          /\ (secret[shootWorker.target].stage = "live" \/ Expired(shootWorker.target))'
          /\ (shoot.binding =< shootWorker.target \/ ~Expired(shootWorker.target))'
      BY <3>4, <3>5, <3>6, <3>7 DEF Kept, Expired, Age
    <3> QED
      BY <3>8, <1>2, <2>5, <2>7, <2>9 DEF Forward
  <2>10. CASE ShootAt("patch")' /\ Adoption
    <3>1. /\ shootWorker'.target = NewestOrNone(seen) /\ shoot'.binding = shoot.binding
          /\ UNCHANGED <<now, secret, seen>>
      BY <2>10 DEF Adoption
    <3>2. NewestOrNone(seen) \in Existing(seen)
      <4>1. Existing(seen) # {}
        BY <2>10 DEF Adoption, NewestOrNone
      <4> QED
        BY <4>1, NewestExists DEF NewestOrNone, IsNewest
    <3>3. PICK l \in Existing(seen) : l = NewestOrNone(seen)
      BY <3>2
    <3>4. shoot.binding =< NewestOrNone(seen) \/ ~Expired(NewestOrNone(seen))
      BY <2>10, <1>4, AdoptionForward
    <3>5. Kept(l) /\ (secret[l].stage = "live" \/ Expired(l)) /\ (shoot.binding =< l \/ ~Expired(l))
      BY <3>3, <3>4, <1>4, AdoptedIsKept
    <3>6. /\ Kept(shootWorker.target)'
          /\ (secret[shootWorker.target].stage = "live" \/ Expired(shootWorker.target))'
          /\ (shoot.binding =< shootWorker.target \/ ~Expired(shootWorker.target))'
      BY <3>1, <3>3, <3>5 DEF Kept, Expired, Age
    <3> QED
      BY <3>6, <1>2, <2>5, <2>7, <2>10 DEF Forward
  <2> QED
    BY <2>8, <2>9, <2>10, <1>1, ShootWorkerMoves
<1>5. CASE ~InUse'
  BY <1>2, <1>5 DEF Forward
<1> QED
  BY <1>3, <1>4, <1>5

-----------------------------------------------------------------------------
(* Unbound: what was cleaned up stays so.                                  *)

\* Who makes a CredentialsBinding.
LEMMA BindingMade ==
    ASSUME TypeOK, [Next]_vars, NEW s \in SecretId, s \in bindings', s \notin bindings
    PROVE  EnsureBinding(s) \/ \E h \in Admissions : AdmissionEnsureBinding(h) /\ admission[h].ref = s
<1>1. ASSUME NEW t \in SecretId, StartReconcile(t) \/ CallOf(t) \/ Fail(t) PROVE EnsureBinding(s)
  <2>1. bindings' \subseteq bindings \/ EnsureBinding(t)
    BY <1>1 DEF StartReconcile, CallOf, Fail, AddFinalizer, EnsureUser, CreateNewCredential, CreateNewSecret,
                DeleteSelf, DeleteBinding, CheckUser, LoginUser, DeleteCredential, DeleteUser, RemoveFinalizer,
                sharedVars, apiVars
  <2> QED
    BY <2>1 DEF EnsureBinding, EnsureCredentialsBinding
<1>2. ASSUME NEW h \in Admissions, RequestStep(h)
      PROVE  AdmissionEnsureBinding(h) /\ admission[h].ref = s
  <2>1. UNCHANGED bindings \/ AdmissionEnsureBinding(h)
    BY <1>2 DEF RequestStep, AdmissionStep, Arrive, AdmissionEnsureUser, ListSecrets, AdmissionCreateCredential,
                AdmissionCreateSecret, PersistShoot, AdmissionFail, sharedVars, apiVars
  <2> QED
    BY <2>1 DEF AdmissionEnsureBinding, EnsureCredentialsBinding
<1>3. ~ShootNext
  BY DEF ShootNext, ShootCall, StartShoot, AddShootFinalizer, PatchBinding, ListAllSecrets, DeleteListed,
         RemoveShootFinalizer, FailShoot, sharedVars
<1>4. ~EnvironmentStep
  BY DEF EnvironmentStep, SyncSecrets, SyncShoot, Tick, OwnerDeletesShoot, GardenerDeletesShoot,
         ShootVanishes, AdministratorDeletesSecret, apiVars
<1> QED
  BY <1>1, <1>2, <1>3, <1>4, StepCases DEF vars, sharedVars

LEMMA UnboundStep ==
    ASSUME Inv, Unbound, Orderly, [Next]_vars
    PROVE  Unbound'
<1> SUFFICES ASSUME NEW s \in SecretId
             PROVE  /\ secret'[s].stage = "gone"
                       => seen'[s].stage \in {"terminating", "gone"} /\ worker'[s].pc \notin RegularPc
                    /\ worker'[s].pc \in CleanupPc \ {"deleteBinding"} \/ secret'[s].stage = "gone"
                       => s \notin bindings'
  BY DEF Unbound
<1>1. TypeOK /\ Lag /\ Asking /\ SeenStep
  BY Frames DEF Inv, Frame
<1>2. worker[s].pc \in CleanupPc => seen[s].stage \in {"terminating", "gone"}
  BY DEF Inv, Workers
<1>3. ASSUME secret'[s].stage = "gone"
      PROVE  seen'[s].stage \in {"terminating", "gone"} /\ worker'[s].pc \notin RegularPc
  <2>1. CASE RemoveFinalizer(s)
    <3>1. seen[s].stage \in {"terminating", "gone"} /\ UNCHANGED seen
      BY <2>1, <1>2 DEF RemoveFinalizer, At, CleanupPc, cacheVars
    <3>2. worker'[s].pc = "idle"
      BY <2>1, <1>1 DEF RemoveFinalizer, Goto, IdleWorker, TypeOK, WorkerTypeOK
    <3> QED
      BY <3>1, <3>2 DEF RegularPc
  <2>2. CASE secret[s].stage = "gone"
    <3>1. seen[s].stage \in {"terminating", "gone"} /\ worker[s].pc \notin RegularPc
      BY <2>2 DEF Unbound
    <3>2. seen'[s].stage \in {"terminating", "gone"}
      BY <3>1, <2>2, <1>1 DEF SeenStep
    <3>3. worker'[s].pc \notin RegularPc
      BY <3>1, <1>1, EachWorker
         DEF WorkerStep, Idles, Starts, StartsNew, Continues, Renews, Renewed, StartsCleanup, CleansUp, At, CleanupPc,
             RegularPc, CallAfterCredential
    <3> QED
      BY <3>2, <3>3
  <2> QED
    BY <2>1, <2>2, <1>1, <1>3, RemovedBy
<1>4. ASSUME worker[s].pc \in CleanupPc \ {"deleteBinding"} \/ secret[s].stage = "gone"
      PROVE  s \notin bindings'
  <2>1. s \notin bindings /\ secret[s].stage \in {"terminating", "gone"} /\ worker[s].pc # "ensureBinding"
    BY <1>1, <1>2, <1>4 DEF Unbound, Lag, Ended, RegularPc, CleanupPc
  <2>2. ~EnsureBinding(s)
    BY <2>1 DEF EnsureBinding, At
  <2>3. s \notin Cited
    BY <2>1, <1>1 DEF Asking
  <2>4. ASSUME NEW h \in Admissions, AdmissionEnsureBinding(h) PROVE admission[h].ref # s
    BY <2>3, <2>4 DEF Cited, AdmissionEnsureBinding, AdmissionAt
  <2> QED
    BY <2>1, <2>2, <2>4, <1>1, BindingMade
<1>5. ASSUME worker'[s].pc \in CleanupPc \ {"deleteBinding"}, worker[s].pc \notin CleanupPc \ {"deleteBinding"}
      PROVE  s \notin bindings'
  <2>1. DeleteBinding(s)
    BY <1>1, <1>5, WhoMoves, Calls DEF At, CleanupPc, RegularPc, CheckUser, LoginUser, DeleteCredential, DeleteUser
  <2> QED
    BY <2>1 DEF DeleteBinding
<1>6. ASSUME secret'[s].stage = "gone", secret[s].stage # "gone"
      PROVE  worker[s].pc \in CleanupPc \ {"deleteBinding"}
  BY <1>1, <1>6, RemovedBy DEF RemoveFinalizer, At, CleanupPc
<1> QED
  BY <1>3, <1>4, <1>5, <1>6

-----------------------------------------------------------------------------
LEMMA LeaseInvInit == Init => LeaseInv
<1> SUFFICES ASSUME Init PROVE LeaseInv
  OBVIOUS
<1>1. \A s \in SecretId : secret[s].stage = "none" /\ At(s, "idle")
  BY DEF Init, SharedInit, NoSecret, WorkerInit, IdleWorker, At
<1>2. \A h \in Admissions : admission[h].newest = 0 /\ admission[h].ref = 0 /\ AdmissionAt(h, "idle")
  BY DEF Init, AdmissionInit, IdleAdmission, AdmissionAt
<1>3. shoot.phase = "none" /\ shoot.binding = 0 /\ shootWorker.pc = "idle" /\ creds = {} /\ loose = {} /\ bindings = {}
  BY DEF Init, SharedInit, NoShoot, ShootWorkerInit, IdleShootWorker
<1>4. Accounted /\ References
  BY <1>2, <1>3 DEF Accounted, References, Known, ShootAt
<1>5. Backed /\ Forward /\ Unbound
  BY <1>1, <1>2, <1>3
     DEF Backed, Needed, Forward, Unbound, InUse, AdmissionsIdle, ShootAt, At, AdmissionAt, CleanupPc
<1> QED
  BY <1>4, <1>5, InvInit DEF LeaseInv

\* The invariant holds whatever the numbers of Secrets, requests and instants,
\* the validity and the grace period are: the credentials of a Shoot in use are
\* in Keystone, and the controllers name only what they have seen.
THEOREM LeaseInvariance ==
    ASSUME Orderly
    PROVE  Spec => []LeaseInv
<1>1. LeaseInv /\ [Next]_vars => LeaseInv'
  <2> SUFFICES ASSUME LeaseInv, [Next]_vars PROVE LeaseInv'
    OBVIOUS
  <2>1. Inv' /\ Accounted'
    BY InvStep, AccountedStep DEF LeaseInv, Inv
  <2> QED
    BY <2>1, ReferencesStep, BackedStep, ForwardStep, UnboundStep DEF LeaseInv
<1> QED
  BY <1>1, LeaseInvInit, PTL DEF Spec

\* A Secret whose finalizer was removed has left neither a CredentialsBinding
\* nor an application credential behind (delete, lines 245-290).
THEOREM CleanedUpFirst ==
    ASSUME Orderly
    PROVE  Spec => []RemovedIsCleanedUp
<1>1. LeaseInv /\ RevokedBeforeRemoval => RemovedIsCleanedUp
  BY DEF LeaseInv, Unbound, RevokedBeforeRemoval, RemovedIsCleanedUp
<1> QED
  BY <1>1, LeaseInvariance, RevokedFirst, PTL DEF Spec

-----------------------------------------------------------------------------
(* The refinement.                                                         *)

\* Leases are issued with the Secrets and do not lapse without the clock.
LEMMA IssuedSame ==
    ASSUME TypeOK, [Next]_vars, NothingCreated
    PROVE  Issued' = Issued
BY KnownStays DEF Issued, NothingCreated

LEMMA LapsedSame ==
    ASSUME TypeOK, [Next]_vars, now' = now
    PROVE  Lapsed' = Lapsed
<1>1. ASSUME NEW s \in SecretId, secret[s].stage # "none"
      PROVE  secret'[s].stage # "none" /\ secret'[s].created = secret[s].created
  BY <1>1, EachSecret DEF SecretStep, Unchanged, Finalized, Created, NextSecret, Deleted, Removed
<1>2. ASSUME NEW s \in SecretId, secret[s].stage = "none", secret'[s].stage # "none"
      PROVE  secret'[s].created = now
  BY <1>2, EachSecret DEF SecretStep, Unchanged, Finalized, Created, NextSecret, Deleted, Removed
<1>3. now \in Nat /\ ~ (now - now >= Validity)
  BY ConstantsAssumption DEF TypeOK, SharedTypeOK
<1> QED
  BY <1>1, <1>2, <1>3 DEF Lapsed, Expired, Age

\* The clock lets terms end, and nothing else.
LEMMA ClockImplements ==
    ASSUME TypeOK, TypeOK', [Next]_vars, now' # now
    PROVE  [Lease!Next]_Lease!vars
<1>1. now' = now + 1 /\ UNCHANGED <<secret, shoot>>
  BY Frames DEF Frame, ClockStep, rest
<1>2. UNCHANGED openstackVars /\ NothingCreated
  BY AccountSteps DEF AccountStep
<1>3. Issued' = Issued
  BY <1>2, IssuedSame
<1>4. LeasePhase' = LeasePhase /\ Held' = Held
  BY <1>1 DEF LeasePhase, Held, InUse
<1>5. \A s \in SecretId : Expired(s) => Expired(s)'
  <2> TAKE s \in SecretId
  <2>1. secret'[s].created = secret[s].created /\ secret[s].created \in Nat /\ now \in Nat
    BY <1>1, Types
  <2> QED
    BY <2>1, <1>1, ConstantsAssumption DEF Expired, Age
<1>6. Lapsed \subseteq Lapsed' /\ Lapsed' \subseteq Issued
  BY <1>3, <1>5 DEF Lapsed, Issued
<1>7. CASE Lapsed' # Lapsed
  <2>1. \E l \in SecretId : l \notin Lapsed /\ l \in Lapsed'
    BY <1>6, <1>7 DEF Issued
  <2> QED
    BY <2>1, <1>2, <1>3, <1>4, <1>6 DEF Lease!Next, Lease!Lapse, openstackVars
<1>8. CASE Lapsed' = Lapsed
  BY <1>2, <1>3, <1>4, <1>8 DEF Lease!vars, openstackVars
<1> QED
  BY <1>7, <1>8

\* What changes the Shoot and nothing in Keystone: the Shoot begins with a
\* credential that works, moves on to another, and ends.
LEMMA ShootImplements ==
    ASSUME LeaseInv, LeaseInv', Orderly, [Next]_vars, now' = now,
           UNCHANGED openstackVars, NothingCreated
    PROVE  [Lease!Next]_Lease!vars
<1>1. TypeOK /\ Asking /\ References /\ PhaseStep
  BY Frames DEF LeaseInv, Inv, Frame
<1>2. Issued' = Issued /\ Lapsed' = Lapsed /\ creds' = creds /\ user' = user
  BY <1>1, IssuedSame, LapsedSame DEF openstackVars
<1>3. ASSUME LeasePhase' = LeasePhase, Held' = Held PROVE [Lease!Next]_Lease!vars
  BY <1>2, <1>3 DEF Lease!vars
<1>4. ASSUME NEW h \in Admissions, PersistShoot(h) PROVE [Lease!Next]_Lease!vars
  <2>1. ~AdmissionsIdle
    BY <1>4 DEF PersistShoot, AdmissionsIdle, AdmissionAt
  <2>2. ~InUse /\ Needed
    BY <2>1, <1>4 DEF PersistShoot, InUse, Needed
  <2>3. shoot'.phase = "live" /\ shoot'.binding = admission[h].ref
    BY <1>4 DEF PersistShoot, NoShoot
  <2>4. admission[h].ref \in SecretId \cup {0}
    BY <1>1, ConstantsAssumption DEF TypeOK, AdmissionTypeOK, AdmissionRecord, SecretId
  <2>5. admission[h].ref \in creds \cup {0}
    <3>1. admission[h].ref \in SecretId => admission[h].ref \in Cited
      BY <1>4 DEF Cited, PersistShoot, AdmissionAt
    <3> QED
      BY <3>1, <2>2, <2>4, <1>1 DEF LeaseInv, Backed, Asking
  <2>6. LeasePhase = "free" /\ LeasePhase' = "inUse" /\ Held' = admission[h].ref
    BY <2>2, <2>3 DEF LeasePhase, Held, InUse
  <2>7. Lease!Begin(admission[h].ref)
    BY <1>2, <2>5, <2>6 DEF Lease!Begin
  <2> QED
    BY <2>4, <2>7 DEF Lease!Next
<1>5. ASSUME PatchBinding, shoot'.binding = shootWorker.target, shoot'.phase = shoot.phase
      PROVE  [Lease!Next]_Lease!vars
  <2>1. LeasePhase' = LeasePhase
    BY <1>5 DEF LeasePhase, InUse
  <2>2. CASE ~InUse
    BY <2>1, <2>2, <1>3, <1>5 DEF Held, InUse
  <2>3. CASE InUse
    <3> DEFINE l == shootWorker.target
    <3>1. Held = shoot.binding /\ Held' = l /\ LeasePhase = "inUse"
      BY <2>3, <1>5 DEF Held, InUse, LeasePhase
    <3>2. l \in SecretId /\ secret[l].stage # "none"
      <4>1. l \in SecretId /\ seen[l].stage # "none"
        BY <1>1, <1>5, ConstantsAssumption
           DEF TypeOK, ShootWorkerTypeOK, ShootWorkerRecord, References, PatchBinding, SecretId
      <4> QED
        BY <4>1, Types DEF LeaseInv, Inv, Lag, Ended, Stage
    <3>3. l \in creds \cup Lapsed
      BY <2>3, <3>2, <1>5 DEF LeaseInv, Forward, Backed, Needed, PatchBinding, Lapsed
    <3>4. shoot.binding =< l \/ l \notin Lapsed
      BY <2>3, <1>5 DEF LeaseInv, Forward, PatchBinding, Lapsed
    <3>5. CASE l # shoot.binding
      <4>1. shoot.binding < l \/ l \notin Lapsed
        BY <3>2, <3>4, <3>5, <1>1, ConstantsAssumption DEF TypeOK, SharedTypeOK, ShootRecord, SecretId
      <4>2. Lease!Switch(l)
        BY <1>2, <2>1, <3>1, <3>3, <3>5, <4>1 DEF Lease!Switch
      <4> QED
        BY <4>2, <3>2 DEF Lease!Next
    <3>6. CASE l = shoot.binding
      BY <3>6, <3>1, <2>1, <1>3
    <3> QED
      BY <3>5, <3>6
  <2> QED
    BY <2>2, <2>3
<1>6. ASSUME shoot'.binding = shoot.binding, shoot.phase \in {"none", "gone"} => shoot'.phase = shoot.phase
      PROVE  [Lease!Next]_Lease!vars
  <2>1. CASE shoot.phase = "deleting" /\ shoot'.phase = "deleted"
    <3>1. LeasePhase = "inUse" /\ LeasePhase' = "free" /\ Held' = 0
      BY <2>1 DEF LeasePhase, Held, InUse
    <3> QED
      BY <3>1, <1>2 DEF Lease!Next, Lease!End
  <2>2. CASE shoot'.phase = shoot.phase \/ (shoot.phase = "live" /\ shoot'.phase = "deleting")
             \/ (shoot.phase = "deleted" /\ shoot'.phase = "gone")
    BY <2>2, <1>3, <1>6 DEF LeasePhase, Held, InUse
  <2> QED
    BY <1>1, <1>6, <2>1, <2>2 DEF PhaseStep
<1>7. CASE shoot.phase = "deleted" /\ shoot'.phase = "gone"
  BY <1>7, <1>3 DEF LeasePhase, Held, InUse
<1> QED
  BY <1>1, <1>4, <1>5, <1>6, <1>7, BindingMoves

\* What changes the account: leases are issued with a credential, an expired one
\* is revoked, and the account goes with the Shoot.
LEMMA AccountImplements ==
    ASSUME LeaseInv, LeaseInv', Orderly, [Next]_vars, UNCHANGED <<now, shoot>>,
           ~ (UNCHANGED openstackVars /\ NothingCreated)
    PROVE  [Lease!Next]_Lease!vars
<1>1. TypeOK /\ Accounted' /\ Backed /\ InUseInv /\ Lapsed' = Lapsed
  BY LapsedSame DEF LeaseInv, Inv
<1>2. LeasePhase' = LeasePhase /\ Held' = Held
  BY DEF LeasePhase, Held, InUse
<1>3. UNCHANGED secret => Issued' = Issued
  BY DEF Issued
<1>4. CASE EnsureClusterUser /\ UNCHANGED secret
  <2>1. CASE user
    BY <2>1, <1>1, <1>2, <1>3, <1>4, user \in BOOLEAN
       DEF EnsureClusterUser, Lease!vars, TypeOK, SharedTypeOK
  <2>2. CASE ~user
    <3>1. Lease!OpenAccount
      BY <2>2, <1>1, <1>2, <1>3, <1>4 DEF EnsureClusterUser, Lease!OpenAccount
    <3> QED
      BY <3>1 DEF Lease!Next
  <2> QED
    BY <2>1, <2>2
<1>5. ASSUME NEW p, CreateCredential(p), UNCHANGED secret PROVE [Lease!Next]_Lease!vars
  BY <1>1, <1>2, <1>3, <1>5 DEF CreateCredential, Lease!vars
<1>6. ASSUME NEW s \in SecretId, DeleteCredential(s), UNCHANGED secret PROVE [Lease!Next]_Lease!vars
  <2>1. creds' = creds \ {s} /\ user' = user
    BY <1>6 DEF DeleteCredential
  <2>2. CASE s \notin creds
    BY <2>1, <2>2, <1>1, <1>2, <1>3, <1>6 DEF Lease!vars
  <2>3. CASE s \in creds
    <3>1. Held # s \/ s \in Lapsed
      <4>1. CASE ~InUse
        BY <4>1, ConstantsAssumption DEF Held, SecretId
      <4>2. CASE InUse
        <5>1. secret[s].stage \in {"terminating", "gone"} /\ ~Settled(s)
          BY <4>2, <1>6, NothingLost DEF LeaseInv, Needed, DeleteCredential, Settled, At
        <5> QED
          BY <5>1, <4>2, <1>1 DEF InUseInv, Lapsed
      <4> QED
        BY <4>1, <4>2
    <3>2. Lease!Revoke(s)
      BY <2>1, <2>3, <3>1, <1>1, <1>2, <1>3, <1>6 DEF Lease!Revoke
    <3> QED
      BY <3>2 DEF Lease!Next
  <2> QED
    BY <2>2, <2>3
<1>7. ASSUME NEW s \in SecretId, DeleteUser(s), UNCHANGED secret PROVE [Lease!Next]_Lease!vars
  <2>1. LeasePhase # "inUse" /\ user' = FALSE /\ creds' = {}
    BY <1>1, <1>7 DEF InUseInv, DeleteUser, DeleteClusterUser, LeasePhase, InUse
  <2>2. CASE user
    <3>1. Lease!CloseAccount
      BY <2>1, <2>2, <1>1, <1>2, <1>3, <1>7 DEF Lease!CloseAccount
    <3> QED
      BY <3>1 DEF Lease!Next
  <2>3. CASE ~user
    <3>1. creds = {} /\ user = FALSE
      BY <2>3, <1>1 DEF LeaseInv, Accounted, TypeOK
    <3> QED
      BY <3>1, <2>1, <1>1, <1>2, <1>3, <1>7 DEF Lease!vars
  <2> QED
    BY <2>2, <2>3
<1>8. ASSUME NEW p \in SecretId \cup Admissions, NEW t \in SecretId, Stores(p, t) PROVE [Lease!Next]_Lease!vars
  <2>1. NextSecret(t) /\ user' = user
    BY <1>8 DEF Stores, StoreCredential
  <2>2. Issued' = Issued \cup {t} /\ t \notin Issued /\ t \in Issued'
    BY <1>8, <1>1 DEF Issued, Stores, StoreCredential, NextSecret, TypeOK, SharedTypeOK
  <2>3. \A k \in Issued : k < t
    BY <2>1, <1>1, ConstantsAssumption DEF Issued, NextSecret, LeaseInv, Inv, Ordered, SecretId
  <2>4. creds' \in {creds, creds \cup {t}}
    BY <1>8 DEF Stores, StoreCredential
  <2>5. LeasePhase = "inUse" => t \in creds'
    <3>1. LeasePhase = "inUse" => InUse
      BY DEF LeasePhase
    <3>2. InUse => p \in loose
      BY <1>1, <1>8 DEF Backed, Needed, Stores, Storing
    <3> QED
      BY <3>1, <3>2, <1>8 DEF Stores, StoreCredential
  <2>6. t \in creds' => user
    BY <2>1, <1>1 DEF Accounted
  <2>7. Lease!Issue(t)
    BY <2>1, <2>2, <2>3, <2>4, <2>5, <2>6, <1>1, <1>2 DEF Lease!Issue
  <2> QED
    BY <2>7 DEF Lease!Next
<1> QED
  BY <1>1, <1>4, <1>5, <1>6, <1>7, <1>8, AccountSteps DEF AccountStep

\* Webhook and controllers together, with their caches, failures and owner, keep
\* the promise of CredentialLease to one Shoot after the other of a name, if
\* none is requested while its predecessor is being cleaned up
\* (patchCredentialsBindingName and delete of the two reconcilers).
THEOREM Implementation ==
    ASSUME Orderly
    PROVE  Spec => ImplementsLease
<1>1. Init => Lease!Init
  <2> SUFFICES ASSUME Init PROVE Lease!Init
    OBVIOUS
  <2>1. shoot.phase = "none" /\ creds = {} /\ ~user /\ \A s \in SecretId : secret[s].stage = "none"
    BY DEF Init, SharedInit, NoShoot, NoSecret
  <2>2. LeasePhase = "free" /\ Held = 0 /\ Issued = {} /\ Lapsed = {} /\ user = FALSE
    BY <2>1 DEF Init, SharedInit, LeasePhase, Held, InUse, Issued, Lapsed
  <2> QED
    BY <2>1, <2>2 DEF Lease!Init
<1>2. LeaseInv /\ LeaseInv' /\ [Next]_vars => [Lease!Next]_Lease!vars
  <2> SUFFICES ASSUME LeaseInv, LeaseInv', [Next]_vars PROVE [Lease!Next]_Lease!vars
    OBVIOUS
  <2>1. CASE now' # now
    BY <2>1, ClockImplements DEF LeaseInv, Inv
  <2>2. CASE now' = now /\ UNCHANGED openstackVars /\ NothingCreated
    BY <2>2, ShootImplements
  <2>3. CASE now' = now /\ ~ (UNCHANGED openstackVars /\ NothingCreated)
    <3>1. UNCHANGED shoot
      BY <2>3, AccountSteps DEF AccountStep, LeaseInv, Inv
    <3> QED
      BY <2>3, <3>1, AccountImplements
  <2> QED
    BY <2>1, <2>2, <2>3
<1> QED
  BY <1>1, <1>2, LeaseInvariance, PTL DEF Spec, ImplementsLease, Lease!Spec

-----------------------------------------------------------------------------
(* What whoever grants such a lease promises with it. *)

\* Honoured is not inductive: a credential works only as long as its account.
LeaseHolds ==
    /\ creds # {} => user
    /\ LeasePhase = "inUse" /\ Held # 0 /\ Held \notin Lapsed => Held \in creds

\* Leases are begun and switched to only while they work or after their term,
\* and revoked otherwise.
LEMMA LeaseStep ==
    ASSUME LeaseHolds, [Lease!Next]_(Lease!vars)
    PROVE  LeaseHolds'
<1> USE DEF LeaseHolds
<1>1. CASE Lease!OpenAccount
  BY <1>1 DEF Lease!OpenAccount
<1>2. CASE Lease!End
  BY <1>2 DEF Lease!End
<1>3. CASE Lease!CloseAccount
  BY <1>3 DEF Lease!CloseAccount
<1>4. ASSUME NEW l \in SecretId, Lease!Issue(l)
      PROVE  LeaseHolds'
  BY <1>4 DEF Lease!Issue
<1>5. ASSUME NEW l \in SecretId, Lease!Switch(l)
      PROVE  LeaseHolds'
  BY <1>5 DEF Lease!Switch
<1>6. ASSUME NEW l \in SecretId, Lease!Revoke(l)
      PROVE  LeaseHolds'
  BY <1>6 DEF Lease!Revoke
<1>7. ASSUME NEW l \in SecretId \cup {0}, Lease!Begin(l)
      PROVE  LeaseHolds'
  BY <1>7 DEF Lease!Begin
<1>8. CASE Lease!Lapse
  BY <1>8 DEF Lease!Lapse
<1>9. CASE UNCHANGED Lease!vars
  BY <1>9 DEF Lease!vars
<1> QED
  BY <1>1, <1>2, <1>3, <1>4, <1>5, <1>6, <1>7, <1>8, <1>9 DEF Lease!Next

\* Within its term the lease in use is valid and its account exists, whoever
\* grants it.
THEOREM Honour == Lease!Spec => []Lease!Honoured
<1>1. Lease!Init => LeaseHolds
  BY DEF Lease!Init, LeaseHolds
<1>2. LeaseHolds => Lease!Honoured
  BY DEF LeaseHolds, Lease!Honoured
<1> QED
  BY <1>1, <1>2, LeaseStep, PTL DEF Lease!Spec

\* While Gardener needs the Shoot, and until it expires, the application
\* credential that the Shoot references is in Keystone and so is its user: the
\* lease that the lifecycle grants is honoured.
THEOREM Works ==
    ASSUME Orderly
    PROVE  Spec => []CredentialWorks
<1>1. Lease!Honoured => CredentialWorks
  <2>1. InUse => LeasePhase = "inUse" /\ Held = shoot.binding
    BY DEF LeasePhase, Held, InUse
  <2> QED
    BY <2>1 DEF Lease!Honoured, CredentialWorks, Lapsed
<1> QED
  BY <1>1, Implementation, Honour, PTL DEF ImplementsLease
=============================================================================
