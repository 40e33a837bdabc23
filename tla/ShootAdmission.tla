--------------------------- MODULE ShootAdmission ---------------------------
(***************************************************************************)
(* internal/webhook/shootadmission: the mutating webhook on Shoot creation.*)
(* Each request in flight is a process.  The webhook lists InternalSecrets *)
(* from an informer of its own, whose answer may be as old as the request. *)
(***************************************************************************)
EXTENDS CredentialState

VARIABLE admission   \* [pc, newest Secret when the request came, Secret it chose]

AdmissionPc == {"idle", "ensureUser", "list", "createCredential", "createSecret",
                "ensureBinding", "admitted"}
AdmissionRecord == [pc : AdmissionPc, newest : 0..MaxSecrets, ref : 0..MaxSecrets]
IdleAdmission == [pc |-> "idle", newest |-> 0, ref |-> 0]

AdmissionTypeOK ==
    /\ admission \in [Admissions -> AdmissionRecord]
    /\ \A h \in Admissions : admission[h].pc = "ensureBinding" => admission[h].ref \in SecretId

AdmissionInit == admission = [h \in Admissions |-> IdleAdmission]

AdmissionAt(h, pc) == admission[h].pc = pc
AdmissionsIdle == \A h \in Admissions : AdmissionAt(h, "idle")
AdmissionGoto(h, pc) == admission' = [admission EXCEPT ![h].pc = pc]

\* A Shoot is created with OpenStack information in the user's extras.
Arrive(h) ==
    /\ AdmissionAt(h, "idle")
    /\ admission' = [admission EXCEPT ![h] = [pc |-> "ensureUser", newest |-> NewestOrNone(secret), ref |-> 0]]
    /\ UNCHANGED sharedVars

\* The user is ensured for every Shoot; a workerless one needs nothing more.
AdmissionEnsureUser(h, workerless) ==
    /\ AdmissionAt(h, "ensureUser")
    /\ EnsureClusterUser
    /\ AdmissionGoto(h, IF workerless THEN "admitted" ELSE "list")
    /\ UNCHANGED <<now, apiVars, cacheVars>>

\* ensureOpenStackCredentialInternalSecretAndBinding: the newest Secret is
\* taken whatever its state, a new one is created only if there is none.  That a
\* Secret came and was succeeded during one request is left out.
ListSecrets(h, answer) ==
    /\ AdmissionAt(h, "list")
    /\ answer \in {admission[h].newest, NewestOrNone(secret)}
    /\ admission' = [admission EXCEPT ![h].pc = IF answer = 0 THEN "createCredential" ELSE "ensureBinding",
                                      ![h].ref = answer]
    /\ UNCHANGED sharedVars

AdmissionCreateCredential(h) ==
    /\ AdmissionAt(h, "createCredential")
    /\ CreateCredential(h)
    /\ AdmissionGoto(h, "createSecret")
    /\ UNCHANGED <<now, apiVars, cacheVars>>

AdmissionCreateSecret(h, s) ==
    /\ AdmissionAt(h, "createSecret")
    /\ StoreCredential(h, s)
    /\ admission' = [admission EXCEPT ![h].pc = "ensureBinding", ![h].ref = s]
    /\ UNCHANGED <<now, bindings, shoot, cacheVars>>

AdmissionEnsureBinding(h) ==
    /\ AdmissionAt(h, "ensureBinding")
    /\ EnsureCredentialsBinding(admission[h].ref)
    /\ AdmissionGoto(h, "admitted")
    /\ UNCHANGED <<now, secret, shoot, cacheVars, openstackVars>>

\* External: the API server stores the mutated Shoot if the name is free.
PersistShoot(h) ==
    /\ AdmissionAt(h, "admitted")
    /\ shoot.phase \in {"none", "gone"}
    /\ shoot' = [NoShoot EXCEPT !.phase = "live", !.binding = admission[h].ref]
    /\ admission' = [admission EXCEPT ![h] = IdleAdmission]
    /\ UNCHANGED <<now, secret, bindings, cacheVars, openstackVars>>

\* A call failed, no floating pool was found, a later admission step refused
\* the Shoot, or one of that name exists.
AdmissionFail(h) ==
    /\ ~AdmissionAt(h, "idle")
    /\ admission' = [admission EXCEPT ![h] = IdleAdmission]
    /\ UNCHANGED sharedVars

AdmissionStep(h) ==
    \/ \E workerless \in BOOLEAN : AdmissionEnsureUser(h, workerless)
    \/ \E answer \in 0..MaxSecrets : ListSecrets(h, answer)
    \/ AdmissionCreateCredential(h)
    \/ \E s \in SecretId : AdmissionCreateSecret(h, s)
    \/ AdmissionEnsureBinding(h) \/ PersistShoot(h) \/ AdmissionFail(h)

AdmissionNext == \E h \in Admissions : AdmissionStep(h)
=============================================================================
