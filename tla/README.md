# A verification project for persephone

persephone connects SAP's OpenStack to Gardener. Users log in to a virtual
garden cluster with OpenStack tokens and create Shoots in a namespace of their
OpenStack project; persephone provides the projects, the quotas, the OpenStack
credentials of every Shoot and their renewal, and the audit trail.

This directory holds TLA+ models of that code, the TLC configurations that
check them on small instances, and theorems about all components with proofs
that TLAPS checks: every safety property that a passing run checks, both
refinements included, is proved as well, for all values of the constants or for
those that a theorem names. Paths below are relative to `src/`.

    tlc -workers 2 -config lifecycle.cfg MCCredentialLifecycle.tla   # a run
    tlapm CredentialInvariant_proofs.tla                             # a proof

`PROJECT.json` lists the runs with the properties each checks, the source lines
behind every definition, the hazards of the code, and for each property a
mutant: a plausible bug in the modelled code that makes the run fail.

Contents: 1 Inventory. 2 Modules. 3 Runs. 4 Fairness. 5 Proofs. 6 Where code
and text disagree. 7 Not modelled. 8 Plan.


## 1 Inventory

### Processes and components

| Process (replicas) | Components | State it keeps |
|---|---|---|
| persephone-webhook (2) | token review webhook; Shoot admission webhook | informer caches only; writes Namespaces, Projects, RBAC, ResourceQuotas, InternalSecrets, CredentialsBindings, Keystone users |
| persephone-operator (1) | internalsecret, shoot and project controllers | informer caches, work queues and timers in memory |
| persephone-liquid-apiserver | LIQUID interface for Limes: usage and quota of clusters | an informer cache |
| persephone-audit-webhook (2, leader elected) | audit handler; certificate reconciler (leader); certificate reloader, watcher and callback (every replica) | a certificate directory, certificate and CA pool in memory |
| scikube (a user's machine) | kubectl credential plugin and kubeconfig commands | one cache file per account |

What they share is in the API server of the virtual garden, in Keystone, or in
a cache that follows one of the two. There is no lock between processes. Writes
are mostly patches without resource version, reads mostly come from a cache.

### Components, their operations and what makes them correct

* **internalsecret controller** (`internal/controller/internalsecret`,
  `internal/kubernetes/credentials.go`). For each InternalSecret: add a
  finalizer, ensure a CredentialsBinding, rotate after half the validity (ensure
  the Keystone user, create an application credential, store it in a new
  Secret), delete the Secret when it expires or has had no Shoot for an hour,
  and clean up a terminating one (binding, application credential, and the user
  with the last Secret). *Correct* if no Shoot loses a credential or user it
  needs, every due Secret is renewed, and in time, and nothing is left behind.
* **shoot controller** (`internal/controller/shoot`). Points a live Shoot at its
  newest Secret, at once if forced or confined, else in the maintenance window;
  when Gardener has deleted the Shoot, deletes all Secrets and releases it.
  *Correct* if no wake-up gets lost between watches, predicates, map functions,
  queue and timers, and adoption and release do happen.
* **Shoot admission webhook** (`internal/webhook/shootadmission`). At the
  creation of a Shoot: ensure the user, take the newest Secret or make the
  first, ensure its binding, fill in the Shoot. *Correct* if the Shoot
  references a credential that stays, and if its region, seed and networks fit
  each other and the namespace it is in.
* **cluster user login** (`internal/openstack/clusteruserclientset.go`). Used by
  both of the above, possibly at the same time: find or create the user, reset
  its password, assign its roles, poll the login. *Correct* if a session is one
  of the right user with all its roles, and callers that reset each other's
  password do not starve.
* **names and labels** (`internal/kubernetes/gardener.go`, `userinfo.go`). Names
  of projects and domains go through label values and are read back from them.
  *Correct* if labels are accepted, stable, and nothing is lost on the way.
* **token review webhook** (`internal/webhook/token`). Takes the region from the
  token's prefix, has that region's Keystone validate the token, provisions the
  project and answers who the bearer is. *Correct* if user, namespace and region
  agree with what the user's kubeconfig says.
* **project provisioning** (`internal/kubernetes/gardener.go`,
  `internal/controller/project`, `internal/webhook/token`). Namespace, Project,
  Role, RoleBinding and ResourceQuota, one call each, by every webhook replica
  at every token review and by the operator for new Projects. *Correct* if a
  project begun is completed, and Limes' quota is not overwritten.
* **liquid API server** (`internal/liquidserver`). ScanUsage and SetQuota, on a
  cache. *Correct* if the quota becomes what Limes wants.
* **audit webhook certificates** (`internal/controller/auditcert`,
  `cmd/persephone-audit-webhook`). *Correct* if every replica can always verify
  the API server's audit forwarder, and comes to use the current generation.
* **audit event handler** (`internal/webhook/audithandler`). *Correct* if a batch
  that is acknowledged was recorded, in the right region, and one bad event
  costs no more than the code says it does.
* **scikube auth** (`cmd/scikube/cmd/auth.go`, `internal/auth`). *Correct* if
  concurrent runs on one cache file print live credentials of the right form.
* **scikube kubeconfig-for-garden** (`internal/kubernetes/kubeconfig.go`,
  `internal/openstack/catalog.go`). Finds the garden in the service catalogue and
  writes a kubeconfig. *Correct* if the kubeconfig leads to the namespace that
  the token webhook then provisions.
* **The rest**, not modelled: see section 7.

### What is hard

Stale caches behind every decision; sequences of calls to two systems that can
fail, or stop, between any two; several replicas and workers on the same
objects; names that are used again; retries that repeat a batch or a rotation;
events that are filtered or dropped; files that a reader sees half written.
`PROJECT.json` lists each hazard at its line with the properties that would
catch it going wrong.


## 2 Modules

    CredentialState              what the credential components share
      InternalSecretController   } one module per component
      ShootController            }
      ShootAdmission             }
        CredentialLifecycle      their composition, environment, properties, fairness
          CredentialInvariant    its inductive invariants, and CredentialLease instantiated
    CredentialLease              what all of them promise a Shoot
    SecretRequeue                renewal, change-over and clean-up against a clock
    ShootQueue                   watches and work queue
    ClusterUser <- ClusterUserLogin        abstract user and the login that implements it
    ProjectNames, ShootDefaults  operators: labels; what the webhook writes into a Shoot
      GardenAccess               from the service catalogue to a Shoot and its Secrets
    ProjectResources             provisioning
      LiquidQuota                composed with the liquid server and Limes
    AuditCertificates            rotation, files, watcher, pool
      CertificateInvariant       its inductive invariants
    AuditDelivery                batches, filter, regions, retries
    ScikubeAuth                  the shared cache file

An `MC...` module extends the module it instantiates for TLC and adds what only
a configuration needs. A module `..._proofs` has the theorems about the one it is
named after; `OpenStackLogin_proofs` has those about the two logins,
`ClusterUserLogin` and `ScikubeAuth`. A mutated form of a definition stands directly before it and says so. `TypeOK` is the first conjunct
of one safety invariant of each module, so that a run checks both. Where a module
ends with "Why they hold", or with what makes a property inductive, there is the
inductive invariant of section 5.

### The credentials of one Shoot name

The state is that of one Shoot name: Secrets (`secret`, numbered in creation
order), their bindings, the Shoot, the operator's informer copies (`seen`,
`seenShoot`), the Keystone user and its application credentials (`creds`, and
`loose` for those that are in no Secret yet). A Secret is `none`, `live`,
`terminating` (deletion timestamp, finalizer held), `gone` (finalizer removed by
the code) or `dropped` (deleted before it had a finalizer).

A reconcile is a process with a program counter (`worker[s].pc`). `StartReconcile`
takes what the code reads from caches up to its first call; then each call to
the API server or Keystone is one action, which also makes the decisions (on
caches, as they are then) up to the next call. Anything may happen in between.
`Fail` ends a reconcile at any call: an error, a time-out, a panic or a restart.
The correspondence:

| Code | Actions |
|---|---|
| `Reconciler.reconcile` (internalsecret) | `StartReconcile`, `AddFinalizer`, `RegularCall` |
| `handleNowBeforeRenewTime` | `EnsureBinding` |
| `handleNowAfterRenewTime`, `EnsureApplicationCredentialInternalSecretForShoot` | `EnsureUser`, `CreateNewCredential`, `CreateNewSecret`, `AfterRotation` |
| `handleCredentialExpiry`, deletion without Shoot | `DeleteSelf` |
| `delete`, `internalSecretDeletionAllowed` | `DeletionAllowed`, `DeleteBinding`, `CheckUser`, `LoginUser`, `DeleteCredential`, `CallAfterCredential`, `DeleteUser`, `RemoveFinalizer` |
| `Reconciler.reconcile`, `delete` (shoot) | `StartShoot`, `AdoptNewest`, `AddShootFinalizer`, `PatchBinding`, `ListAllSecrets`, `DeleteListed`, `RemoveShootFinalizer` |
| admission `Handle`, `ensureOpenStackCredentialInternalSecretAndBinding` | `Arrive`, `AdmissionEnsureUser`, `ListSecrets`, `AdmissionCreateCredential`, `AdmissionCreateSecret`, `AdmissionEnsureBinding`, `PersistShoot` |

The merge patch of the Shoot's binding has no lock, as in the code; the patch
that adds a finalizer is optimistically locked, as gardener's helper is. The
list an admission request gets may be as old as the request (`answer`), since it
is from a cache of the webhook's own.

Requests for the name come from outside (`OwnerRequestsShoot`): when it is free, that
is when all of its last use has gone and the operator knows (`NameFree`), or while
the Shoot exists, to no effect but the webhook's (`NameInUse`). Secrets that an
attempt has left which never became a Shoot may be there, as long as they are
young and have their credential. With `AllowOverlap` requests come at any time.

Abstractions. Time is a clock with coarse ticks: a tick is long against calls
and cache lag, so the clock moves only when nothing is under way (`Quiet`), and
conditions on age are exact. When a reconcile comes is left open; that it comes
in time is the question of `SecretRequeue`. The order of creation of a name's
Secrets is total: a Secret's name carries the second of its credential, and the
API server refuses a second one of that name. The rest of what the webhook does
to the Shoot is in `ShootDefaults`. The webhook is registered for Create only.

### What a Shoot is promised

`CredentialLease` speaks of leases, of which the Shoot holds one, and of the
account they belong to: a lease is issued, valid, lapsed, revoked; the Shoot
begins with one that works, switches to others; neither the lease it holds is
revoked before its term, nor the account closed while Gardener needs it.
`CredentialInvariant` maps it to the lifecycle: a lease is an InternalSecret,
valid while Keystone has its application credential, lapsed when it has expired,
and the account is the cluster user. Admission, both controllers, owner, Gardener
and every failure then are steps of this one specification (`ImplementsLease`).

Two liberties of `Switch` are the code's. Back to an older lease within its term:
two requests for one name may each create a Secret before one of them persists
the Shoot, and the operator, whose cache has the sibling only later, may move the
reference to and fro before it settles on the newest. To a lapsed lease, even a
revoked one: the shoot controller's decision was made before the expiry.

### The work queue

`ShootQueue` drops the credentials and keeps what wakes the shoot controller: a
Shoot event (`ShootRelevant` is the predicate's `Update`), the Create event of a
CredentialsBinding (`MapBinding`, dropped if its Secret is not cached yet), the
Delete event of a Secret, the requeue into the maintenance window (`timer`), a
retry (`Fail`) and a restart, which loses queue, timer and events but gets a
Create event for everything.

Secrets and bindings come from two sides. The internalsecret controller makes a
successor (`CreateSuccessor`) and ensures the binding of a Secret it knows
(`CreateBinding`). The webhook does both at once, before the operator knows of
either, for any number of create requests, of which those that come after the
Shoot is stored are refused in the end but leave what they made:

| Code (webhook/shootadmission/handler.go) | Actions |
|---|---|
| 287-297, list and create | `RequestFindsSecret`, `RequestCreatesSecret` |
| 299-304, ensure the binding | `RequestEnsuresBinding` |
| the API server's answer | `CreateShoot`, `RequestFails` |

Two requests with one Secret do what one does, so the requests in flight are a
set of Secrets (`admitting`, and `admitted` for those that may yet store the
Shoot). A binding that exists is no event (kubernetes/credentials.go:64). So the
event of a binding that a second request has made may be dropped, and nothing
follows it: `hasty` remembers the Secrets this may happen to, until an event or a
reconcile has come upon them, and `Overlooked` is the state in which it has
happened to the newest. Section 6 says what ends it.

`Decide` is the switch of `reconcile`: nothing to do, patch now (in the window, or
`AtOnce`: the force annotation, or updates confined to the window's roll-out), or
requeue. The annotation comes and goes by the owner's hand (`OwnerEditsShoot`);
`PatchBinding` removes it, but only if the cached copy had it. A pending timer
therefore counts as a wake-up only for a Shoot that may wait.

### The other modules

* `ClusterUserLogin`: each caller runs `GetUser`, `CreateUser` or `ResetPassword`,
  `AssignRole` per role, and polls (`LogIn`, `GiveUp`). The password is the
  caller that drew it. Its refinement of `ClusterUser` maps a session to a caller
  that is through and "equipped" to all roles assigned.
* `SecretRequeue`: when the internalsecret controller looks at a Secret again.
  A reconcile takes no time here. `RequeueAt` is the requeue as the code counts
  it, from now on with the length of the time from creation to renewal;
  `AfterRenewTime` asks for none. `resync` is the informer's, and may be absent;
  whether an event cancels a pending requeue (`keeps`) is left open, as it is
  a matter of the library's version. A successor made in the very second of
  another Secret's renew time is not taken for one
  (internalsecret/reconciler.go:184), and the Secret gets another: `late` tells
  the two apart. A requeue may come after its Secret has gone (`ReconcileGone`),
  and then does nothing.
* `ProjectNames`: names are sequences over a letter, a separator and any other
  character; `Sanitize` is `sanitizeLabelValue`, with the maximal length as a
  parameter.
* `ShootDefaults`: `handle` of the admission webhook on a Shoot whose fields are
  absent, the user's or a default, in the order of the code.
* `GardenAccess` follows one account on its way, with a region and a project
  found out anew at each station:

  | Code | Actions |
  |---|---|
  | `GetPersephoneEndpoint`, `GetKubeconfigForGarden`, kubeconfig-for-garden without and with `--url` | `KubeconfigFromCatalog`, `KubeconfigByHand` |
  | scikube auth, `getRegion` | `GetToken` |
  | token webhook `Handle` | `ReviewToken` |
  | project controller | `ReconcileProject` |
  | Shoot webhook `Handle` | `CreateShoot` |
  | rotation, `OpenStackUserInfoFromLabels` | `Renew` |

  Several regions may share a Keystone or not (`KeystoneOf`), and an account's
  project may be in another domain than its user (`foreign`): then the plugin,
  which is told the user's domain for the project's, gets a token for a namesake
  of the project, or none (`ProjectIn`).
* `ProjectResources`: `CreateOrPatch` reads the provisioner's cache, creates, or
  patches what the mutate function changes; AlreadyExists, like any error, ends
  the attempt. The operator has to read the project's name off the namespace, which
  fails for ever if nothing of it was left (`named`). `LiquidQuota` adds ScanUsage and SetQuota on the liquid server's
  cache, and Limes, which sets a quota that differs from the one reported.
  SetQuotas overlap (`Requests`), and their patches arrive in either order.
* `AuditCertificates`: a generation of certificates is a number, a bundle two of
  them. The reloader truncates and writes three files in the order of the code;
  the watcher takes a matching pair; the callback reads the CA file once. A
  truncated `ca.crt` is a state of its own; truncated `tls.crt` and `tls.key`
  are not, since the watcher takes no pair that does not match. A call may take
  effect although its response is lost, so that the reconciler rotates again,
  from a copy its cache has not updated (`skipped` are the generations it then
  does not bundle); an administrator may delete the Secret, and certificates
  start anew, perhaps more than once (`roots` are the generations that did).
* `AuditDelivery`: attempts at a batch overlap, because the handler does not
  notice that the API server has stopped waiting. `ShouldProcess` and `RegionOf`
  are the filter and `extractShootRegion` with impersonation.
* `ScikubeAuth`: runs that read, truncate and write the file without a lock. The
  catalogue is taken to have a public identity endpoint, so a region is known.


## 3 Runs

All runs set `CHECK_DEADLOCK FALSE`: every system here may stop, with the clock
at its bound, the Shoot gone or all batches delivered.

| Run | Asks | Instance, and why it is enough |
|---|---|---|
| lifecycle | invariant, safety and the abstract lease, for a name that is used again | 2 Secrets, 1 request at a time, validity and time of 2 ticks, requests before the first of them: a Secret and its successor live through renewal, expiry, adoption, deletion and clean-up with all overlaps of their workers, or one goes with its Shoot and the other serves the next. Three larger instances, too long for every day, found no error either: requests up to tick 1 (3.4 million states), requests up to tick 2 (4.8 million) and the same with a validity of 3 and a grace of 1 (1.3 million), with a time of 2 throughout. Several requests at a time and longer histories are the theorems' part (section 5) |
| manual | an administrator deletes Secrets | 2 Secrets, both before and after their finalizer; requests at the start only |
| progress | rotation happens, everything goes in the end | 2 Secrets, validity 2 in 1 tick: renewal falls due, not expiry; grace 0, so that a missing Shoot starts a clean-up as a deleted one does; requests at the start only |
| reuse_violation | the first finding of section 6 | 2 Secrets, a name requested while its last Shoot is being cleaned up |
| queue | no wake-up is lost; adoption, in the window and at once, and release happen | 2 Secrets, of the webhook's or the operator's making: the second is the first's successor, or that of a second create request. Any number of requests and restarts; force set and removed at will; one status report, since all are filtered alike |
| requeue | renewal, change-over and clean-up in time | validity 10 ticks, renewal after 5, grace 1, resync and windows every 2 ticks, 23 ticks: two renewals and an expiry; a failure, a restart, one Secret in the renew second of another; with and without resync |
| login | sessions, refinement, progress | 3 callers, 2 roles, 1 deletion of the user |
| access | regions, projects and names agree from catalogue to Secret | 2 regions with a Keystone each, user and project in one domain or two, 3 generations of Secrets; label limit 2, all names up to length 3: every place of a separator or odd character relative to the limit |
| quota | order of objects, quota, progress | a project whose name can be read off its namespace or not; a webhook replica, operator and liquid server with a cache each, so that three overlap; two SetQuotas at a time; wanted quotas 0 and 3, greatest int64 and default 2: one change of mind then finds a stale copy that has the wanted value already, and one that must be clamped |
| certificates | pools fit, rotations chain, convergence | 2 replicas; 3 generations, enough for a bundle to drop one; 1 lost response, 1 deletion of the Secret |
| audit | delivery, its holes, and its regions | batches of up to 3 events out of 14 samples, one for every way through filter and region; 2 attempts with 1 fault. Batches share nothing but the handler's code, so one is enough |
| scikube | live output, sound file | 3 concurrent runs, lifetime 1, time 3: tokens expire while they are cached and while they are written |

Safety and liveness of a component share a run where one instance serves both.
Such a run uses the fair specification and no symmetry, which is not sound for
liveness; scikube, safety only, uses it.

Bounds are the constants called bound in the modules: `MaxSecrets`, `MaxTime`, `LastRequest`,
`MaxRestarts`, `MaxFailures`, `MaxTwins`, `MaxDeletes`, `MaxDeletions`, `MaxLost`,
`MaxChanges`, `MaxGeneration`, `MaxFaults`, `MaxName`, `MaxAttempts` (a bound and
also a parameter of the API server), and the sets `Requests` of ClusterUserLogin and LiquidQuota. Liveness properties
say what happens when a bound is reached (`RenewalDue`, `CleanedUp`).

What the safety runs show, in the words of the code:

* `LeaseInv`: the inductive invariant of the credentials (section 5), which has
  their types as its first part.
* `UserOutlivesShoot`: the user goes only when Gardener no longer needs the
  infrastructure. `SuccessorBeforeRemoval`: a live Shoot's Secret starts to go
  only if a younger one exists. `InUseCredentialSurvives`: the referenced binding
  and credential stay until they expire. They hold if a name is not requested
  while its last Shoot is being cleaned up and nobody deletes Secrets by hand;
  without the first condition they do not (run reuse_violation), and without the
  second neither (section 6).
* `RemovedIsCleanedUp`, `RevokedBeforeRemoval`: what lost its finalizer has left
  no binding or credential. With manual deletions only the second holds: the
  regular reconcile of a stale copy may bring a binding back.
* `ImplementsLease`: all parts together are the abstract lease, so that the
  credential a Shoot references works until it expires.
* `RenewedInTime`, `ReferencedIsUsable`, `UselessGoes`: the requeue counts from
  the last reconcile, which may make it later than the renew time by as much as
  half the validity, but not later than the expiry. With the resync, renewal
  comes at most a period after the renew time, and the Shoot changes over before
  its old credential expires; that it is not overlooked (`ShootQueue`) is taken for
  granted here. What no requeue is asked for, the expiry, waits
  for the resync. Failures add their own time; a second successor (`MaxTwins`)
  is one Secret more, and changes nothing of this.
* `NoLostWakeup`: a Shoot that has something to be done is queued, worked on, or
  an event is on its way, or a timer if it may wait. The exception is `Overlooked`,
  which takes a second create request and an operator whose cache is behind it;
  `Adopted` and `AdoptedAtOnce` allow a Shoot to stay so.
* `PasswordImpliesRoles`, `ImplementsClusterUser`: the roles precede the poll, so
  a login that succeeds is one with all roles, whoever interferes.
* `LabelsAccepted`, `LabelsAgree`, `PlainNamesKept`: sanitising is idempotent and
  always valid, and a name that is a valid label is kept by all renewals.
* `KubeconfigLeadsHome`, `RegionsAgree`: the regions of service catalogue, token
  prefix, namespace, Shoot, Secrets and cluster user are one if regions do not
  share a Keystone, and so are the projects, but for the kubeconfig's: that is the
  bearer's if and only if the user is in its project's domain (section 6).
* `WorkersAmongNodes`: the webhook's defaults fit each other.
* `NoGaps`, `LimesOwnsQuota`: a ResourceQuota vouches for what comes before it,
  and only SetQuota changes it.
* `PoolHasServingCA`, `OlderClientAccepted`: the order of the files and the
  bundle do what they are for. `RotationsChain`: a rotation bundles the CA in use
  unless a response was lost or the Secret deleted; only then is a client refused.
* `DeliveredIsRecorded`, `NoHoles`: 200 means recorded, and an audit trail that
  breaks off does so without holes. `RecordedWhereCreated`: audit handler and
  admission agree on the region of a Shoot's creation.
* `PrintedIsLive`, `EmptyOnlyWhileWritten`: no run prints what had expired, and
  concurrent writers alone never ruin the file.


## 4 Fairness

Each liveness run states its fairness in the module, with the reason:

* Calls end, because all have a time-out (10 s for an admission, 5 min for a
  login), and informers catch up: weak fairness, or `[]<>Quiet`.
* Errors other than those that must come back (a conflict on a stale copy) end
  at some time: `<>[][...]`. Before that they are unrestricted.
* Reconciles recur: controller-runtime retries errors, handles events and
  resyncs every 10 hours. For the Shoot, whose events are filtered, this is not
  taken for granted: `ShootQueue` has no fairness for reconciles that are not
  queued, and shows that the queue is filled.
* Maintenance windows recur and requeues are placed in them
  (`RandomDurationUntilNext`): `Adopted` assumes strong fairness of
  `Dequeue(TRUE)`. `AdoptedAtOnce` does not: some reconcile comes, in a window or
  not. The strong fairness of `Dequeue` itself is that of a work queue whose
  worker is busy now and then.
* The owner's edits and the operator's restarts pause at some time; a Shoot that
  changes faster than it is read is a conflict for ever, and an operator that
  does not live to handle its Create events does nothing.
* Limes scans and sets periodically, the certificate reconciler runs every 5
  minutes, the API server sends a batch up to `MaxAttempts` times. Fairness of a
  call is fairness of its end, with or without its response.
* `GiveUp` of a login waits for whoever reset the password after it: 5 minutes
  against a few calls. This is the one assumption on time that a run depends on;
  its mutant `GiveUpEarly` shows that progress fails without it.


## 5 Proofs

| Module | Theorem | States | If |
|---|---|---|---|
| CredentialInvariant_proofs | `TypeCorrect` | `[]TypeOK` | |
| | `RevokedFirst` | `[]RevokedBeforeRemoval` | |
| | `Invariance`, `LeaseInvariance` | `[]Inv`, `[]LeaseInv` | `Orderly` |
| | `UserOutlives` | `UserOutlivesShoot` | `Orderly` |
| | `InUseSurvives` | `InUseCredentialSurvives` | `Orderly` |
| | `SuccessorFirst` | `SuccessorBeforeRemoval` | `Orderly` |
| | `CleanedUpFirst` | `[]RemovedIsCleanedUp` | `Orderly` |
| | `Implementation` | `ImplementsLease` | `Orderly` |
| | `Honour` | of the abstract lease: `[]Honoured` | |
| | `Works` | `[]CredentialWorks`: by the two before, the credential a Shoot references works until it expires | `Orderly` |
| SecretRequeue_proofs | `RequeueInvariance` | `[]RequeueInv` | `GraceIsShort` |
| | `RenewalsAreInTime` | `[]RenewedInTime` | `GraceIsShort` |
| | `ReferencedStaysUsable` | `[]ReferencedIsUsable` | `GraceIsShort` |
| | `TheUselessGo` | `[]UselessGoes` | `GraceIsShort` |
| ShootQueue_proofs | `QueueInvariance` | `[]QueueInv` | |
| | `NoWakeupLost` | `[]NoLostWakeup`, for any number of create requests and restarts | |
| OpenStackLogin_proofs | `PasswordFollowsRoles` | `[]PasswordImpliesRoles` | |
| | `Implementation` | `ImplementsClusterUser` | |
| | `PluginInvariance` | `[]AuthInv` | |
| | `NothingExpiredIsPrinted` | `[]PrintedIsLive` | |
| | `WritersFinish` | `[]EmptyOnlyWhileWritten` | |
| GardenAccess_proofs | `AccessInvariance` | `[]AccessInv` | |
| | `LeadsHome` | `[]KubeconfigLeadsHome` | a Keystone per region |
| | `OneRegion` | `[]RegionsAgree` | a Keystone per region |
| | `WorkersFit` | `[]WorkersAmongNodes` | |
| | `EveryNameHasItsLabel` | `[]LabelsAccepted` | |
| | `OneLabel` | `[]LabelsAgree` | |
| | `PlainNameKept` | `[]PlainNamesKept` | |
| LiquidQuota_proofs | `ProvisionedInOrder` | `[]NoGaps` | |
| | `LimesOwns` | `LimesOwnsQuota` | |
| AuditCertificates_proofs | `AcceptInvariance`, `OlderForwarder` | `[]AcceptInv`, `[]OlderClientAccepted` | |
| | `RotationInvariance`, `CurrentIsBundled` | `[]RotationInv`, `[]RotationsChain` | |
| | `CertificateInvariance`, `ServedIsVerified` | `[]CertificateInv`, `[]PoolHasServingCA` | |
| AuditDelivery_proofs | `NothingAcknowledgedIsLost` | `[]DeliveredIsRecorded` | |
| | `TrailHasNoHoles` | `[]NoHoles` | |
| | `CreationIsRecordedWhereItIs` | `[]RecordedWhereCreated` | |

All speak of the module's `Spec`, which states no fairness, and hold for every
number of Secrets, requests in flight, callers, replicas, runs, projects'
provisioners, attempts and faults, and for every length of validity, grace,
resync, label and batch. What they take from the constants is in the modules'
assumptions (numbers are natural, switches are Booleans, processes of two kinds
differ, "other" is no caller), which TLC evaluates in every run, and in the last
column:

* `Orderly` is `~AllowOverlap /\ ~AllowManualDelete`: nobody requests a Shoot name
  while its last Shoot is being cleaned up, and nobody deletes InternalSecrets by
  hand. A name may serve any number of Shoots, one after the other. The run
  reuse_violation shows that the first half cannot be left out, section 6 gives
  the reason for the second. `RevokedFirst` holds without, as the run manual has
  it.
* `GraceIsShort` is `Grace < Validity \div 2`: an hour against thirty days
  (internalsecret/reconciler.go:38 and 42, constants/consts.go:13). Without it a
  Secret may wait for a Shoot until it is due for renewal itself.
* A Keystone per region: `KeystoneOf` is injective. Section 6 has the
  counterexamples without this.

The proofs have one lemma per action or group of actions that can disturb a
conjunct, over frame lemmas that say which actions touch which variables.
TLC checked each inductive invariant before it was proved. `LeaseInv` and
`QueueInv` still are invariants of the runs lifecycle and queue; to check another
one, add it to the run of its module (`RevokedInv` to manual, `RequeueInv` to
requeue, `LoginInv` to login, `AccessInv` to access, `QuotaInv` to quota,
`CertificateInv` to certificates, `AuditInv` to audit, `AuthInv` to scikube).

### The credentials

*Why the user outlives the Shoot.* The user is deleted by the worker of a
terminating Secret that its cache shows as the only one. That no such worker
exists while the Shoot is in use (`InUseInv`) needs more than the property
itself:

1. The caches are earlier states: a Secret only moves forward, so what is
   terminating in the cache is terminating or gone (`Lag`), and the cached Shoot
   lags behind (`ShootLag`).
2. In every view, the present and the cached one, a Secret on its way out has a
   younger one that stays (`Succeeded`). So the worker never finds its Secret
   both newest and alone.
3. That a Secret has a younger one when it starts to go is the code's order of
   rotation and expiry; with the informers' lag it becomes a statement about the
   worker between its decision and its call (`DeleteSelf`).
4. The one other reason to go is a missing Shoot; the operator may overlook the
   Shoot only while no Secret is old (`ShootOverlooked => AllYoung`), that is due
   for renewal or beyond the grace period. This in turn needs that a Shoot is
   stored while that is so, and that what a request has come across is still live
   (`Asking`), and that creation times are ordered (`Ordered`, `CreatedInPast`).
5. Secrets of earlier Shoots of the name are `gone` or `dropped`, in the cache too,
   and have no worker (`Settled`). They remain so, and the statements above leave
   them out.

*Why the parts implement the lease.* `LeaseInv` adds to this what Keystone holds.
Credentials have their user (`Accounted`). While the Shoot is in use, or somebody
requests it, each live Secret has its credential, and so has whoever is between
creating the credential and creating its Secret (`Needed => Backed`): a request
begins a lease that works. A decided change of the Shoot's binding is to a Secret
the operator has seen, which is live or has expired, and not back to one that has
expired (`References`, `Forward`). That it is not rests on the newest Secret in
the operator's cache being at least as young as the one in use, if it has that
one at all: the one in use, or a younger one, stays in every view (`Kept`). So a
switch is to a valid or lapsed lease, and back only within its term. Each action
then is a step of the lease or leaves it alone. `Honoured` in turn needs that
valid leases have their account (`LeaseHolds`).

*Why clean-up is complete.* A credential is deleted before the finalizer is
removed, on each path through `CheckUser` and `LoginUser`; a deleted user takes its
credentials along. `RevokedInv` says so of the worker's counter, and needs only
that nobody works on a Secret that never was: thus it holds for names used again
and manual deletions. That no binding comes back (`Unbound`) needs more: the
clean-up begins when the cache shows the Secret terminating, and from then on
no regular reconcile of it starts. With manual deletions one may be under way.

### Time

*Why requeues are in time.* No requeue is overdue (`Punctual`: the clock waits for
what is due). So what has a deadline meets it if it is looked at before: each
Secret with a deadline is queued, or has a timer or the resync within it (`Due`).
A look leaves a requeue, which counts from now with the length from creation to
renewal and so ends before the expiry if the look comes before the renew time, or
leaves a successor, with a deadline of its own, or a deletion. A failure costs a
tick, which `failures` adds to every deadline. `NewestInTime`, `OrphanInTime` and
`ExpiredInTime` say this for the three kinds of Secrets; `Chronology` is the order
of Secrets, from which the newest is the one to be renewed. After the renew time
there is no requeue and only the resync is left.

`Changeover` continues it to the Shoot: from the time a successor exists, it is
looked at (and its new binding wakes the Shoot), or the Shoot is queued, or its
timer is set for the next window, all by a time at which the referenced Secret
has not expired. The condition
`2 * (Resync + MaxFailures + Day) =< Validity` is where the second half of the
validity has room for one of each.

*Why no wake-up is lost.* `NoLostWakeup` counts any lag of a cache as a wake-up to
come, and not every lag brings an event. `WakeupKept`, the inductive form, counts
only updates that `ShootRelevant` lets through, and of these only what the owner
cannot take back (`IsNews`): an annotation set and removed again is no news. A
timer counts if the operator knows of no urgency; if there is one it does not
know of, that is news. The other delicate cases are a reconcile that overtakes an
event and a patch under way: a worker about to patch the binding it has in its
cache already has a queue entry behind it (`WorkerDecision`), and a Secret whose
binding exists is in the cache unless a request was hasty (`SecretHistory`), so
that the event `MapBinding` drops is the last hope only if the newest is one of
those. While there is no Shoot nothing is due, and the Shoot's own Create event
comes later; what is left is `Overlooked`. A reconcile clears `hasty` of all it
knows, because it looks at the newest of them, whoever woke it.

### The other components

* *Login* (`LoginInv`). Of all callers only the one whose password is in force can
  get in, and it is as far with the roles as its counter says; a user deleted in
  between takes the password along. The refinement maps "equipped" to all roles
  assigned, which no step of another caller undoes.
* *Plugin* (`AuthInv`). A run that prints, or is about to write, has a credential
  that had not expired when it started, from the cache or from Keystone; an empty
  file has a writer, or one that was killed.
* *From catalogue to Secret* (`AccessInv`). A region is found out anew at each
  station, but always one whose Keystone is that of the account (`AccountInv`,
  `ShootInv`): where that determines the region, all agree. A label is always the
  sanitised name (`LabelInv`), although renewals sanitise what they read back:
  `sanitizeLabelValue` gives a valid label or an empty one, and leaves a valid one
  alone, lemmas about `Sanitize` for every name and every maximal length.
* *Provisioning* (`QuotaInv`). Who is at an object has its predecessors behind it,
  because it made them or saw them in a cache that only lags. Only an object that
  has no quota gets the default, and a ResourceQuota always has one.
* *Certificates.* `AcceptInv` describes any copy of the Secret, be it on whichever
  disk or in whichever memory: what it bundles was due, and what lies between its
  two CAs is known to be dropped (`Sound`); a running replica knows of each
  generation that was due (`KnowsAged`). `RotationInv` adds that without a fault the
  rotator's copy is the Secret itself (`FaultFree`). `CertificateInv` adds the order
  of the files: a write in progress has replaced the files before its own
  (`DiskInv`), memory follows the disk (`MemoryInv`), and without a fault neither
  is more than a generation behind (`Lag`), which is what a bundle of two bridges.
* *Audit delivery* (`AuditInv`). An attempt has passed only what is recorded, by
  itself or another, and answers 200 at the end of its batch.

### What the proofs changed

* `AuditCertificates` kept only the last generation that began without a
  predecessor. With two deletions of the Secret `OlderClientAccepted` was then
  false, which the run, with one, did not show: it is a matter of all of them
  (`roots`).
* `SecretRequeue` had no step for a requeue whose Secret has gone, and the clock
  waited for it forever, so that nothing was checked behind such a state.
* `CredentialLifecycle` allowed a Shoot name once, or at any time. Between the two
  is what owners do, one Shoot after the other, and the proof of `AskingStep` and
  `BackedStep` is what found the conditions under which a name is free (`NameFree`),
  the second way of section 6 among them.
* Types were sharpened where proofs need them (the audit certificates' copies,
  the plugin's runs), and hypotheses appeared that the instances had hidden
  (`GraceIsShort`).

### Left to TLC

Liveness under fairness is out of the provers' reach, as are ENABLED and induction
over data. Hence only model-checked: `Rotated`, `CleanedUp`, `Adopted`,
`AdoptedAtOnce`, `Released`, `SomebodyGetsIn`, `ProjectGetsQuota`, `QuotaConverges`,
`Converged` and `GoodBatchDelivered`. Nothing proved needs induction over data: the
modules have no recursive definition.


## 6 Where code and text disagree

The run reuse_violation shows the most serious one: the text (in
internalsecret/reconciler.go:46-47 and its integration test:289) says that a
Secret in use waits. A Shoot created again takes the newest Secret even if it
terminates, and the Secret is cleaned up on a cached view of the previous Shoot.

There is a second way to the same end, which `NameFree` excludes by its last
conjunct and `LeaseInv` fails without: a rotation is under way when the shoot
controller lists the Secrets of a deleted Shoot, and creates its Secret after that
(shoot/reconciler.go:121, kubernetes/credentials.go:42). If the old Secret's worker
still has a cache without it, that deletes the cluster user and with it the new
Secret's application credential (internalsecret/reconciler.go:274-287). The Secret
stays until its grace period is over, and a Shoot that is created in this hour gets
it.

The modules state further properties that texts promise and the code does not
keep. They are in no configuration; to see a counterexample, take the run named
here and add the property, `Rotated`, `LastSecretTakesUser` and
`EveryProjectGetsQuota` as a PROPERTY, the others as an INVARIANT (and set the constants, where it says so):

| Property, run, constants | Text | What the code does |
|---|---|---|
| `Rotated`, progress, `AllowManualDelete = TRUE` | internalsecret/reconciler.go:37: rotation at half the validity | a terminating Secret is never rotated: deleting the newest by hand ends the rotation of a live Shoot; at its expiry the credential goes, and then the user |
| `LastSecretTakesUser`, lifecycle | internalsecret/reconciler.go:311: the newest Secret owns the user | if the newest was deleted before it had a finalizer, nobody does, and the user stays |
| `SecretsNameProject`, access | constants/consts.go:30: the label contains the project's name | it contains the sanitised name, and a renewed Secret takes it for the name |
| `SecretsRenewable`, access | internalsecret/reconciler.go:37 | a name that sanitises to nothing cannot be read back: no renewal, no clean-up |
| `KubeconfigKeepsProject`, access | docs/persephone-cli-reference.md:33: OpenStack project domain name | the kubeconfig has the user's domain for the project's (kubernetes/kubeconfig.go:81): the token is for a project of the same name there, or there is none |
| `EveryWakeupKept`, queue | controller/shoot/reconciler.go:79-80: for each Secret there is a binding created by the internalsecret controller | the webhook makes that of a second create request (shootadmission/handler.go:299-304), perhaps before the operator knows the Secret. Then the event is dropped (controller/shoot/add.go:74-78), the internalsecret controller finds the binding there (kubernetes/credentials.go:64), and the Shoot keeps the older Secret |
| `EveryProjectGetsQuota`, quota | kubernetes/gardener.go:67-68: no namespace without ResourceQuota | for a name that sanitises to nothing `OpenStackUserInfoFromLabels` fails at every attempt (project/reconciler.go:75-78, userinfo.go:135); only another login of a user completes the project |
| `NamespaceHasQuota`, quota | kubernetes/gardener.go:67-68: created atomically | five calls, each may fail |
| `SetQuotaTakesEffect`, quota | liquidserver/logic.go:126: reconciles the quota | skips the patch if a stale cache has the value |
| `ClientAccepted`, certificates | auditcert/reconciler.go:107-108: either certificate is trusted | not the newer one by a replica that has not reloaded |
| `RecordedWhereShootIs`, audit | audithandler_test.go:735: routed by the Shoot's region | by the region in the request, before admission sets another |
| `HonoursFlag`, scikube | scikube/cmd/auth.go:40: no prefix | a cached credential is printed with it |

Not a disagreement with a text, but a condition on the deployment: with
`KeystoneOf <- OneKeystone` in the run access, `KubeconfigLeadsHome` and
`RegionsAgree` fail. The kubeconfig's region is the one asked for, the token's
prefix the region of the first public identity endpoint in the catalogue; where
regions share a Keystone they differ.

Three of the properties above mend themselves: `QuotaConverges` holds in spite of
skipped patches because Limes tries again, `ProjectGetsQuota` in spite of the
missing atomicity because the operator retries, if it can read the project's name.
A Shoot that was overlooked is looked at with the next event of its own that the
predicate lets through, the next restart or the binding of the next successor.
That comes at half the validity of the newest Secret; if this is itself a
successor, made when the Shoot's own Secret was due, it is then about the expiry
of the latter.

Seen while reading, without a run: `cmd/persephone-audit-webhook/main.go:138`
speaks of an fsync that `os.WriteFile` does not do; the rules in
`config/manifests/prometheusrule.yaml` select `outcome="failure"` where the
credential and provisioning metrics record `"error"`; the admission handler
handles Update requests the webhook is not registered for; the token webhook
accepts every configured region, enabled or not.


## 7 Not modelled

* The HTTP and policy layer of the liquid server, command mains, options, metrics,
  manifests: wiring or output without state of their own. Facts the models take
  from them (replicas, leader election, time-outs, registered operations) are
  named where they are used. The validation of the configuration
  (`config/validation.go`) decides only whether a process starts.
* The construction of OpenStack clients, once at start.
* kubeconfig-for-shoot: one request, whose answer is written to a file.
* `GetValidApplicationCredential` (clusteruserclientset.go:222-260): only tests
  call it.
* `fake_e2e_client.go`: a test double.
* In modelled components: the look-up of the external network at admission, which
  is admitted or denied; the layout of audit events and the library's queue behind
  `auditor.Record`, which may lose acknowledged events at a crash.
* Approximations, each said at its definition: an admission request lists Secrets
  as they were when it arrived or as they are, not as at an instant between
  (`ListSecrets`), nor one that came and was succeeded in the meantime; the order
  of Secrets is that of their creation, where the code compares timestamps of one
  second (`NextSecret`); an edit of the certificate Secret's metadata alone, which
  has the reloader write the same files again, is left out (`Reload`); an empty
  user region of an audit event stands for one without auditor (`ShootObject`).
* In `ShootQueue`: the first Secrets' own expiry while there is still no Shoot, and
  deletions by hand, which `CredentialLifecycle` has; events and requests still
  under way for a Secret that is removed go with it, since they would do no more
  than the Secret's Delete event.
* Workerless Shoots get a cluster user that nothing deletes
  (shootadmission/handler.go:146); the models have the user, no property yet,
  since no text says what should become of it.


## 8 Plan

The order is that of importance: credentials first, since a mistake there takes
a running cluster's access to its infrastructure.

Done: the modules of section 2, the runs of section 3, the theorems of section 5.
Every safety property of a passing run is a theorem.

Left:

1. More to prove of the credentials. What of `LeaseInv` survives manual deletions:
   `RevokedBeforeRemoval` does, and so might the order of Secrets and the lag of
   the operator's copy of them (`Lag`, `Ordered`) as theorems without `Orderly`.
2. Whether `ReferencedIsUsable` needs all the time that its condition leaves, or a
   validity somewhat shorter would do.
3. `GetValidApplicationCredential`, should it come into use.
4. Larger instances of the lifecycle for TLC. Two requests at a time make the run
   too long for every day; since `Implementation` covers them, this matters for
   the liveness properties only.
