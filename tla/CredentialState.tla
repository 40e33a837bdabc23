--------------------------- MODULE CredentialState ---------------------------
(***************************************************************************)
(* What the parts of persephone that manage one Shoot name's credentials   *)
(* share: the objects in the Gardener API server, the operator's informer  *)
(* copies of them, and the Keystone user with its application credentials. *)
(*                                                                         *)
(* InternalSecrets are numbered in creation order, so the youngest of a    *)
(* list is its greatest number: their names carry the second of their      *)
(* application credential and two with one name cannot both be created.    *)
(* Timestamps that fall into one second, whose order is open, are left out.*)
(***************************************************************************)
EXTENDS Integers

CONSTANTS
    MaxSecrets,        \* bound: InternalSecrets ever created for the Shoot name
    MaxTime,           \* bound: last instant of the coarse clock
    LastRequest,       \* bound: last instant at which a Shoot is requested
    Validity,          \* lifetime of an application credential, in ticks
    Grace,             \* age a Secret without Shoot may reach, in ticks
    Admissions,        \* bound: admission requests in flight at once
    AllowOverlap,      \* a Shoot may be requested while its predecessor is cleaned up
    AllowManualDelete  \* an administrator may delete an InternalSecret

ASSUME ConstantsAssumption ==
    /\ MaxSecrets \in Nat \ {0}
    /\ MaxTime \in Nat
    /\ LastRequest \in Nat
    /\ Validity \in Nat \ {0}
    /\ Grace \in Nat
    /\ AllowOverlap \in BOOLEAN
    /\ AllowManualDelete \in BOOLEAN

\* An admission request is not a reconcile of a Secret.
ASSUME ProcessesAssumption == Admissions \cap (1..MaxSecrets) = {}

VARIABLES
    now,        \* the clock
    secret,     \* the InternalSecrets in the API server
    bindings,   \* the Secrets whose CredentialsBinding exists
    shoot,      \* the Shoot in the API server
    seen,       \* the operator's informer copy of secret
    seenShoot,  \* the operator's informer copy of shoot
    user,       \* the cluster service user exists in Keystone
    creds,      \* the Secrets whose application credential exists in Keystone
    loose       \* processes whose application credential is in no Secret

apiVars == <<secret, bindings, shoot>>
cacheVars == <<seen, seenShoot>>
openstackVars == <<user, creds, loose>>
sharedVars == <<now, secret, bindings, shoot, seen, seenShoot, user, creds, loose>>

SecretId == 1..MaxSecrets

\* "gone": its finalizer was removed; "dropped": deleted before it had one.
Stage == {"none", "live", "terminating", "gone", "dropped"}
SecretRecord == [stage : Stage, created : 0..MaxTime, fin : BOOLEAN]
NoSecret == [stage |-> "none", created |-> 0, fin |-> FALSE]

\* "deleted": marked for deletion, last operation Delete has Succeeded.
Phase == {"none", "live", "deleting", "deleted", "gone"}
ShootRecord == [phase : Phase, binding : 0..MaxSecrets, fin : BOOLEAN]
NoShoot == [phase |-> "none", binding |-> 0, fin |-> FALSE]

SharedTypeOK ==
    /\ now \in 0..MaxTime
    /\ secret \in [SecretId -> SecretRecord]
    /\ bindings \subseteq SecretId
    /\ shoot \in ShootRecord
    /\ seen \in [SecretId -> SecretRecord]
    /\ seenShoot \in ShootRecord
    /\ user \in BOOLEAN
    /\ creds \subseteq SecretId
    /\ loose \subseteq SecretId \cup Admissions

SharedInit ==
    /\ now = 0
    /\ secret = [s \in SecretId |-> NoSecret]
    /\ bindings = {}
    /\ shoot = NoShoot
    /\ seen = secret
    /\ seenShoot = shoot
    /\ user = FALSE
    /\ creds = {}
    /\ loose = {}

-----------------------------------------------------------------------------
(* Reading a view (secret or seen).                                        *)

Existing(view) == {s \in SecretId : view[s].stage \in {"live", "terminating"}}

IsNewest(s, view) == s \in Existing(view) /\ \A t \in Existing(view) : t =< s

\* 0 when there is none.
NewestOrNone(view) ==
    IF Existing(view) = {} THEN 0 ELSE CHOOSE s \in SecretId : IsNewest(s, view)

ShootExists(record) == record.phase \in {"live", "deleting", "deleted"}

Age(s) == now - secret[s].created

\* now >= creation + half the validity, in half ticks
PastRenewTime(s) == 2 * Age(s) >= Validity

CreatedAfterRenewTime(t, s) == 2 * (secret[t].created - secret[s].created) > Validity

Expired(s) == Age(s) >= Validity

\* Neither due for renewal nor for deletion, with or without Shoot.
Young(s) == Age(s) =< Grace /\ ~PastRenewTime(s)

-----------------------------------------------------------------------------
(* Effects of calls.                                                       *)

\* API server: delete. Without finalizer the object is gone at once.
MarkDeleted(record) ==
    CASE record.stage = "live" /\ record.fin  -> [record EXCEPT !.stage = "terminating"]
      [] record.stage = "live" /\ ~record.fin -> [record EXCEPT !.stage = "dropped"]
      [] OTHER                                -> record

DeleteSecret(s) == secret' = [secret EXCEPT ![s] = MarkDeleted(@)]

NextSecret(s) == secret[s].stage = "none" /\ \A t \in SecretId : t < s => secret[t].stage # "none"

\* reconcileClusterServiceUser: get the user by name, create it if there is none.
EnsureClusterUser == user' = TRUE /\ UNCHANGED <<creds, loose>>

CreateCredential(p) == user /\ loose' = loose \cup {p} /\ UNCHANGED <<user, creds>>

\* Create the InternalSecret that carries p's credential.
StoreCredential(p, s) ==
    /\ NextSecret(s)
    /\ secret' = [secret EXCEPT ![s] = [stage |-> "live", created |-> now, fin |-> FALSE]]
    /\ creds' = IF p \in loose THEN creds \cup {s} ELSE creds
    /\ loose' = loose \ {p}
    /\ UNCHANGED user

EnsureCredentialsBinding(s) == bindings' = bindings \cup {s}

\* Keystone drops a user's application credentials with the user.
DeleteClusterUser == user' = FALSE /\ creds' = {} /\ loose' = {}
=============================================================================
