------------------------ MODULE CredentialInvariant ------------------------
(***************************************************************************)
(* Why the cluster user outlives the Shoot: an inductive invariant of      *)
(* CredentialLifecycle for names that are free, or in use, when they are   *)
(* requested, and Secrets that no administrator deletes.                   *)
(***************************************************************************)
EXTENDS CredentialLifecycle

Orderly == ~AllowOverlap /\ ~AllowManualDelete

Ended == {"gone", "dropped"}

\* The informers show an earlier state.
Lag ==
    \A s \in SecretId :
      /\ seen[s].stage = "live" => secret[s].stage # "none"
      /\ seen[s].stage = "terminating" => secret[s].stage \in {"terminating", "gone"}
      /\ seen[s].stage \in Ended => secret[s].stage = seen[s].stage
      /\ seen[s].stage = "live" /\ seen[s].fin /\ secret[s].stage = "live" => secret[s].fin

ShootLag ==
    /\ shoot.phase = "none" => seenShoot.phase = "none"
    /\ shoot.phase = "live" => seenShoot.phase \in {"none", "gone", "live"}
    /\ shoot.phase = "deleting" => seenShoot.phase \in {"none", "gone", "live", "deleting"}
    /\ ShootAt("listAll") \/ ShootAt("deleteEach") => shoot.phase \in {"deleted", "gone"}

\* Secrets are created one after the other.
Ordered ==
    \A s, t \in SecretId : s < t /\ secret[t].stage # "none"
       => secret[s].stage # "none" /\ secret[s].created =< secret[t].created

CreatedInPast == \A s \in SecretId : secret[s].created =< now

Workers ==
    \A s \in SecretId :
      /\ ~At(s, "idle") => secret[s].stage # "none"
      /\ worker[s].pc \in RegularPc \ {"addFinalizer"} /\ secret[s].stage = "live" => secret[s].fin
      /\ At(s, "deleteSelf") => ~Young(s)
      /\ worker[s].pc \in {"ensureUser", "createCredential", "createSecret"} => PastRenewTime(s)
      /\ worker[s].pc \in CleanupPc => seen[s].stage \in {"terminating", "gone"}

\* There never was, or is no longer, anything of the Secret.
Past(s) == secret[s].stage = "none" \/ Settled(s)

\* What there is is of this use of the name, and not old.
AllYoung == \A s \in SecretId : Past(s) \/ Young(s)

\* The Secrets that a request has come across.
Cited ==
    {s \in SecretId : \E h \in Admissions :
        ~AdmissionAt(h, "idle") /\ s \in {admission[h].newest, admission[h].ref}}

\* While somebody asks for the name, nothing that a request may need is on its
\* way out.
Asking ==
    /\ \A s \in Cited : secret[s].stage = "live"
    /\ ~AdmissionsIdle =>
         \/ NothingLeft
         \/ InUse /\ \A s \in SecretId : s \in Cited \/ IsNewest(s, secret) => ~Expired(s)

\* In a view, what is going, and is not of an earlier use of the name, has a
\* younger Secret that stays.
Succeeded(view) ==
    \A s \in SecretId : view[s].stage \in {"terminating", "gone"} /\ ~Settled(s)
       => \E t \in SecretId : t > s /\ view[t].stage = "live"

\* The operator decides as if there was no Shoot only about Secrets that are new.
ShootOverlooked ==
    \/ ~ShootExists(seenShoot)
    \/ \E s \in SecretId : At(s, "addFinalizer") /\ ~worker[s].shoot

InUseInv ==
    InUse =>
      /\ \A s \in SecretId : secret[s].stage = "dropped" => Settled(s)
      /\ Succeeded(secret)
      /\ Succeeded(seen)
      /\ \A s \in SecretId : At(s, "deleteSelf") => \E t \in SecretId : t > s /\ secret[t].stage = "live"
      /\ \A s \in SecretId : secret[s].stage \in {"terminating", "gone"} \/ At(s, "deleteSelf") => Expired(s) \/ Settled(s)
      /\ ShootOverlooked => AllYoung
      /\ \A s \in SecretId : ~At(s, "deleteUser")

Inv ==
    /\ TypeOK /\ Lag /\ ShootLag /\ Ordered /\ CreatedInPast
    /\ Workers /\ Asking /\ InUseInv

-----------------------------------------------------------------------------
(* Why the Shoot's credentials work: what Inv leaves out.                  *)

\* Keystone holds credentials only under the cluster user.
Accounted == ~user => creds = {} /\ loose = {}

Known(s) == s = 0 \/ secret[s].stage # "none"

\* Nobody names a Secret that was never created; the shoot controller has seen
\* the one it names.
References ==
    /\ \A h \in Admissions : Known(admission[h].newest) /\ Known(admission[h].ref)
    /\ Known(shoot.binding)
    /\ ShootAt("patch") => shootWorker.target # 0 /\ seen[shootWorker.target].stage # "none"

\* While the Shoot needs it, or may come to, no application credential is lost
\* of a Secret that stays, nor between its creation and that of its Secret.
Needed == InUse \/ ~AdmissionsIdle

Backed ==
    Needed =>
      /\ \A s \in SecretId : /\ secret[s].stage = "live" => s \in creds
                             /\ At(s, "createSecret") => s \in loose
      /\ \A h \in Admissions : AdmissionAt(h, "createSecret") => h \in loose

\* The Secret itself or a younger one stays, for the operator too once it has
\* seen the Secret.
Kept(s) ==
    /\ \E t \in SecretId : t >= s /\ secret[t].stage = "live"
    /\ seen[s].stage # "none" => \E t \in SecretId : t >= s /\ seen[t].stage = "live"

\* The shoot controller moves the Shoot on, never back: where the informer does
\* not have the Secret in use yet, no Secret is old.
Forward ==
    /\ ShootAt("addFinalizer") \/ ShootAt("patch") => seenShoot.phase # "none"
    /\ InUse /\ shoot.binding # 0 =>
         /\ Kept(shoot.binding)
         /\ seen[shoot.binding].stage = "none" => AllYoung
    /\ InUse /\ ShootAt("patch") =>
         /\ Kept(shootWorker.target)
         /\ secret[shootWorker.target].stage = "live" \/ Expired(shootWorker.target)
         /\ shoot.binding =< shootWorker.target \/ ~Expired(shootWorker.target)

\* No CredentialsBinding comes back once the clean-up has deleted it: whoever
\* ends a Secret has seen it going.
Unbound ==
    \A s \in SecretId :
      /\ secret[s].stage = "gone" => seen[s].stage \in {"terminating", "gone"} /\ worker[s].pc \notin RegularPc
      /\ worker[s].pc \in CleanupPc \ {"deleteBinding"} \/ secret[s].stage = "gone" => s \notin bindings

LeaseInv == Inv /\ Accounted /\ References /\ Backed /\ Forward /\ Unbound

\* Why RevokedBeforeRemoval holds, whatever owner and administrator do.
RevokedInv ==
    /\ TypeOK /\ Accounted
    /\ \A s \in SecretId :
         /\ seen[s].stage # "none" \/ ~At(s, "idle") => secret[s].stage # "none"
         /\ At(s, "deleteUser") \/ At(s, "removeFinalizer") \/ secret[s].stage = "gone" => s \notin creds

-----------------------------------------------------------------------------
(* The lease that the lifecycle grants.                                     *)

LeasePhase == IF InUse THEN "inUse" ELSE "free"
Held == IF InUse THEN shoot.binding ELSE 0
Issued == {s \in SecretId : secret[s].stage # "none"}
Lapsed == {s \in SecretId : secret[s].stage # "none" /\ Expired(s)}

Lease ==
    INSTANCE CredentialLease WITH
      Leases <- SecretId, phase <- LeasePhase, held <- Held, issued <- Issued,
      valid <- creds, lapsed <- Lapsed, account <- user

\* All parts together keep the Shoot in working credentials, whatever webhook,
\* controllers, caches, failures and owner do: the Shoot begins with one that
\* works, moves on to others that work, and neither the one it uses, before it
\* expires, nor the account is taken away while Gardener needs it
\* (patchCredentialsBindingName and delete of the two reconcilers).
ImplementsLease == Lease!Spec

\* What the Shoot gets out of it, by a theorem of CredentialInvariant_proofs.
CredentialWorks ==
    InUse /\ shoot.binding # 0 /\ ~Expired(shoot.binding) => shoot.binding \in creds /\ user
=============================================================================
