----------------------------- MODULE ShootQueue -----------------------------
(***************************************************************************)
(* What makes the operator reconcile a Shoot: the watches, predicates and  *)
(* map functions of internal/controller/shoot, its work queue and the      *)
(* requeue into the maintenance window.  No event tells the controller of  *)
(* a new InternalSecret: it waits for the Secret's CredentialsBinding.     *)
(* The internalsecret controller makes a binding only once it knows the    *)
(* Secret, from the cache that the map function reads; the webhook, of     *)
(* which any number of create requests may be in flight, makes it at once. *)
(***************************************************************************)
EXTENDS Integers

CONSTANTS
    MaxSecrets  \* bound: InternalSecrets ever created for the Shoot name

ASSUME QueueAssumption == MaxSecrets \in Nat \ {0}

VARIABLES
    created,    \* InternalSecrets created so far; the youngest is the greatest
    secrets,    \* those in the API server
    known,      \* those in the operator's cache
    bindings,   \* Secrets that have a CredentialsBinding
    events,     \* CredentialsBinding Create events the operator has yet to map
    admitting,  \* Secrets that create requests have made or found and not yet bound
    admitted,   \* those they have bound, while no Shoot is stored
    hasty,      \* those they bound before the operator knew them, if neither the
                \* binding's event nor a reconcile came upon them since
    shoot,      \* the Shoot in the API server
    seenShoot,  \* the operator's cached copy
    queued,     \* the Shoot is in the work queue
    timer,      \* a RequeueAfter is pending
    worker      \* [pc, the cached Shoot it works on, target, unforce] of the reconcile

vars == <<created, secrets, known, bindings, events, admitting, admitted, hasty, shoot, seenShoot, queued, timer, worker>>
requestVars == <<admitting, admitted>>
clusterVars == <<created, secrets, bindings, requestVars, shoot>>
operatorVars == <<known, seenShoot, queued, timer, worker>>

SecretId == 1..MaxSecrets

\* "deleted": deletion timestamp and last operation Delete Succeeded.  status
\* stands for all that Gardener reports and this controller ignores.  force is
\* the annotation that asks for an update at once, confine the Shoot's
\* maintenance.confineSpecUpdateRollout.
Phase == {"none", "live", "deleting", "deleted", "gone"}
ShootRecord ==
    [phase : Phase, binding : 0..MaxSecrets, status : BOOLEAN, fin : BOOLEAN,
     force : BOOLEAN, confine : BOOLEAN]
NoShoot ==
    [phase |-> "none", binding |-> 0, status |-> FALSE, fin |-> FALSE,
     force |-> FALSE, confine |-> FALSE]

\* unforce: the patch removes the annotation, which the cached copy had.
Idle == [pc |-> "idle", obj |-> NoShoot, target |-> 0, unforce |-> FALSE]

TypeOK ==
    /\ created \in 0..MaxSecrets
    /\ secrets \subseteq 1..created /\ known \subseteq 1..created
    /\ bindings \subseteq secrets /\ events \subseteq bindings /\ hasty \subseteq bindings
    /\ admitting \subseteq secrets /\ admitted \subseteq 1..created
    /\ shoot \in ShootRecord /\ seenShoot \in ShootRecord
    /\ queued \in BOOLEAN /\ timer \in BOOLEAN
    /\ worker \in [pc : {"idle", "finalizer", "patch", "deleteAll", "release"},
                   obj : ShootRecord, target : 0..MaxSecrets, unforce : BOOLEAN]

Init ==
    /\ created = 0 /\ secrets = {} /\ known = {} /\ bindings = {} /\ events = {}
    /\ admitting = {} /\ admitted = {} /\ hasty = {}
    /\ shoot = NoShoot /\ seenShoot = NoShoot
    /\ queued = FALSE /\ timer = FALSE /\ worker = Idle

IsNewest(s, view) == s \in view /\ \A t \in view : t =< s
NewestOrNone(view) == IF view = {} THEN 0 ELSE CHOOSE s \in view : IsNewest(s, view)

-----------------------------------------------------------------------------
(* The cluster.                                                            *)

NewSecret == created < MaxSecrets /\ created' = created + 1 /\ secrets' = secrets \cup {created'}

\* Any number of create requests may be in the webhook at once: what two of them do
\* with one Secret is what one does.  The webhook's informer lags as well, so it
\* finds no Secret, or one that is or was the newest.
RequestCreatesSecret ==
    /\ NewSecret
    /\ admitting' = admitting \cup {created'}
    /\ UNCHANGED <<bindings, events, admitted, hasty, shoot, operatorVars>>

\* A request that finds a Secret with a binding, when there is a Shoot, does nothing;
\* those for the name after the deletion are left to CredentialLifecycle.
RequestFindsSecret(s) ==
    /\ s \in secrets \ (admitting \cup admitted)
    /\ shoot.phase = "none" \/ (shoot.phase \in {"live", "deleting"} /\ s \notin bindings)
    /\ admitting' = admitting \cup {s}
    /\ UNCHANGED <<created, secrets, bindings, events, admitted, hasty, shoot, operatorVars>>

\* EnsureCredentialsBindingForInternalSecret: that it exists is no error.
EnsureBinding(s) ==
    /\ bindings' = bindings \cup {s}
    /\ events' = IF s \in bindings THEN events ELSE events \cup {s}

\* The API server refuses the request in the end if it has the Shoot.
RequestEnsuresBinding(s) ==
    /\ s \in admitting
    /\ EnsureBinding(s)
    /\ hasty' = IF s \in bindings \cup known THEN hasty ELSE hasty \cup {s}
    /\ admitting' = admitting \ {s}
    /\ admitted' = IF shoot.phase = "none" THEN admitted \cup {s} ELSE admitted
    /\ UNCHANGED <<created, secrets, shoot, operatorVars>>

RequestFails(s) ==
    /\ s \in admitting \cup admitted
    /\ admitting' = admitting \ {s} /\ admitted' = admitted \ {s}
    /\ UNCHANGED <<created, secrets, bindings, events, hasty, shoot, operatorVars>>

\* One of the requests gets its Shoot stored.
CreateShoot(s) ==
    /\ s \in admitted /\ shoot.phase = "none"
    /\ \E c \in BOOLEAN :
          shoot' = [NoShoot EXCEPT !.phase = "live", !.binding = s, !.confine = c]
    /\ admitted' = {}
    /\ UNCHANGED <<created, secrets, bindings, events, admitting, hasty, operatorVars>>

\* The internalsecret controller creates a successor.
CreateSuccessor ==
    /\ shoot.phase = "live" /\ NewSecret
    /\ UNCHANGED <<bindings, events, requestVars, hasty, shoot, operatorVars>>

\* Mutant of CreateBinding: a successor gets its binding from who creates it.
CreateBindingUnseen(s) ==
    /\ s \in secrets \ bindings
    /\ EnsureBinding(s)
    /\ UNCHANGED <<created, secrets, requestVars, hasty, shoot, operatorVars>>

\* The internalsecret controller makes the binding of a Secret it knows, from the
\* same cache, if a request has not.
CreateBinding(s) ==
    /\ s \in (secrets \cap known) \ bindings
    /\ EnsureBinding(s)
    /\ UNCHANGED <<created, secrets, requestVars, hasty, shoot, operatorVars>>

\* The internalsecret controller removes a Secret that has expired: it has a
\* successor and the Shoot is past it, or the Shoot has gone.  Its binding is
\* garbage-collected; events and requests still under way for it would do no more
\* than its own Delete event.
RemoveSecret(s) ==
    /\ s \in secrets
    /\ \/ shoot.phase \in {"deleted", "gone"}
       \/ shoot.phase \in {"live", "deleting"} /\ \E t \in secrets : t > s
    /\ secrets' = secrets \ {s} /\ bindings' = bindings \ {s} /\ events' = events \ {s}
    /\ admitting' = admitting \ {s} /\ hasty' = hasty \ {s}
    /\ UNCHANGED <<created, admitted, shoot, operatorVars>>

\* The owner sets or removes the annotation, which a Shoot that confines its
\* updates does not need; to edit the confinement would be the same.
OwnerEditsShoot ==
    /\ shoot.phase = "live" /\ ~shoot.confine
    /\ shoot' = [shoot EXCEPT !.force = ~@]
    /\ UNCHANGED <<created, secrets, bindings, events, requestVars, hasty, operatorVars>>

\* Bound: once.
GardenerReports ==
    /\ shoot.phase \in {"live", "deleting"} /\ ~shoot.status
    /\ shoot' = [shoot EXCEPT !.status = TRUE]
    /\ UNCHANGED <<created, secrets, bindings, events, requestVars, hasty, operatorVars>>

ShootProgress(from, to) ==
    /\ shoot.phase = from
    /\ shoot' = [shoot EXCEPT !.phase = to]
    /\ UNCHANGED <<created, secrets, bindings, events, requestVars, hasty, operatorVars>>

OwnerDeletesShoot == ShootProgress("live", "deleting")
GardenerDeletesShoot == ShootProgress("deleting", "deleted")
ShootVanishes == ~shoot.fin /\ ShootProgress("deleted", "gone")

-----------------------------------------------------------------------------
(* Watches.                                                                *)

\* What shootRelevantUpdatePredicate compares of a Shoot that is wanted: the
\* generation and the spec, the finalizers, the annotations.
Relevant(s) == <<s.binding, s.confine, s.fin, s.force>>

\* Mutants of ShootRelevant: after the deletion timestamp nothing matters;
\* annotations do not matter.
ShootRelevantUntilDeletion(old, new) ==
    \/ new.phase \in {"deleting", "deleted"} /\ old.phase = "live"
    \/ new.phase = "live" /\ Relevant(old) # Relevant(new)

ShootRelevantButAnnotations(old, new) ==
    \/ old.phase = "none" \/ new.phase = "gone"
    \/ new.phase \in {"deleting", "deleted"} /\ (old.phase = "live" \/ new.phase = "deleted")
    \/ new.phase = "live" /\ <<old.binding, old.confine, old.fin>> # <<new.binding, new.confine, new.fin>>

\* shootRelevantUpdatePredicate.Update; a first sight is a Create event and
\* always relevant, a Delete event too.
ShootRelevant(old, new) ==
    \/ old.phase = "none" \/ new.phase = "gone"
    \/ new.phase \in {"deleting", "deleted"} /\ (old.phase = "live" \/ new.phase = "deleted")
    \/ new.phase = "live" /\ Relevant(old) # Relevant(new)

SyncShoot ==
    /\ seenShoot # shoot
    /\ seenShoot' = shoot
    /\ queued' = (queued \/ ShootRelevant(seenShoot, shoot))
    /\ UNCHANGED <<clusterVars, known, events, hasty, timer, worker>>

\* Only a Secret's deletion is an event for the Shoot (MapInternalSecretToShoot).
SyncSecrets ==
    /\ known # secrets
    /\ known' = secrets
    /\ queued' = (queued \/ ~(known \subseteq secrets))
    /\ UNCHANGED <<clusterVars, events, hasty, seenShoot, timer, worker>>

\* MapCredentialsBindingToShoot: the event is dropped unless its Secret, which
\* names the Shoot, is in the cache.
MapBinding(s) ==
    /\ s \in events
    /\ events' = events \ {s}
    /\ queued' = (queued \/ s \in known)
    /\ hasty' = hasty \ ({s} \cap known)
    /\ UNCHANGED <<clusterVars, known, seenShoot, timer, worker>>

TimerFires ==
    /\ timer
    /\ timer' = FALSE /\ queued' = TRUE
    /\ UNCHANGED <<clusterVars, known, events, hasty, seenShoot, worker>>

-----------------------------------------------------------------------------
(* Reconcile.                                                              *)

\* The Shoot does not wait for its maintenance window.
AtOnce(obj) == obj.force \/ obj.confine

Patching(obj) ==
    [Idle EXCEPT !.pc = "patch", !.target = NewestOrNone(known), !.unforce = obj.force]

\* Mutants of Decide: the window is asked first; no requeue.
DecideInWindowOnly(obj, inWindow) ==
    IF NewestOrNone(known) \in {0, obj.binding} THEN worker' = Idle /\ UNCHANGED timer
    ELSE IF inWindow THEN worker' = Patching(obj) /\ UNCHANGED timer
    ELSE worker' = Idle /\ timer' = TRUE

DecideWithoutRequeue(obj, inWindow) ==
    /\ worker' = IF (AtOnce(obj) \/ inWindow) /\ NewestOrNone(known) \notin {0, obj.binding}
                 THEN Patching(obj) ELSE Idle
    /\ UNCHANGED timer

\* The switch of reconcile: a patch, or a requeue into the next window.
Decide(obj, inWindow) ==
    LET newest == NewestOrNone(known) IN
    \/ /\ newest \in {0, obj.binding}
       /\ worker' = Idle /\ UNCHANGED timer
    \/ /\ newest \notin {0, obj.binding} /\ (AtOnce(obj) \/ inWindow)
       /\ worker' = Patching(obj) /\ UNCHANGED timer
    \/ /\ newest \notin {0, obj.binding} /\ ~AtOnce(obj) /\ ~inWindow
       /\ worker' = Idle /\ timer' = TRUE

Dequeue(inWindow) ==
    /\ queued /\ worker = Idle
    /\ queued' = FALSE
    /\ \/ /\ seenShoot.phase \in {"none", "deleting", "gone"}
          /\ UNCHANGED <<worker, timer, hasty>>
       \/ /\ seenShoot.phase = "live" /\ seenShoot.fin
          /\ Decide(seenShoot, inWindow) /\ hasty' = hasty \ known
       \/ /\ seenShoot.phase = "live" /\ ~seenShoot.fin
          /\ worker' = [Idle EXCEPT !.pc = "finalizer", !.obj = seenShoot] /\ UNCHANGED <<timer, hasty>>
       \/ /\ seenShoot.phase = "deleted"
          /\ worker' = [Idle EXCEPT !.pc = "deleteAll"] /\ UNCHANGED <<timer, hasty>>
    /\ UNCHANGED <<clusterVars, known, events, seenShoot>>

\* The patch is optimistically locked: a stale copy of the Shoot fails.
AddFinalizer(inWindow) ==
    /\ worker.pc = "finalizer"
    /\ shoot = worker.obj
    /\ shoot' = [shoot EXCEPT !.fin = TRUE]
    /\ Decide(shoot, inWindow) /\ hasty' = hasty \ known
    /\ UNCHANGED <<created, secrets, bindings, requestVars, known, events, seenShoot, queued>>

\* A merge patch of what differs from the cached copy: the reference, and the
\* annotation if that copy had it.
PatchBinding ==
    /\ worker.pc = "patch"
    /\ shoot.phase \in {"live", "deleting", "deleted"}
    /\ shoot' = [shoot EXCEPT !.binding = worker.target, !.force = @ /\ ~worker.unforce]
    /\ worker' = Idle
    /\ UNCHANGED <<created, secrets, bindings, requestVars, known, events, hasty, seenShoot, queued, timer>>

\* DeleteAllOf marks the Secrets; they vanish as RemoveSecret does.
DeleteAll ==
    /\ worker.pc = "deleteAll"
    /\ worker' = [worker EXCEPT !.pc = "release"]
    /\ UNCHANGED <<clusterVars, known, events, hasty, seenShoot, queued, timer>>

RemoveFinalizer ==
    /\ worker.pc = "release"
    /\ shoot' = IF shoot.phase = "deleted" THEN [shoot EXCEPT !.fin = FALSE] ELSE shoot
    /\ worker' = Idle
    /\ UNCHANGED <<created, secrets, bindings, requestVars, known, events, hasty, seenShoot, queued, timer>>

\* A failed call: the item goes back to the queue, after a delay that does
\* not matter here.
Fail ==
    /\ worker # Idle
    /\ worker' = Idle /\ queued' = TRUE
    /\ UNCHANGED <<clusterVars, known, events, hasty, seenShoot, timer>>

\* Queue, timers and undelivered events are lost; the caches are filled from
\* the API server before a Create event for every object is handled.
Restart ==
    /\ known' = secrets /\ seenShoot' = shoot
    /\ events' = bindings /\ hasty' = {}
    /\ queued' = (shoot.phase \notin {"none", "gone"})
    /\ timer' = FALSE /\ worker' = Idle
    /\ UNCHANGED clusterVars

Call ==
    \/ \E inWindow \in BOOLEAN : AddFinalizer(inWindow)
    \/ PatchBinding \/ DeleteAll \/ RemoveFinalizer

Next ==
    \/ RequestCreatesSecret \/ CreateSuccessor \/ OwnerEditsShoot \/ GardenerReports
    \/ \E s \in SecretId :
          \/ RequestFindsSecret(s) \/ RequestEnsuresBinding(s) \/ RequestFails(s) \/ CreateShoot(s)
          \/ CreateBinding(s) \/ RemoveSecret(s) \/ MapBinding(s)
    \/ OwnerDeletesShoot \/ GardenerDeletesShoot \/ ShootVanishes
    \/ SyncShoot \/ SyncSecrets \/ TimerFires
    \/ \E inWindow \in BOOLEAN : Dequeue(inWindow)
    \/ Call \/ Fail \/ Restart

Spec == Init /\ [][Next]_vars

-----------------------------------------------------------------------------
\* What a reconcile would act on, if there was one.
AdoptionDue == shoot.phase = "live" /\ NewestOrNone(secrets) \notin {0, shoot.binding}
ReleaseDue == shoot.phase = "deleted" /\ shoot.fin

NewestAnnounced ==
    LET newest == NewestOrNone(secrets) IN newest \in bindings /\ newest \notin events

WakeupPending ==
    \/ queued \/ worker # Idle \/ seenShoot # shoot
    \/ AdoptionDue /\ ((timer /\ ~AtOnce(shoot)) \/ ~NewestAnnounced)

\* The one way to lose a wake-up: the webhook bound the newest Secret while the
\* Shoot was there already, for a create request that came second, and the event
\* was mapped before the operator knew the Secret (MapCredentialsBindingToShoot,
\* lines 74-78).  The internalsecret controller then finds the binding there.
Overlooked == AdoptionDue /\ NewestOrNone(secrets) \in hasty \ events

\* A Shoot that has something to be reconciled is in the queue, or an event that
\* puts it there is under way, or a timer if it may wait for its window, unless
\* it is overlooked: other dropped binding events, filtered updates and restarts
\* lose no wake-up (AddToManager, lines 49-63), and who asks for an update at once
\* does not get it at the next window (shootRelevantUpdatePredicate, lines 136-138).
NoLostWakeup == AdoptionDue \/ ReleaseDue => WakeupPending \/ Overlooked

\* A Shoot that has something to be reconciled is always about to be.
EveryWakeupKept == AdoptionDue \/ ReleaseDue => WakeupPending

-----------------------------------------------------------------------------
(* Why no wake-up is lost: the inductive invariant. *)

Rank(phase) ==
    CASE phase = "none" -> 0 [] phase = "live" -> 1 [] phase = "deleting" -> 2
      [] phase = "deleted" -> 3 [] phase = "gone" -> 4

\* The cached Shoot is an earlier version of the Shoot, which references one of
\* the Secrets created so far, the same until it has its finalizer.
ShootHistory ==
    /\ Rank(seenShoot.phase) =< Rank(shoot.phase)
    /\ seenShoot.phase = "none" => seenShoot = NoShoot
    /\ seenShoot.fin => shoot.fin \/ shoot.phase \in {"deleted", "gone"}
    /\ IF shoot.phase = "none" THEN shoot = NoShoot ELSE shoot.binding \in 1..created
    /\ shoot.phase = "live" /\ ~shoot.fin =>
          seenShoot.phase = "none" \/ seenShoot.binding = shoot.binding

\* A Secret has a binding only once the operator knows it, or it is from a hasty
\* request; the newest stays as long as its Shoot is wanted.
SecretHistory ==
    /\ shoot.phase \in {"none", "live"} /\ created > 0 => created \in secrets
    /\ bindings \subseteq known \cup hasty

\* What the worker has decided, and that what overtakes it is queued behind it.
WorkerDecision ==
    /\ worker.pc = "finalizer" => worker.obj.phase = "live" /\ ~worker.obj.fin
    /\ worker.pc = "patch" =>
          /\ worker.target \in 1..created
          /\ shoot.fin \/ shoot.phase \in {"deleted", "gone"}
          /\ seenShoot.phase = "live" /\ seenShoot.binding = worker.target => queued
          /\ seenShoot.phase = "deleted" => queued
    /\ worker.pc \in {"deleteAll", "release"} => shoot.phase \in {"deleted", "gone"}

\* The operator has yet to see what the owner can not take back: the annotation,
\* set and removed again, may be no news at all.
IsNews(old, new) ==
    LET edited == [new EXCEPT !.force = old.force]
    IN  old # edited /\ ShootRelevant(old, edited)

\* NoLostWakeup with the stale caches left out that bring no event, and a timer
\* that counts only if the operator knows of no urgency.
WakeupKept ==
    AdoptionDue \/ ReleaseDue =>
        \/ queued \/ worker # Idle \/ IsNews(seenShoot, shoot)
        \/ AdoptionDue /\ (~NewestAnnounced \/ (timer /\ ~AtOnce(seenShoot)))
        \/ Overlooked

\* The history of the caches, the worker's decision and the wake-up that both keep.
QueueInv == TypeOK /\ ShootHistory /\ SecretHistory /\ WorkerDecision /\ WakeupKept

-----------------------------------------------------------------------------
(* Liveness. *)

Stuck ==
    \/ worker.pc = "finalizer" /\ shoot # worker.obj
    \/ worker.pc = "patch" /\ shoot.phase \in {"none", "gone"}

\* Errors that are not conflicts, the owner's edits and restarts pause for long
\* enough; caches catch up, and a Secret gets its binding, which the
\* internalsecret controller ensures on its every reconcile before the renew time.
Fairness ==
    /\ <>[][Fail => Stuck]_vars /\ <>[][~OwnerEditsShoot /\ ~Restart]_vars
    /\ WF_vars(SyncShoot) /\ WF_vars(SyncSecrets) /\ WF_vars(TimerFires)
    /\ \A s \in SecretId : WF_vars(CreateBinding(s)) /\ WF_vars(MapBinding(s))
    /\ SF_vars(\E inWindow \in BOOLEAN : Dequeue(inWindow)) /\ WF_vars(Call) /\ WF_vars(Fail)
    /\ WF_vars(ShootVanishes)

FairSpec == Spec /\ Fairness

\* A Shoot that does not wait for its window comes to reference its newest Secret
\* though no reconcile ever meets a window, or stays overlooked: nothing is left to
\* the timer, and a stale copy of the Shoot does not undo the owner's request
\* (reconcile, lines 84-90, and patchCredentialsBindingName).
AdoptedAtOnce ==
    (AdoptionDue /\ AtOnce(shoot)) ~> (~(AdoptionDue /\ AtOnce(shoot)) \/ []Overlooked)

\* A live Shoot comes to reference its newest Secret in spite of restarts, stale
\* caches and windows that are missed (reconcile, lines 70-110), if some of the
\* reconciles that are due meet a window, where RandomDurationUntilNext puts them,
\* or stays overlooked: the operator's next Secret would end that.
Adopted == SF_vars(Dequeue(TRUE)) => (AdoptionDue ~> (~AdoptionDue \/ []Overlooked))

\* A Shoot that Gardener has deleted is released (delete, lines 121-136): the
\* one status update that matters is not filtered.
Released == ReleaseDue ~> ~ReleaseDue
=============================================================================
