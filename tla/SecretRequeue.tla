---------------------------- MODULE SecretRequeue ----------------------------
(***************************************************************************)
(* When the operator looks at the InternalSecrets of one Shoot again: the  *)
(* requeues of internal/controller/internalsecret, the Create events and   *)
(* the informer's periodic resync, against a clock.  Module                *)
(* CredentialLifecycle leaves open when a reconcile comes; here a          *)
(* reconcile takes no time, and what is asked is how late it may be.  That *)
(* the binding of a new Secret wakes the Shoot is taken for granted; when  *)
(* it does not is the question of ShootQueue.                              *)
(***************************************************************************)
EXTENDS Integers, FiniteSets

CONSTANTS
    MaxSecrets,    \* bound: InternalSecrets ever created
    MaxTime,       \* bound: last instant of the clock
    Validity,      \* lifetime of an application credential, in ticks
    Grace,         \* gracePeriodSecretAge
    Resync,        \* period of the informer's resync
    Day,           \* from one maintenance window of the Shoot to the next
    MaxTwins,      \* bound: Secrets created at the renew time of another, to the second
    MaxFailures,   \* bound: failed reconciles
    MaxRestarts    \* bound: restarts of the operator

ASSUME RequeueAssumption ==
    /\ {MaxSecrets, Validity, Grace, Resync, Day} \subseteq Nat \ {0}
    /\ {MaxTime, MaxTwins, MaxFailures, MaxRestarts} \subseteq Nat

VARIABLES
    now,
    secret,      \* [stage, created, late] of each InternalSecret: late in its tick
    shoot,       \* [phase, binding]: the Shoot references Secret number binding
    queue,       \* the Secrets in the work queue of the internalsecret controller
    timer,       \* when each is put there again, 0 if no requeue is pending
    shootQueue,  \* the Shoot is in the work queue of the shoot controller
    shootTimer,
    resync,      \* the instant of the informer's next resync, 0 if it has none
    keeps,       \* an event leaves a pending requeue as it is
    failures, restarts

vars == <<now, secret, shoot, queue, timer, shootQueue, shootTimer, resync, keeps, failures, restarts>>
faults == <<failures, restarts>>

SecretId == 1..MaxSecrets

\* "new": its finalizer was not added yet.
Stage == {"none", "new", "live", "terminating", "gone"}
Existing == {s \in SecretId : secret[s].stage \in {"new", "live", "terminating"}}
IsNewest(s) == s \in Existing /\ \A t \in Existing : t =< s

Instant == 0..(MaxTime + Validity + Grace + Day + 1)

TypeOK ==
    /\ now \in 0..MaxTime
    /\ secret \in [SecretId -> [stage : Stage, created : 0..MaxTime, late : BOOLEAN]]
    /\ shoot \in [phase : {"none", "live"}, binding : 0..MaxSecrets]
    /\ queue \subseteq SecretId /\ timer \in [SecretId -> Instant]
    /\ shootQueue \in BOOLEAN /\ shootTimer \in Instant
    /\ resync \in 0..(MaxTime + Resync) /\ keeps \in BOOLEAN
    /\ failures \in 0..MaxFailures /\ restarts \in 0..MaxRestarts

RenewTime(s) == secret[s].created + Validity \div 2
ExpiresAt(s) == secret[s].created + Validity

\* The webhook has created the first Secret, with its binding.
Init ==
    /\ now = 0
    /\ secret = [s \in SecretId |->
                    [stage |-> IF s = 1 THEN "new" ELSE "none", created |-> 0, late |-> TRUE]]
    /\ shoot = [phase |-> "none", binding |-> 0]
    /\ queue = {1} /\ timer = [s \in SecretId |-> 0]
    /\ shootQueue = FALSE /\ shootTimer = 0
    /\ resync \in {0, Resync} /\ keeps \in BOOLEAN
    /\ failures = 0 /\ restarts = 0

-----------------------------------------------------------------------------
(* The environment.                                                        *)

\* The request that made the Secret is admitted, within the first tick, or not.
CreateShoot ==
    /\ shoot.phase = "none" /\ now = 0 /\ secret[1].stage \in {"new", "live"}
    /\ shoot' = [phase |-> "live", binding |-> 1]
    /\ shootQueue' = TRUE
    /\ UNCHANGED <<now, secret, queue, timer, shootTimer, resync, keeps, faults>>

\* The delaying queue: of two requeues the earlier counts.
Earliest(old, at) == IF old = 0 \/ at < old THEN at ELSE old

\* Putting s into the queue at once may make the library forget a pending requeue.
TimersAfterEvent(S) == [s \in SecretId |-> IF s \in S /\ ~keeps THEN 0 ELSE timer[s]]

TimerFires(s) ==
    /\ timer[s] = now /\ timer[s] # 0
    /\ timer' = [timer EXCEPT ![s] = 0] /\ queue' = queue \cup {s}
    /\ UNCHANGED <<now, secret, shoot, shootQueue, shootTimer, resync, keeps, faults>>

ShootTimerFires ==
    /\ shootTimer = now /\ shootTimer # 0
    /\ shootTimer' = 0 /\ shootQueue' = TRUE
    /\ UNCHANGED <<now, secret, shoot, queue, timer, resync, keeps, faults>>

Settled ==
    /\ queue = {} /\ ~shootQueue
    /\ now = 0 \/ now \notin {shootTimer} \cup {timer[s] : s \in SecretId}

\* A resync is an update event for every InternalSecret; the shoot controller's
\* predicate drops those for Shoots.
Tick ==
    /\ now < MaxTime /\ Settled
    /\ now' = now + 1
    /\ IF now' = resync
       THEN queue' = Existing /\ timer' = TimersAfterEvent(Existing) /\ resync' = now' + Resync
       ELSE UNCHANGED <<queue, timer, resync>>
    /\ UNCHANGED <<secret, shoot, shootQueue, shootTimer, keeps, faults>>

\* Requeues are in memory; every object is a Create event for the new process.
Restart ==
    /\ restarts < MaxRestarts
    /\ restarts' = restarts + 1
    /\ queue' = Existing /\ timer' = [s \in SecretId |-> 0]
    /\ shootQueue' = (shoot.phase = "live") /\ shootTimer' = 0
    /\ resync' = IF resync = 0 THEN 0 ELSE now + Resync
    /\ UNCHANGED <<now, secret, shoot, keeps, failures>>

-----------------------------------------------------------------------------
(* The internalsecret controller.                                          *)

\* Mutant of RequeueAt: at the expiry.
RequeueAtExpiry(s) == now + IF shoot.phase = "none" THEN Grace ELSE Validity

\* handleNowBeforeRenewTime: renewTime.Sub(creation) from now on, not from then.
RequeueAt(s) ==
    now + IF shoot.phase = "none" THEN Grace ELSE RenewTime(s) - secret[s].created

\* An update of s by its own reconcile is an event that brings s back.
Take(s, updated) == queue' = IF updated THEN queue ELSE queue \ {s}

\* reconcile, lines 122-129: older than the grace period, and no Shoot.
Orphaned(s) == shoot.phase = "none" /\ now > secret[s].created + Grace

ReconcileOrphan(s) ==
    /\ s \in queue /\ secret[s].stage \in {"new", "live"} /\ Orphaned(s)
    /\ secret' = [secret EXCEPT ![s].stage = "terminating"]
    /\ Take(s, TRUE)
    /\ UNCHANGED <<now, shoot, timer, shootQueue, shootTimer, resync, keeps, faults>>

\* The binding, if it is new, is an event for the Shoot.
ReconcileBeforeRenewTime(s) ==
    /\ s \in queue /\ secret[s].stage \in {"new", "live"} /\ ~Orphaned(s)
    /\ now < RenewTime(s)
    /\ secret' = [secret EXCEPT ![s].stage = "live"]
    /\ timer' = [timer EXCEPT ![s] = Earliest(@, RequeueAt(s))]
    /\ Take(s, secret[s].stage = "new")
    /\ shootQueue' = (shootQueue \/ (s # 1 /\ secret[s].stage = "new" /\ shoot.phase = "live"))
    /\ UNCHANGED <<now, shoot, shootTimer, resync, keeps, faults>>

\* handleNowAfterRenewTime: a Secret created after the renew time.  One made in
\* that very second is not seen, and s gets another successor.
Renewed(s) == \E t \in Existing :
    \/ secret[t].created > RenewTime(s)
    \/ secret[t].created = RenewTime(s) /\ secret[t].late
Twins == {t \in SecretId : ~secret[t].late}

\* Mutant of AfterRenewTime: what has expired is not looked at.
RenewOnly(s, record) == [record EXCEPT ![s].stage = "live"]

\* reconcile, lines 150-154, after the successor: expiry deletes, and no requeue.
AfterRenewTime(s, record) ==
    [record EXCEPT ![s].stage = IF now < ExpiresAt(s) THEN "live" ELSE "terminating"]

ReconcileAfterRenewTime(s) ==
    /\ s \in queue /\ secret[s].stage \in {"new", "live"} /\ ~Orphaned(s)
    /\ now >= RenewTime(s)
    /\ \/ /\ Renewed(s)
          /\ secret' = AfterRenewTime(s, secret)
          /\ Take(s, secret'[s] # secret[s])
       \/ /\ ~Renewed(s)
          /\ \E t \in SecretId, late \in BOOLEAN :
                /\ secret[t].stage = "none" /\ \A u \in 1..(t - 1) : secret[u].stage # "none"
                /\ late \/ (now = RenewTime(s) /\ Cardinality(Twins) < MaxTwins)
                /\ secret' = AfterRenewTime(s,
                      [secret EXCEPT ![t] = [stage |-> "new", created |-> now, late |-> late]])
                /\ queue' = (IF secret'[s] # secret[s] THEN queue ELSE queue \ {s}) \cup {t}
    /\ UNCHANGED <<now, shoot, timer, shootQueue, shootTimer, resync, keeps, faults>>

\* delete: an expired Secret, or one without Shoot, is cleaned up at once.  (The
\* newest one waits for the others only if the Shoot has gone, see CredentialLifecycle.)
ReconcileTerminating(s) ==
    /\ s \in queue /\ secret[s].stage = "terminating"
    /\ secret' = [secret EXCEPT ![s].stage = "gone"]
    /\ Take(s, FALSE)
    /\ UNCHANGED <<now, shoot, timer, shootQueue, shootTimer, resync, keeps, faults>>

\* Its requeue comes after the Secret has gone: Reconcile, lines 79-82.
ReconcileGone(s) ==
    /\ s \in queue /\ secret[s].stage = "gone"
    /\ Take(s, FALSE)
    /\ UNCHANGED <<now, secret, shoot, timer, shootQueue, shootTimer, resync, keeps, faults>>

\* Keystone or the API server fail: the retries last until the next tick.
Fail(s) ==
    /\ s \in queue /\ failures < MaxFailures
    /\ failures' = failures + 1
    /\ queue' = queue \ {s}
    /\ timer' = [timer EXCEPT ![s] = Earliest(@, now + 1)]
    /\ UNCHANGED <<now, secret, shoot, shootQueue, shootTimer, resync, keeps, restarts>>

-----------------------------------------------------------------------------
(* The shoot controller.                                                   *)

\* Mutant of NextWindow: a day from now.
WindowADayFromNow == now + Day

InWindow == (now % Day) = 0
NextWindow == now + Day - (now % Day)

ReconcileShoot ==
    /\ shootQueue /\ shoot.phase = "live"
    /\ shootQueue' = FALSE
    /\ \/ /\ \A s \in Existing : IsNewest(s) => shoot.binding = s
          /\ UNCHANGED <<shoot, shootTimer>>
       \/ /\ InWindow
          /\ \E s \in Existing \ {shoot.binding} :
                IsNewest(s) /\ shoot' = [shoot EXCEPT !.binding = s]
          /\ UNCHANGED shootTimer
       \/ /\ ~InWindow /\ \E s \in Existing \ {shoot.binding} : IsNewest(s)
          /\ shootTimer' = Earliest(shootTimer, NextWindow) /\ UNCHANGED shoot
    /\ UNCHANGED <<now, secret, queue, timer, resync, keeps, faults>>

Reconcile(s) ==
    \/ ReconcileOrphan(s) \/ ReconcileBeforeRenewTime(s)
    \/ ReconcileAfterRenewTime(s) \/ ReconcileTerminating(s) \/ ReconcileGone(s)

Next ==
    \/ CreateShoot \/ Tick \/ Restart
    \/ \E s \in SecretId : Reconcile(s) \/ Fail(s) \/ TimerFires(s)
    \/ ReconcileShoot \/ ShootTimerFires

Spec == Init /\ [][Next]_vars

-----------------------------------------------------------------------------
\* The newest Secret of a Shoot is renewed before it expires by its requeues
\* alone, late as they are (line 171 counts from the last reconcile), but for the
\* time that failures take; with the informer's resync, a period after the renew
\* time.
RenewedInTime ==
    /\ TypeOK
    /\ Settled /\ shoot.phase = "live" =>
          \A s \in Existing : IsNewest(s) =>
              /\ now < ExpiresAt(s) + failures
              /\ resync # 0 => now < RenewTime(s) + Resync + failures

\* The renewal leaves the Shoot a maintenance window to change over in, so the
\* credential it works with never expires, and its Secret is not taken away.
ReferencedIsUsable ==
    Settled /\ resync # 0 /\ shoot.phase = "live" /\ 2 * (Resync + MaxFailures + Day) =< Validity =>
        shoot.binding \in Existing /\ now < ExpiresAt(shoot.binding)

\* A Secret that has expired (line 154 gives it no requeue to find out), or that no
\* Shoot came for, is gone a resync later; the latter also by its requeues alone,
\* at the end of the grace period.
UselessGoes ==
    Settled =>
        \A s \in Existing :
           /\ resync # 0 => now < ExpiresAt(s) + Resync + failures
           /\ shoot.phase = "none" =>
                 /\ resync # 0 => now < secret[s].created + Grace + Resync + failures
                 /\ now < secret[s].created + 2 * Grace + failures

-----------------------------------------------------------------------------
\* Why they hold: nothing is in time by itself, but whatever has a deadline is
\* looked at before it, and a look leaves a requeue or a successor behind.

RenewDelay == Validity \div 2
Live == shoot.phase = "live"

\* s is looked at by time d, now or when its requeue comes; or when the resync does.
LookedAt(s, d) ==
    \/ s \in queue /\ now =< d
    \/ timer[s] # 0 /\ timer[s] =< d
Due(s, d) == LookedAt(s, d) \/ (resync # 0 /\ resync =< d)

\* Secrets are numbered in the order of their creation; only a Shoot gets a second.
Chronology ==
    /\ secret[1].stage # "none" /\ secret[1].created = 0
    /\ \A s \in SecretId : secret[s].stage # "none" =>
          /\ secret[s].created =< now
          /\ \A t \in 1..s : secret[t].stage # "none" /\ secret[t].created =< secret[s].created
    /\ Live \/ \A s \in SecretId : s # 1 => secret[s].stage = "none"
    /\ Live => \E s \in SecretId : IsNewest(s) /\ secret[s].stage # "terminating"

\* No requeue is overdue.
Punctual ==
    /\ \A s \in SecretId : timer[s] # 0 => now =< timer[s]
    /\ resync # 0 => now < resync /\ resync =< now + Resync
    /\ shootTimer # 0 => now =< shootTimer
    /\ shootTimer % Day = 0

NewestInTime ==
    Live => \A s \in Existing : IsNewest(s) =>
        /\ LookedAt(s, ExpiresAt(s) - 1 + failures)
        /\ resync # 0 => Due(s, RenewTime(s) + Resync - 1 + failures)

OrphanInTime ==
    ~Live => \A s \in Existing :
        /\ LookedAt(s, 2 * Grace + failures)
        /\ resync # 0 => Due(s, Grace + Resync + failures)

ExpiredInTime ==
    resync # 0 => \A s \in Existing : Due(s, ExpiresAt(s) + Resync - 1 + failures)

\* The Shoot changes over: when the newest Secret has its binding, which is while
\* the referenced one could still be renewed in time, the Shoot is woken, now or in
\* the next window.
Windowed == IF InWindow THEN now ELSE NextWindow
ChangesOver(b) ==
    LET due == RenewTime(b) + Resync - 1 + failures IN
    \/ IsNewest(b)
    \/ \E s \in Existing : IsNewest(s) /\ secret[s].stage = "new" /\ LookedAt(s, due)
    \/ shootQueue /\ Windowed =< due + Day
    \/ shootTimer # 0 /\ shootTimer =< due + Day

Changeover ==
    Live /\ resync # 0 /\ 2 * (Resync + MaxFailures + Day) =< Validity =>
        /\ shoot.binding \in Existing /\ secret[shoot.binding].stage # "terminating"
        /\ ChangesOver(shoot.binding)

RequeueInv ==
    /\ TypeOK /\ Chronology /\ Punctual /\ NewestInTime /\ OrphanInTime
    /\ ExpiredInTime /\ Changeover
=============================================================================
