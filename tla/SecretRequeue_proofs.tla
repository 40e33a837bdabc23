------------------------ MODULE SecretRequeue_proofs ------------------------
(***************************************************************************)
(* The requeues of a Shoot's InternalSecrets are in time, for any validity *)
(* of a credential, grace period, resync period, distance of the           *)
(* maintenance windows, and any number of Secrets, failures and restarts,  *)
(* if the grace period ends before the first renewal (an hour against      *)
(* thirty days: reconciler.go:38, :42, constants/consts.go:13).            *)
(***************************************************************************)
EXTENDS SecretRequeue, TLAPS

GraceIsShort == Grace < RenewDelay

LEMMA Delays ==
    /\ RenewDelay \in Nat /\ 2 * RenewDelay =< Validity
    /\ \A x \in Nat : 2 * x =< Validity => x =< RenewDelay
BY RequeueAssumption DEF RenewDelay

LEMMA Multiples == \A d \in Nat \ {0}, y \in Nat : (y + d - (y % d)) % d = 0
OBVIOUS

LEMMA Quotients == \A d \in Nat \ {0}, y \in Nat : y % d = 0 => \E q \in Int : y = d * q
OBVIOUS

\* Windows of maintenance: the next one is the first not before.
LEMMA Windows ==
    ASSUME NEW t \in Nat
    PROVE  /\ t % Day \in 0..(Day - 1) /\ 0 % Day = 0
           /\ (t + Day - (t % Day)) % Day = 0
           /\ \A x \in Nat : t =< x /\ x % Day = 0 /\ t % Day # 0 => t + Day - (t % Day) =< x
<1>1. Day \in Nat \ {0}
  BY RequeueAssumption
<1>2. t % Day \in 0..(Day - 1) /\ 0 % Day = 0
  <2>1. \A d \in Nat \ {0}, y \in Nat : y % d \in 0..(d - 1) /\ 0 % d = 0
    OBVIOUS
  <2> QED
    BY <1>1, <2>1
<1>3. (t + Day - (t % Day)) % Day = 0
  BY <1>1, Multiples
<1>4. \A y \in Nat : y % Day = 0 => \E q \in Int : y = Day * q
  BY <1>1, Quotients
<1>5. ASSUME NEW x \in Nat, t =< x, x % Day = 0, t % Day # 0, ~(t + Day - (t % Day) =< x)
      PROVE  FALSE
  <2>1. PICK y : y = t + Day - (t % Day)
    OBVIOUS
  <2>2. y \in Nat /\ y % Day = 0 /\ x < y /\ y < t + Day
    BY <1>1, <1>2, <1>3, <1>5, <2>1
  <2>3. PICK p, q \in Int : x = Day * p /\ y = Day * q
    BY <1>4, <1>5, <2>2
  <2>4. \A d \in Nat \ {0}, a, b \in Int : d * a < d * b => d * a + d =< d * b
    <3> SUFFICES ASSUME NEW d \in Nat \ {0}, NEW a \in Int, NEW b \in Int, d * a < d * b
                 PROVE  d * a + d =< d * b
      OBVIOUS
    <3>1. PICK k : k = b - a
      OBVIOUS
    <3>2. k \in Int /\ d * k = d * b - d * a
      BY <3>1
    <3>3. k >= 1
      BY <3>2
    <3>4. d * k >= d
      BY <3>2, <3>3
    <3> QED
      BY <3>2, <3>4
  <2>5. x + Day =< y
    BY <1>1, <2>2, <2>3, <2>4
  <2> QED
    BY <1>1, <1>5, <2>2, <2>5
<1> QED
  BY <1>2, <1>3, <1>5

-----------------------------------------------------------------------------
(* Types. *)

Record == [stage : Stage, created : 0..MaxTime, late : BOOLEAN]

LEMMA Types ==
    ASSUME TypeOK
    PROVE  /\ now \in Nat /\ now =< MaxTime /\ resync \in Nat /\ shootTimer \in Nat /\ failures \in Nat
           /\ secret \in [SecretId -> Record] /\ timer \in [SecretId -> Instant]
           /\ \A s \in SecretId : /\ secret[s] \in Record /\ secret[s].created \in Nat
                                  /\ secret[s].stage \in Stage /\ timer[s] \in Nat
           /\ RenewDelay \in Nat /\ MaxTime \in Nat /\ Validity \in Nat /\ Grace \in Nat
           /\ Resync \in Nat /\ Day \in Nat
           /\ \A t \in Nat : t =< MaxTime + Validity + Grace + Day + 1 => t \in Instant
           /\ \A t \in Instant : t \in Nat /\ t =< MaxTime + Validity + Grace + Day + 1
BY RequeueAssumption, Delays DEF TypeOK, Record, Instant

LEMMA TypeInit == Init => TypeOK
<1> SUFFICES ASSUME Init
             PROVE  TypeOK
  OBVIOUS
<1> USE RequeueAssumption
<1>1. 0 \in 0..MaxTime /\ 0 \in Instant /\ 1 \in SecretId
  BY DEF Instant, SecretId
<1>2. secret \in [SecretId -> [stage : Stage, created : 0..MaxTime, late : BOOLEAN]]
  BY <1>1 DEF Init, Stage
<1>3. 0 \in 0..MaxSecrets /\ 0 \in 0..MaxFailures /\ 0 \in 0..MaxRestarts
  BY RequeueAssumption
<1>4. resync \in 0..(MaxTime + Resync)
  BY DEF Init
<1> QED
  BY <1>1, <1>2, <1>3, <1>4 DEF Init, TypeOK

LEMMA Requeued ==
    ASSUME NEW old \in Instant, NEW at \in Nat, at =< MaxTime + Validity + Grace + Day + 1, TypeOK
    PROVE  /\ Earliest(old, at) \in Instant /\ Earliest(old, at) =< at
           /\ Earliest(old, at) \in {old, at} /\ (at # 0 => Earliest(old, at) # 0)
           /\ old # 0 => Earliest(old, at) =< old
BY Types DEF Earliest

\* A record whose stage changes.
LEMMA Restaged ==
    ASSUME NEW S, NEW old \in [S -> Record], NEW s \in S, NEW stage \in Stage,
           NEW new, new = [old EXCEPT ![s].stage = stage]
    PROVE  /\ new \in [S -> Record] /\ \A t \in S : t # s => new[t] = old[t]
           /\ new[s].stage = stage /\ new[s].created = old[s].created /\ new[s].late = old[s].late
<1>1. PICK c \in Record : c = old[s]
  OBVIOUS
<1>2. PICK x : x = [c EXCEPT !.stage = stage]
  OBVIOUS
<1>3. x \in Record /\ x.stage = stage /\ x.created = c.created /\ x.late = c.late
  BY <1>1, <1>2 DEF Record
<1>4. new = [old EXCEPT ![s] = x]
  BY <1>1, <1>2
<1> QED
  BY <1>1, <1>3, <1>4

\* Two actions change nothing of the Secrets' records but a stage.
StageTo(s, stage) == secret' = [secret EXCEPT ![s].stage = stage]

\* A new Secret, and then a stage.
Creates(s, t) ==
    /\ t # s /\ secret[t].stage = "none" /\ \A u \in 1..(t - 1) : secret[u].stage # "none"
    /\ t \in queue'
    /\ secret'[t].stage = "new" /\ secret'[t].created = now
    /\ \A u \in SecretId \ {s, t} : secret'[u] = secret[u]

\* A reconcile after the renew time that makes no Secret, and one that makes t.
LEMMA AfterRenewTimeStep ==
    ASSUME TypeOK, NEW s \in SecretId, ReconcileAfterRenewTime(s)
    PROVE  /\ secret' \in [SecretId -> Record] /\ queue' \subseteq SecretId
           /\ secret'[s].created = secret[s].created
           /\ secret'[s].stage = IF now < ExpiresAt(s) THEN "live" ELSE "terminating"
           /\ s \in queue' \/ secret'[s].stage = secret[s].stage
           /\ queue \ {s} \subseteq queue'
           /\ \/ Renewed(s) /\ \A u \in SecretId \ {s} : secret'[u] = secret[u]
              \/ ~Renewed(s) /\ \E t \in SecretId : Creates(s, t)
<1> USE Types
<1>1. PICK stage \in {"live", "terminating"} : stage = IF now < ExpiresAt(s) THEN "live" ELSE "terminating"
  OBVIOUS
<1>2. stage \in Stage /\ s \in queue /\ secret[s].stage \in {"new", "live"} /\ queue \subseteq SecretId
  BY <1>1 DEF Stage, ReconcileAfterRenewTime, TypeOK
<1>3. CASE /\ Renewed(s) /\ secret' = AfterRenewTime(s, secret)
           /\ Take(s, secret'[s] # secret[s])
  <2>1. secret' = [secret EXCEPT ![s].stage = stage]
    BY <1>1, <1>3 DEF AfterRenewTime
  <2>2. /\ secret' \in [SecretId -> Record] /\ \A t \in SecretId : t # s => secret'[t] = secret[t]
        /\ secret'[s].stage = stage /\ secret'[s].created = secret[s].created
    BY <1>2, <2>1, Restaged
  <2>3. queue' = IF secret'[s] # secret[s] THEN queue ELSE queue \ {s}
    BY <1>3 DEF Take
  <2> QED
    BY <1>1, <1>2, <1>3, <2>2, <2>3
<1>4. ASSUME ~Renewed(s), NEW t \in SecretId, NEW late \in BOOLEAN,
             secret[t].stage = "none", \A u \in 1..(t - 1) : secret[u].stage # "none",
             secret' = AfterRenewTime(s,
                [secret EXCEPT ![t] = [stage |-> "new", created |-> now, late |-> late]]),
             queue' = (IF secret'[s] # secret[s] THEN queue ELSE queue \ {s}) \cup {t}
      PROVE  /\ secret' \in [SecretId -> Record] /\ queue' \subseteq SecretId
             /\ secret'[s].created = secret[s].created
             /\ secret'[s].stage = IF now < ExpiresAt(s) THEN "live" ELSE "terminating"
             /\ s \in queue' \/ secret'[s].stage = secret[s].stage
             /\ queue \ {s} \subseteq queue'
             /\ Creates(s, t)
  <2>1. PICK c : c = [stage |-> "new", created |-> now, late |-> late]
    OBVIOUS
  <2>2. c \in Record /\ c.stage = "new" /\ c.created = now
    BY <2>1 DEF Record, Stage, TypeOK
  <2>3. PICK middle : middle = [secret EXCEPT ![t] = c]
    OBVIOUS
  <2>4. /\ middle \in [SecretId -> Record] /\ t # s /\ middle[t] = c
        /\ \A u \in SecretId : u # t => middle[u] = secret[u]
    BY <1>2, <1>4, <2>2, <2>3
  <2>5. secret' = [middle EXCEPT ![s].stage = stage]
    BY <1>1, <1>4, <2>1, <2>3 DEF AfterRenewTime
  <2>6. /\ secret' \in [SecretId -> Record] /\ \A u \in SecretId : u # s => secret'[u] = middle[u]
        /\ secret'[s].stage = stage /\ secret'[s].created = secret[s].created
    BY <1>2, <2>4, <2>5, Restaged
  <2>7. t \in queue' /\ queue' \subseteq SecretId /\ queue \ {s} \subseteq queue'
    BY <1>2, <1>4
  <2>8. s \in queue' \/ secret'[s].stage = secret[s].stage
    BY <1>2, <1>4
  <2> QED
    BY <1>1, <1>4, <2>2, <2>4, <2>6, <2>7, <2>8 DEF Creates
<1> QED
  BY <1>3, <1>4 DEF ReconcileAfterRenewTime

\* The other reconciles, which change at most the stage of s.
LEMMA StageStep ==
    ASSUME TypeOK, NEW s \in SecretId, NEW stage \in Stage, StageTo(s, stage)
    PROVE  /\ secret' \in [SecretId -> Record] /\ \A t \in SecretId : t # s => secret'[t] = secret[t]
           /\ secret'[s].stage = stage /\ secret'[s].created = secret[s].created
<1>1. PICK old, new : old = secret /\ new = secret'
  OBVIOUS
<1>2. old \in [SecretId -> Record]
  BY <1>1, Types
<1>3. new = [old EXCEPT ![s].stage = stage]
  BY <1>1 DEF StageTo
<1>4. /\ new \in [SecretId -> Record] /\ \A t \in SecretId : t # s => new[t] = old[t]
      /\ new[s].stage = stage /\ new[s].created = old[s].created
  BY <1>2, <1>3, Restaged
<1> QED
  BY <1>1, <1>4

\* The next window.
LEMMA NextWindowTime ==
    ASSUME TypeOK
    PROVE  /\ NextWindow \in Nat /\ now < NextWindow /\ NextWindow =< now + Day
           /\ NextWindow % Day = 0
           /\ \A x \in Nat : now =< x /\ x % Day = 0 /\ ~InWindow => NextWindow =< x
<1>1. PICK r : r = now % Day
  OBVIOUS
<1>2. r \in 0..(Day - 1) /\ Day \in Nat /\ now \in Nat
  BY <1>1, Types, Windows
<1>3. NextWindow = now + Day - r
  BY <1>1 DEF NextWindow
<1>4. NextWindow \in Nat /\ now < NextWindow /\ NextWindow =< now + Day
  BY <1>2, <1>3
<1> QED
  BY <1>2, <1>4, Windows DEF NextWindow, InWindow

LEMMA ReconcileStages ==
    ASSUME TypeOK, NEW s \in SecretId
    PROVE  /\ ReconcileOrphan(s) => StageTo(s, "terminating")
           /\ ReconcileBeforeRenewTime(s) => StageTo(s, "live")
           /\ ReconcileTerminating(s) => StageTo(s, "gone")
           /\ {"terminating", "live", "gone"} \subseteq Stage
BY DEF StageTo, ReconcileOrphan, ReconcileBeforeRenewTime, ReconcileTerminating, Stage

\* The requeue of a reconcile before the renew time.
LEMMA RequeueTime ==
    ASSUME TypeOK, NEW s \in SecretId
    PROVE  RequeueAt(s) = now + IF Live THEN RenewDelay ELSE Grace
BY Types DEF RequeueAt, RenewTime, Live, TypeOK, RenewDelay

LEMMA TypeStep == TypeOK /\ [Next]_vars => TypeOK'
<1> SUFFICES ASSUME TypeOK, [Next]_vars
             PROVE  TypeOK'
  OBVIOUS
<1> USE Types, RequeueAssumption
<1>1. CASE CreateShoot
  <2>1. shoot' \in [phase : {"none", "live"}, binding : 0..MaxSecrets]
    BY <1>1 DEF CreateShoot
  <2> QED
    BY <1>1, <2>1 DEF CreateShoot, TypeOK, faults
<1>2. CASE Tick
  <2>1. now' \in 0..MaxTime /\ queue' \subseteq SecretId /\ timer' \in [SecretId -> Instant]
    BY <1>2 DEF Tick, TypeOK, TimersAfterEvent, Existing, Instant
  <2>2. resync' \in 0..(MaxTime + Resync)
    BY <1>2, <2>1 DEF Tick, TypeOK
  <2> QED
    BY <1>2, <2>1, <2>2 DEF Tick, TypeOK, faults
<1>3. CASE Restart
  <2>1. timer' \in [SecretId -> Instant] /\ 0 \in Instant
    BY <1>3 DEF Restart, Instant
  <2>2. resync' \in 0..(MaxTime + Resync)
    BY <1>3 DEF Restart, TypeOK
  <2>3. queue' \subseteq SecretId /\ shootQueue' \in BOOLEAN /\ restarts' \in 0..MaxRestarts
    BY <1>3 DEF Restart, TypeOK, Existing
  <2> QED
    BY <1>3, <2>1, <2>2, <2>3 DEF Restart, TypeOK
<1>4. ASSUME NEW s \in SecretId, Reconcile(s)
      PROVE  TypeOK'
  <2>1. secret' \in [SecretId -> Record]
    BY <1>4, ReconcileStages, StageStep, AfterRenewTimeStep DEF Reconcile, ReconcileGone
  <2>2. queue' \subseteq SecretId
    BY <1>4, AfterRenewTimeStep
       DEF Reconcile, ReconcileOrphan, ReconcileBeforeRenewTime, ReconcileTerminating,
           ReconcileGone, Take, TypeOK
  <2>3. timer' \in [SecretId -> Instant] /\ shootQueue' \in BOOLEAN
    <3>1. CASE ReconcileBeforeRenewTime(s)
      <4>1. PICK at : at = RequeueAt(s)
        OBVIOUS
      <4>2. at \in Nat /\ at =< MaxTime + Validity + Grace + Day + 1
        BY <4>1, RequeueTime, Delays
      <4>3. Earliest(timer[s], at) \in Instant
        BY <4>2, Requeued
      <4>4. timer' = [timer EXCEPT ![s] = Earliest(timer[s], at)] /\ shootQueue' \in BOOLEAN
        BY <3>1, <4>1 DEF ReconcileBeforeRenewTime, TypeOK
      <4> QED
        BY <4>3, <4>4
    <3>2. CASE ~ReconcileBeforeRenewTime(s)
      BY <1>4, <3>2
         DEF Reconcile, ReconcileOrphan, ReconcileAfterRenewTime, ReconcileTerminating, ReconcileGone, TypeOK
    <3> QED
      BY <3>1, <3>2
  <2>4. UNCHANGED <<now, shoot, shootTimer, resync, keeps, failures, restarts>>
    BY <1>4 DEF Reconcile, ReconcileOrphan, ReconcileBeforeRenewTime, ReconcileAfterRenewTime,
                ReconcileTerminating, ReconcileGone, faults
  <2> QED
    BY <2>1, <2>2, <2>3, <2>4 DEF TypeOK, Record
<1>5. ASSUME NEW s \in SecretId, Fail(s)
      PROVE  TypeOK'
  <2>1. PICK at : at = now + 1
    OBVIOUS
  <2>2. Earliest(timer[s], at) \in Instant
    BY <2>1, Requeued
  <2>3. timer' \in [SecretId -> Instant]
    BY <1>5, <2>1, <2>2 DEF Fail
  <2>4. failures' \in 0..MaxFailures
    BY <1>5 DEF Fail, TypeOK
  <2> QED
    BY <1>5, <2>3, <2>4 DEF Fail, TypeOK
<1>6. ASSUME NEW s \in SecretId, TimerFires(s)
      PROVE  TypeOK'
  <2>1. 0 \in Instant
    BY DEF Instant
  <2> QED
    BY <1>6, <2>1 DEF TimerFires, TypeOK, faults
<1>7. CASE ReconcileShoot
  <2>1. PICK at : at = NextWindow
    OBVIOUS
  <2>2. at \in Nat /\ at =< MaxTime + Validity + Grace + Day + 1
    BY <2>1, NextWindowTime
  <2>3. Earliest(shootTimer, at) \in Instant
    BY <2>2, Requeued DEF TypeOK
  <2>4. shootTimer' \in Instant
    BY <1>7, <2>1, <2>3 DEF ReconcileShoot, TypeOK
  <2>5. shoot' \in [phase : {"none", "live"}, binding : 0..MaxSecrets]
    <3>1. \A s \in Existing : s \in 0..MaxSecrets
      BY DEF Existing, SecretId
    <3> QED
      BY <1>7, <3>1 DEF ReconcileShoot, TypeOK
  <2> QED
    BY <1>7, <2>4, <2>5 DEF ReconcileShoot, TypeOK, faults
<1>8. CASE ShootTimerFires
  <2>1. 0 \in Instant
    BY DEF Instant
  <2> QED
    BY <1>8, <2>1 DEF ShootTimerFires, TypeOK, faults
<1>9. CASE UNCHANGED vars
  BY <1>9 DEF vars, TypeOK
<1> QED
  BY <1>1, <1>2, <1>3, <1>4, <1>5, <1>6, <1>7, <1>8, <1>9 DEF Next

-----------------------------------------------------------------------------
(* What a step does to one Secret, and to when it is looked at.            *)

NewOne(s) ==
    /\ secret[s].stage = "none" /\ \A u \in 1..(s - 1) : secret[u].stage # "none"
    /\ secret'[s].stage = "new" /\ secret'[s].created = now
    /\ s \in queue' /\ Live /\ UNCHANGED <<now, shoot, resync, failures>>

Moved(s) ==
    /\ secret'[s].created = secret[s].created /\ s \in queue
    /\ \/ secret[s].stage \in {"new", "live"} /\ secret'[s].stage = "live" /\ ~Orphaned(s)
       \/ /\ secret[s].stage \in {"new", "live"} /\ secret'[s].stage = "terminating"
          /\ Orphaned(s) \/ (now >= ExpiresAt(s) /\ (Renewed(s) \/ \E t \in SecretId : Creates(s, t)))
       \/ secret[s].stage = "terminating" /\ secret'[s].stage = "gone"

\* Whoever is reconciled after the renew time has a Shoot.
LEMMA AfterRenewTimeLive ==
    ASSUME TypeOK, GraceIsShort, NEW s \in SecretId, ReconcileAfterRenewTime(s)
    PROVE  Live
BY Types DEF ReconcileAfterRenewTime, Orphaned, RenewTime, GraceIsShort, RenewDelay, Live, TypeOK

LEMMA Moves ==
    ASSUME TypeOK, GraceIsShort, [Next]_vars
    PROVE  \A s \in SecretId : secret'[s] = secret[s] \/ Moved(s) \/ NewOne(s)
<1> USE Types
<1>1. ASSUME NEW r \in SecretId, ReconcileOrphan(r) \/ ReconcileBeforeRenewTime(r) \/ ReconcileTerminating(r)
      PROVE  \A s \in SecretId : secret'[s] = secret[s] \/ Moved(s)
  <2>1. \A s \in SecretId : s # r => secret'[s] = secret[s]
    BY <1>1, ReconcileStages, StageStep
  <2>2. Moved(r)
    <3>1. CASE ReconcileOrphan(r)
      BY <3>1, ReconcileStages, StageStep DEF Moved, ReconcileOrphan
    <3>2. CASE ReconcileBeforeRenewTime(r)
      BY <3>2, ReconcileStages, StageStep DEF Moved, ReconcileBeforeRenewTime
    <3>3. CASE ReconcileTerminating(r)
      BY <3>3, ReconcileStages, StageStep DEF Moved, ReconcileTerminating
    <3> QED
      BY <1>1, <3>1, <3>2, <3>3
  <2> QED
    BY <2>1, <2>2
<1>2. ASSUME NEW r \in SecretId, ReconcileAfterRenewTime(r)
      PROVE  \A s \in SecretId : secret'[s] = secret[s] \/ Moved(s) \/ NewOne(s)
  <2>1. Moved(r)
    <3>1. r \in queue /\ secret[r].stage \in {"new", "live"} /\ ~Orphaned(r)
      BY <1>2 DEF ReconcileAfterRenewTime
    <3>2. /\ secret'[r].created = secret[r].created
          /\ secret'[r].stage = IF now < ExpiresAt(r) THEN "live" ELSE "terminating"
          /\ Renewed(r) \/ \E t \in SecretId : Creates(r, t)
      BY <1>2, AfterRenewTimeStep
    <3>3. now \in Nat /\ ExpiresAt(r) \in Nat
      BY DEF ExpiresAt
    <3> QED
      BY <3>1, <3>2, <3>3 DEF Moved
  <2>2. ASSUME NEW t \in SecretId, Creates(r, t)
        PROVE  NewOne(t) /\ \A s \in SecretId \ {r, t} : secret'[s] = secret[s]
    BY <1>2, <2>2, AfterRenewTimeLive DEF Creates, NewOne, ReconcileAfterRenewTime, faults
  <2> QED
    BY <1>2, <2>1, <2>2, AfterRenewTimeStep
<1>3. ASSUME secret' = secret
      PROVE  \A s \in SecretId : secret'[s] = secret[s]
  BY <1>3
<1> QED
  BY <1>1, <1>2, <1>3
     DEF Next, CreateShoot, Tick, Restart, Reconcile, ReconcileGone, Fail, TimerFires, ReconcileShoot,
         ShootTimerFires, vars

\* A look at s that is over.
Looked(s) ==
    /\ UNCHANGED <<now, shoot, resync, failures>> /\ secret'[s].stage # "new"
    /\ \/ secret'[s].stage = "gone"
       \/ /\ now < RenewTime(s) /\ ~Orphaned(s)
          /\ timer'[s] # 0 /\ timer'[s] =< now + IF Live THEN RenewDelay ELSE Grace
       \/ /\ RenewTime(s) =< now /\ now < ExpiresAt(s) /\ Live
          /\ Renewed(s) \/ \E t \in SecretId : Creates(s, t)

Retried(s) == now' = now /\ failures' = failures + 1 /\ timer'[s] # 0 /\ timer'[s] =< now + 1

LEMMA Looks ==
    ASSUME TypeOK, GraceIsShort, [Next]_vars, NEW s \in Existing, s \in queue, s \notin queue'
    PROVE  Looked(s) \/ (Retried(s) /\ resync' = resync)
<1> USE Types
<1>1. s \in SecretId /\ secret[s].stage \in {"new", "live", "terminating"} /\ queue # {} /\ queue' # queue
  BY DEF Existing
<1>2. ASSUME NEW r \in SecretId, Reconcile(r)
      PROVE  r = s
  <2>1. queue \ {r} \subseteq queue'
    BY <1>2, AfterRenewTimeStep
       DEF Reconcile, ReconcileOrphan, ReconcileBeforeRenewTime, ReconcileTerminating, ReconcileGone, Take
  <2> QED
    BY <2>1
<1>3. ASSUME NEW r \in SecretId, Fail(r)
      PROVE  r = s /\ Retried(s) /\ resync' = resync
  <2>1. r = s
    BY <1>3 DEF Fail
  <2>2. PICK at : at = now + 1
    OBVIOUS
  <2>3. Earliest(timer[s], at) =< at /\ Earliest(timer[s], at) # 0
    BY <1>1, <2>2, RequeueAssumption, Requeued
  <2>4. timer'[s] = Earliest(timer[s], at)
    BY <1>1, <1>3, <2>1, <2>2 DEF Fail
  <2> QED
    BY <1>3, <2>1, <2>2, <2>3, <2>4 DEF Fail, Retried
<1>4. CASE ReconcileBeforeRenewTime(s)
  <2>1. PICK at : at = RequeueAt(s)
    OBVIOUS
  <2>2. at = now + IF Live THEN RenewDelay ELSE Grace
    BY <1>1, <2>1, RequeueTime
  <2>3. at \in Nat /\ at # 0 /\ at =< MaxTime + Validity + Grace + Day + 1
    BY <2>2, Delays, RequeueAssumption DEF GraceIsShort
  <2>4. Earliest(timer[s], at) =< at /\ Earliest(timer[s], at) # 0
    BY <1>1, <2>3, Requeued
  <2>5. timer'[s] = Earliest(timer[s], at) /\ now < RenewTime(s) /\ ~Orphaned(s)
    BY <1>1, <1>4, <2>1 DEF ReconcileBeforeRenewTime
  <2>6. secret'[s].stage # "new"
    BY <1>1, <1>4, ReconcileStages, StageStep
  <2> QED
    BY <1>4, <2>2, <2>4, <2>5, <2>6 DEF ReconcileBeforeRenewTime, Looked, faults
<1>5. CASE ReconcileAfterRenewTime(s)
  <2>1. /\ secret'[s].stage = IF now < ExpiresAt(s) THEN "live" ELSE "terminating"
        /\ secret'[s].stage = secret[s].stage
        /\ Renewed(s) \/ \E t \in SecretId : Creates(s, t)
    BY <1>1, <1>5, AfterRenewTimeStep
  <2>2. now < ExpiresAt(s) /\ RenewTime(s) =< now /\ Live
    BY <1>1, <1>5, <2>1, AfterRenewTimeLive DEF ReconcileAfterRenewTime, RenewTime, RenewDelay
  <2> QED
    BY <1>5, <2>1, <2>2 DEF ReconcileAfterRenewTime, Looked, faults
<1>6. CASE ReconcileTerminating(s)
  <2>1. secret'[s].stage = "gone"
    BY <1>1, <1>6, ReconcileStages, StageStep
  <2> QED
    BY <1>6, <2>1 DEF ReconcileTerminating, Looked, faults
<1>7. ~ReconcileOrphan(s) /\ ~ReconcileGone(s)
  BY <1>1 DEF ReconcileOrphan, ReconcileGone, Take
<1>8. ~Tick /\ ~Restart
  BY <1>1 DEF Tick, Settled, Restart
<1> QED
  BY <1>1, <1>2, <1>3, <1>4, <1>5, <1>6, <1>7, <1>8
     DEF Next, Reconcile, CreateShoot, TimerFires, ReconcileShoot, ShootTimerFires, vars

LookedNext(s, d) ==
    \/ s \in queue' /\ now' =< d
    \/ timer'[s] # 0 /\ timer'[s] =< d
DueNext(s, d) == LookedNext(s, d) \/ (resync' # 0 /\ resync' =< d)

LEMMA FailuresGrow ==
    ASSUME TypeOK, TypeOK', [Next]_vars
    PROVE  failures \in Nat /\ failures' \in Nat /\ failures' >= failures
<1>1. failures \in Nat /\ failures' \in Nat
  BY DEF TypeOK
<1>2. failures' = failures \/ failures' = failures + 1
  <2>1. ASSUME NEW r \in SecretId, Reconcile(r) \/ Fail(r) \/ TimerFires(r)
        PROVE  failures' = failures \/ failures' = failures + 1
    BY <2>1 DEF Reconcile, ReconcileOrphan, ReconcileBeforeRenewTime, ReconcileAfterRenewTime,
                ReconcileTerminating, ReconcileGone, Fail, TimerFires, faults
  <2> QED
    BY <2>1 DEF Next, CreateShoot, Tick, Restart, ReconcileShoot, ShootTimerFires, vars, faults
<1> QED
  BY <1>1, <1>2

\* Nobody else touches the requeue of s.
LEMMA Untouched ==
    ASSUME TypeOK, [Next]_vars, ~Tick, NEW s \in Existing, s \notin queue, s \notin queue'
    PROVE  timer'[s] = timer[s] /\ resync' = resync
<1>1. s \in SecretId
  BY DEF Existing
<1>2. timer \in [SecretId -> Instant]
  BY DEF TypeOK
<1>3. ASSUME NEW r \in SecretId, Reconcile(r) \/ Fail(r) \/ TimerFires(r)
      PROVE  timer'[s] = timer[s] /\ resync' = resync
  <2>1. r # s
    BY <1>3 DEF Reconcile, ReconcileOrphan, ReconcileBeforeRenewTime, ReconcileAfterRenewTime,
                ReconcileTerminating, ReconcileGone, Fail, TimerFires
  <2>2. CASE Reconcile(r)
    BY <1>1, <1>2, <2>1, <2>2
       DEF Reconcile, ReconcileOrphan, ReconcileBeforeRenewTime, ReconcileAfterRenewTime,
           ReconcileTerminating, ReconcileGone
  <2>3. CASE Fail(r) \/ TimerFires(r)
    BY <1>1, <1>2, <2>1, <2>3 DEF Fail, TimerFires
  <2> QED
    BY <1>3, <2>2, <2>3
<1>4. ~Restart
  BY DEF Restart
<1> QED
  BY <1>3, <1>4 DEF Next, CreateShoot, ReconcileShoot, ShootTimerFires, vars

\* A deadline stays in sight until there has been a look, which a failure does
\* not count as.
LEMMA Waits ==
    ASSUME TypeOK, TypeOK', Punctual, GraceIsShort, [Next]_vars, NEW s \in Existing, ~Looked(s), NEW d \in Nat
    PROVE  /\ LookedAt(s, d + failures) => LookedNext(s, d + failures')
           /\ Due(s, d + failures) => DueNext(s, d + failures')
<1> USE Types
<1>1. s \in SecretId /\ timer[s] \in Nat /\ failures \in Nat
  BY DEF Existing
<1>2. PICK e \in Nat : e = d + failures
  OBVIOUS
<1>3. /\ timer[s] # 0 => now =< timer[s]
      /\ resync # 0 => now < resync
  BY <1>1 DEF Punctual
<1>4. CASE s \in queue /\ s \notin queue'
  <2>1. Retried(s) /\ resync' = resync
    BY <1>4, Looks
  <2>2. now =< e => now + 1 =< d + failures' /\ timer'[s] =< d + failures'
    <3>1. \A t \in Nat : t =< now + 1 /\ now =< e => now + 1 =< d + (failures + 1) /\ t =< d + (failures + 1)
      BY <1>2
    <3>2. timer'[s] \in Nat
      BY <1>1 DEF TypeOK, Instant
    <3> QED
      BY <2>1, <3>1, <3>2 DEF Retried
  <2>3. Due(s, e) => now =< e
    BY <1>1, <1>3 DEF Due, LookedAt
  <2> QED
    BY <1>2, <2>1, <2>2, <2>3 DEF LookedNext, DueNext, Due, Retried
<1>5. CASE s \in queue' /\ now' = now
  <2>1. failures' >= failures /\ failures' \in Nat
    BY FailuresGrow
  <2>2. Due(s, e) => now =< e
    BY <1>1, <1>3 DEF Due, LookedAt
  <2>3. now =< e => now' =< d + failures'
    BY <1>2, <1>5, <2>1
  <2> QED
    BY <1>2, <1>5, <2>2, <2>3 DEF Due, LookedNext, DueNext
<1>6. CASE Tick
  <2>1. queue = {} /\ failures' = failures /\ now' = now + 1 /\ (timer[s] # 0 => now' =< timer[s])
    BY <1>1, <1>3, <1>6 DEF Tick, Settled, faults
  <2>2. CASE now' = resync
    <3>1. s \in queue' /\ now' = resync
      BY <1>6, <2>2 DEF Tick
    <3> QED
      BY <1>1, <1>2, <2>1, <3>1 DEF Due, LookedAt, LookedNext, DueNext
  <2>3. CASE now' # resync
    <3>1. timer' = timer /\ resync' = resync
      BY <1>6, <2>3 DEF Tick
    <3> QED
      BY <1>1, <1>2, <2>1, <3>1 DEF Due, LookedAt, LookedNext, DueNext
  <2> QED
    BY <2>2, <2>3
<1>7. CASE s \notin queue /\ s \notin queue' /\ ~Tick
  <2>1. timer'[s] = timer[s] /\ resync' = resync /\ failures' \in Nat /\ failures' >= failures
    BY <1>7, Untouched, FailuresGrow
  <2>2. \A t \in Nat : t =< d + failures => t =< d + failures'
    <3>1. \A t, f, g \in Nat : t =< d + f /\ g >= f => t =< d + g
      OBVIOUS
    <3> QED
      BY <1>1, <2>1, <3>1
  <2> QED
    BY <1>1, <1>7, <2>1, <2>2 DEF Due, LookedAt, LookedNext, DueNext
<1>8. Tick \/ now' = now
  BY DEF Next, CreateShoot, Restart, Reconcile, ReconcileOrphan, ReconcileBeforeRenewTime,
         ReconcileAfterRenewTime, ReconcileTerminating, ReconcileGone, Fail, TimerFires, ReconcileShoot,
         ShootTimerFires, vars
<1> QED
  BY <1>4, <1>5, <1>6, <1>7, <1>8

-----------------------------------------------------------------------------
(* The Secrets in the order of their creation.                             *)

LEMMA LiveStays ==
    ASSUME TypeOK, [Next]_vars
    PROVE  /\ Live => Live'
           /\ ~Live /\ Live' => CreateShoot
           /\ ~CreateShoot /\ ~ReconcileShoot => shoot' = shoot
<1>1. ASSUME NEW r \in SecretId, Reconcile(r) \/ Fail(r) \/ TimerFires(r)
      PROVE  shoot' = shoot
  BY <1>1 DEF Reconcile, ReconcileOrphan, ReconcileBeforeRenewTime, ReconcileAfterRenewTime,
              ReconcileTerminating, ReconcileGone, Fail, TimerFires
<1>2. CASE ReconcileShoot
  <2>1. shoot'.phase = shoot.phase
    BY <1>2 DEF ReconcileShoot, TypeOK
  <2> QED
    BY <2>1, <1>2 DEF Live, ReconcileShoot
<1>3. CASE CreateShoot
  BY <1>3 DEF CreateShoot, Live
<1>4. CASE Tick \/ Restart \/ ShootTimerFires \/ UNCHANGED vars
  BY <1>4 DEF Tick, Restart, ShootTimerFires, vars, Live
<1> QED
  BY <1>1, <1>2, <1>3, <1>4 DEF Next, Live

LEMMA ClockStep ==
    ASSUME TypeOK, [Next]_vars
    PROVE  (now' = now \/ (Tick /\ now' = now + 1)) /\ now \in Nat /\ now' \in Nat /\ now =< now'
<1>1. now' = now \/ (Tick /\ now' = now + 1)
  BY DEF Next, CreateShoot, Tick, Restart, Reconcile, ReconcileOrphan, ReconcileBeforeRenewTime,
         ReconcileAfterRenewTime, ReconcileTerminating, ReconcileGone, Fail, TimerFires, ReconcileShoot,
         ShootTimerFires, vars
<1> QED
  BY <1>1, Types

\* Who exists after a step, and who goes.
LEMMA ExistingStep ==
    ASSUME TypeOK, TypeOK', GraceIsShort, [Next]_vars, NEW s \in SecretId
    PROVE  /\ s \in Existing' => NewOne(s) \/ (s \in Existing /\ secret'[s].created = secret[s].created)
           /\ NewOne(s) => s \in Existing' /\ s \notin Existing
           /\ s \in Existing /\ s \notin Existing' => secret[s].stage = "terminating"
<1>1. secret'[s] = secret[s] \/ Moved(s) \/ NewOne(s)
  BY Moves
<1> QED
  BY <1>1 DEF Existing, Moved, NewOne

LEMMA CreatedIsNew ==
    ASSUME TypeOK, TypeOK', GraceIsShort, [Next]_vars, NEW s \in SecretId, NEW t \in SecretId, Creates(s, t)
    PROVE  NewOne(t)
BY Moves DEF Creates, Moved

\* A new Secret is younger than all there were, and it is the only new one.
LEMMA NewIsLast ==
    ASSUME TypeOK, TypeOK', Chronology, GraceIsShort, [Next]_vars, NEW t \in SecretId, NewOne(t)
    PROVE  /\ \A s \in Existing : s < t
           /\ IsNewest(t)'
<1>1. ASSUME NEW s \in Existing
      PROVE  s < t
  <2>1. s \in SecretId /\ secret[s].stage # "none" /\ s \in Nat /\ t \in Nat /\ t >= 1
    BY RequeueAssumption DEF Existing, SecretId
  <2>2. t =< s => secret[t].stage # "none"
    BY <2>1 DEF Chronology
  <2> QED
    BY <2>1, <2>2 DEF NewOne
<1>2. ASSUME NEW s \in Existing'
      PROVE  s =< t
  <2>1. s \in SecretId /\ s \in Nat /\ t \in Nat /\ s >= 1 /\ t >= 1
    BY RequeueAssumption DEF Existing, SecretId
  <2>2. NewOne(s) => s =< t
    <3>1. ~(s =< t) => t \in 1..(s - 1)
      BY <2>1
    <3>2. secret[t].stage = "none"
      BY DEF NewOne
    <3> QED
      BY <3>1, <3>2 DEF NewOne
  <2>3. s \in Existing \/ NewOne(s)
    BY <2>1, ExistingStep
  <2> QED
    BY <1>1, <2>1, <2>2, <2>3
<1>3. t \in Existing'
  BY ExistingStep
<1> QED
  BY <1>1, <1>2, <1>3 DEF IsNewest

LEMMA RenewedIsOlder ==
    ASSUME TypeOK, Chronology, GraceIsShort, NEW s \in Existing, Renewed(s)
    PROVE  ~IsNewest(s)
<1>1. PICK t \in Existing : secret[t].created >= RenewTime(s)
  <2>1. \A t \in Existing : secret[t].created \in Nat
    BY Types DEF Existing
  <2>2. RenewTime(s) \in Nat
    BY Types DEF Existing, RenewTime, RenewDelay
  <2> QED
    BY <2>1, <2>2 DEF Renewed
<1>2. /\ s \in SecretId /\ t \in SecretId /\ s \in Nat /\ t \in Nat /\ t >= 1
      /\ secret[s].created \in Nat /\ secret[t].created \in Nat /\ secret[s].stage # "none"
  BY Types, RequeueAssumption DEF Existing, SecretId
<1>3. secret[t].created > secret[s].created
  BY <1>1, <1>2, Types DEF RenewTime, RenewDelay, GraceIsShort
<1>4. ~(t =< s)
  BY <1>2, <1>3 DEF Chronology
<1> QED
  BY <1>4 DEF IsNewest

LEMMA NewestIsOne ==
    ASSUME NEW s \in Existing, NEW t \in Existing, IsNewest(s), IsNewest(t)
    PROVE  s = t
<1>1. s \in Int /\ t \in Int /\ s =< t /\ t =< s
  BY DEF IsNewest, Existing, SecretId
<1> QED
  BY <1>1

LEMMA NewestLives ==
    ASSUME Chronology, Live, NEW s \in Existing, IsNewest(s)
    PROVE  secret[s].stage # "terminating"
<1>1. PICK n \in SecretId : IsNewest(n) /\ secret[n].stage # "terminating"
  BY DEF Chronology
<1> QED
  BY <1>1, NewestIsOne DEF IsNewest

LEMMA NewestStays ==
    ASSUME TypeOK, TypeOK', Chronology, GraceIsShort, [Next]_vars, Live,
           NEW s \in Existing, IsNewest(s)'
    PROVE  IsNewest(s) /\ \A t \in SecretId : ~NewOne(t)
<1>1. ASSUME NEW t \in SecretId, NewOne(t)
      PROVE  FALSE
  <2>1. s < t /\ t \in Existing'
    BY <1>1, NewIsLast, ExistingStep
  <2>2. t =< s /\ s \in Int /\ t \in Int
    BY <2>1 DEF IsNewest, Existing, SecretId
  <2> QED
    BY <2>1, <2>2
<1>2. PICK n \in SecretId : IsNewest(n) /\ secret[n].stage # "terminating"
  BY DEF Chronology
<1>3. n \in Existing' /\ n \in Existing
  BY <1>2, ExistingStep DEF IsNewest
<1>4. n =< s /\ s =< n /\ n \in Int /\ s \in Int
  BY <1>2, <1>3 DEF IsNewest, Existing, SecretId
<1>5. n = s
  BY <1>4
<1> QED
  BY <1>1, <1>2, <1>5

\* The newest Secret of a Shoot does not begin to go without a younger one.
LEMMA NewestNext ==
    ASSUME TypeOK, TypeOK', Chronology, GraceIsShort, [Next]_vars, Live
    PROVE  \E s \in SecretId : IsNewest(s)' /\ secret'[s].stage # "terminating"
<1>1. CASE \E t \in SecretId : NewOne(t)
  BY <1>1, NewIsLast DEF NewOne
<1>2. CASE \A t \in SecretId : ~NewOne(t)
  <2>1. PICK n \in SecretId : IsNewest(n) /\ secret[n].stage # "terminating"
    BY DEF Chronology
  <2>2. n \in Existing /\ n \in Existing'
    BY <2>1, ExistingStep DEF IsNewest
  <2>3. ~Renewed(n) /\ ~Orphaned(n) /\ \A t \in SecretId : ~Creates(n, t)
    BY <1>2, <2>1, <2>2, RenewedIsOlder, CreatedIsNew DEF Orphaned, Live
  <2>4. secret'[n].stage # "terminating"
    BY <1>2, <2>1, <2>3, Moves DEF Moved
  <2>5. \A s \in Existing' : s \in Existing
    <3>1. Existing' \subseteq SecretId
      BY DEF Existing
    <3> QED
      BY <1>2, <3>1, ExistingStep
  <2> QED
    BY <2>1, <2>2, <2>4, <2>5 DEF IsNewest
<1> QED
  BY <1>1, <1>2

LEMMA ChronologyStep ==
    ASSUME TypeOK, TypeOK', Chronology, GraceIsShort, [Next]_vars
    PROVE  Chronology'
<1> DEFINE There(s) == secret[s].stage # "none"
<1>1. now \in Nat /\ now' \in Nat /\ now =< now'
  BY ClockStep
<1>2. \A s \in SecretId : /\ secret[s].created \in Nat /\ secret'[s].created \in Nat
                          /\ s \in Nat /\ s >= 1 /\ 1..s \subseteq SecretId
  <2>1. \A s \in SecretId : secret[s].created \in Nat /\ secret'[s].created \in Nat
    <3>1. secret' \in [SecretId -> Record] /\ \A c \in Record : c.created \in Nat
      BY Types DEF TypeOK, Record
    <3> QED
      BY <3>1, Types
  <2>2. \A s \in SecretId : s \in Nat /\ s >= 1 /\ 1..s \subseteq SecretId
    BY RequeueAssumption DEF SecretId
  <2> QED
    BY <2>1, <2>2
<1>3. ASSUME NEW s \in SecretId, There(s)
      PROVE  secret'[s].stage # "none" /\ secret'[s].created = secret[s].created
  BY <1>3, Moves DEF Moved, NewOne
<1>4. ASSUME NEW s \in SecretId, secret'[s].stage # "none", ~There(s)
      PROVE  NewOne(s)
  BY <1>4, Moves DEF Moved
<1>5. 1 \in SecretId
  BY RequeueAssumption DEF SecretId
<1>6. secret'[1].stage # "none" /\ secret'[1].created = 0
  BY <1>3, <1>5 DEF Chronology
<1>7. ASSUME NEW s \in SecretId, secret'[s].stage # "none"
      PROVE  /\ secret'[s].created =< now'
             /\ \A t \in 1..s : secret'[t].stage # "none" /\ secret'[t].created =< secret'[s].created
  <2>1. CASE There(s)
    <3>1. secret'[s].created = secret[s].created /\ secret[s].created =< now
      BY <1>3, <2>1 DEF Chronology
    <3>2. \A t \in 1..s : t \in SecretId /\ There(t) /\ secret[t].created =< secret[s].created
      BY <1>2, <2>1 DEF Chronology
    <3>3. \A t \in 1..s : secret'[t].stage # "none" /\ secret'[t].created = secret[t].created
      BY <1>3, <3>2
    <3> QED
      BY <1>1, <1>2, <3>1, <3>2, <3>3
  <2>2. CASE ~There(s)
    <3>1. NewOne(s)
      BY <1>4, <1>7, <2>2
    <3>2. secret'[s].created = now /\ \A t \in 1..(s - 1) : There(t)
      BY <3>1 DEF NewOne
    <3>3. ASSUME NEW t \in 1..s
          PROVE  secret'[t].stage # "none" /\ secret'[t].created =< secret'[s].created
      <4>1. CASE t = s
        BY <1>2, <1>7, <4>1
      <4>2. CASE t # s
        <5>1. t \in SecretId /\ There(t)
          BY <1>2, <3>2, <4>2
        <5>2. secret[t].created =< now
          BY <5>1 DEF Chronology
        <5> QED
          BY <1>3, <3>2, <5>1, <5>2
      <4> QED
        BY <4>1, <4>2
    <3> QED
      BY <1>1, <3>2, <3>3
  <2> QED
    BY <2>1, <2>2
<1>8. Live' \/ \A s \in SecretId : s # 1 => secret'[s].stage = "none"
  BY <1>4, LiveStays DEF Chronology, NewOne
<1>9. Live' => \E s \in SecretId : IsNewest(s)' /\ secret'[s].stage # "terminating"
  <2>1. CASE Live
    BY <2>1, NewestNext
  <2>2. CASE ~Live /\ Live'
    <3>1. CreateShoot
      BY <2>2, LiveStays
    <3>2. secret' = secret /\ secret[1].stage \in {"new", "live"}
      BY <3>1 DEF CreateShoot
    <3>3. Existing' = {1}
      BY <1>5, <2>2, <3>2 DEF Existing, Chronology
    <3> QED
      BY <1>5, <3>2, <3>3 DEF IsNewest
  <2> QED
    BY <2>1, <2>2
<1> QED
  BY <1>6, <1>7, <1>8, <1>9 DEF Chronology

-----------------------------------------------------------------------------
(* No requeue is overdue. *)

OnTime(time, at) == at # 0 => time =< at

LEMMA Rescheduled ==
    ASSUME TypeOK, NEW old \in Instant, NEW at \in Nat, OnTime(now, old), now =< at
    PROVE  OnTime(now, Earliest(old, at))
BY Types DEF Earliest, OnTime

LEMMA TimersStep ==
    ASSUME TypeOK, TypeOK', Punctual, GraceIsShort, [Next]_vars, NEW s \in SecretId
    PROVE  OnTime(now', timer'[s])
<1>1. now \in Nat /\ timer[s] \in Nat /\ timer[s] \in Instant /\ timer \in [SecretId -> Instant]
  BY Types
<1>2. OnTime(now, timer[s])
  BY DEF Punctual, OnTime
<1>3. ASSUME NEW r \in SecretId, NEW at \in Nat, now =< at, now' = now,
             timer' = [timer EXCEPT ![r] = Earliest(timer[r], at)]
      PROVE  OnTime(now', timer'[s])
  <2>1. CASE r = s
    <3>1. timer'[s] = Earliest(timer[s], at)
      BY <1>1, <1>3, <2>1
    <3> QED
      BY <1>1, <1>2, <1>3, <3>1, Rescheduled
  <2>2. CASE r # s
    BY <1>1, <1>2, <1>3, <2>2
  <2> QED
    BY <2>1, <2>2
<1>4. ASSUME NEW r \in SecretId, Reconcile(r)
      PROVE  OnTime(now', timer'[s])
  <2>1. CASE ReconcileBeforeRenewTime(r)
    <3>1. PICK at : at = RequeueAt(r)
      OBVIOUS
    <3>2. at \in Nat /\ now =< at
      BY <1>1, <3>1, RequeueTime, Types
    <3>3. now' = now /\ timer' = [timer EXCEPT ![r] = Earliest(timer[r], at)]
      BY <2>1, <3>1 DEF ReconcileBeforeRenewTime
    <3> QED
      BY <1>3, <3>2, <3>3
  <2>2. CASE ~ReconcileBeforeRenewTime(r)
    BY <1>2, <1>4, <2>2
       DEF Reconcile, ReconcileOrphan, ReconcileAfterRenewTime, ReconcileTerminating, ReconcileGone
  <2> QED
    BY <2>1, <2>2
<1>5. ASSUME NEW r \in SecretId, Fail(r)
      PROVE  OnTime(now', timer'[s])
  <2>1. PICK at : at = now + 1
    OBVIOUS
  <2>2. at \in Nat /\ now =< at
    BY <1>1, <2>1
  <2>3. now' = now /\ timer' = [timer EXCEPT ![r] = Earliest(timer[r], at)]
    BY <1>5, <2>1 DEF Fail
  <2> QED
    BY <1>3, <2>2, <2>3
<1>6. ASSUME NEW r \in SecretId, TimerFires(r)
      PROVE  OnTime(now', timer'[s])
  BY <1>1, <1>2, <1>6 DEF TimerFires, OnTime
<1>7. CASE Tick
  <2>1. now' = now + 1 /\ (timer'[s] = timer[s] \/ timer'[s] = 0)
    BY <1>7 DEF Tick, TimersAfterEvent
  <2>2. timer[s] # 0 => timer[s] # now
    BY <1>1, <1>7 DEF Tick, Settled
  <2> QED
    BY <1>1, <1>2, <2>1, <2>2 DEF OnTime
<1>8. CASE Restart
  BY <1>8 DEF Restart, OnTime
<1>9. CASE UNCHANGED <<now, timer>>
  BY <1>2, <1>9
<1> QED
  BY <1>4, <1>5, <1>6, <1>7, <1>8, <1>9 DEF Next, CreateShoot, ReconcileShoot, ShootTimerFires, vars

LEMMA ResyncStep ==
    ASSUME TypeOK, Punctual, [Next]_vars
    PROVE  resync' # 0 => resync # 0 /\ now' < resync' /\ resync' =< now' + Resync
<1>1. /\ now \in Nat /\ resync \in Nat /\ Resync \in Nat /\ Resync >= 1
      /\ resync # 0 => now < resync /\ resync =< now + Resync
  BY Types, RequeueAssumption DEF Punctual
<1>2. CASE Tick
  BY <1>1, <1>2 DEF Tick
<1>3. CASE Restart
  BY <1>1, <1>3 DEF Restart
<1>4. ASSUME NEW r \in SecretId, Reconcile(r) \/ Fail(r) \/ TimerFires(r)
      PROVE  UNCHANGED <<now, resync>>
  BY <1>4 DEF Reconcile, ReconcileOrphan, ReconcileBeforeRenewTime, ReconcileAfterRenewTime,
              ReconcileTerminating, ReconcileGone, Fail, TimerFires
<1>5. CASE UNCHANGED <<now, resync>>
  BY <1>1, <1>5
<1> QED
  BY <1>2, <1>3, <1>4, <1>5 DEF Next, CreateShoot, ReconcileShoot, ShootTimerFires, vars

\* The Shoot's requeue only comes in a maintenance window.
LEMMA ShootTimerStep ==
    ASSUME TypeOK, Punctual, [Next]_vars
    PROVE  OnTime(now', shootTimer') /\ shootTimer' % Day = 0
<1>1. /\ now \in Nat /\ shootTimer \in Nat /\ shootTimer \in Instant /\ 0 % Day = 0
      /\ OnTime(now, shootTimer) /\ shootTimer % Day = 0
  BY Types, Windows DEF Punctual, OnTime, TypeOK
<1>2. CASE Tick
  <2>1. shootTimer # 0 => shootTimer # now
    BY <1>1, <1>2 DEF Tick, Settled
  <2> QED
    BY <1>1, <1>2, <2>1 DEF Tick, OnTime
<1>3. CASE Restart \/ ShootTimerFires
  BY <1>1, <1>3 DEF Restart, ShootTimerFires, OnTime
<1>4. CASE ReconcileShoot
  <2>1. PICK at : at = NextWindow
    OBVIOUS
  <2>2. at \in Nat /\ now =< at /\ at % Day = 0
    BY <1>1, <2>1, NextWindowTime
  <2>3. OnTime(now, Earliest(shootTimer, at)) /\ Earliest(shootTimer, at) \in {shootTimer, at}
    BY <1>1, <2>2, Rescheduled DEF Earliest
  <2>4. shootTimer' = shootTimer \/ shootTimer' = Earliest(shootTimer, at)
    BY <1>4, <2>1 DEF ReconcileShoot
  <2> QED
    BY <1>1, <1>4, <2>2, <2>3, <2>4 DEF ReconcileShoot
<1>5. ASSUME NEW r \in SecretId, Reconcile(r) \/ Fail(r) \/ TimerFires(r)
      PROVE  UNCHANGED <<now, shootTimer>>
  BY <1>5 DEF Reconcile, ReconcileOrphan, ReconcileBeforeRenewTime, ReconcileAfterRenewTime,
              ReconcileTerminating, ReconcileGone, Fail, TimerFires
<1>6. CASE UNCHANGED <<now, shootTimer>>
  BY <1>1, <1>6
<1> QED
  BY <1>2, <1>3, <1>4, <1>5, <1>6 DEF Next, CreateShoot, vars

LEMMA PunctualStep ==
    ASSUME TypeOK, TypeOK', Punctual, GraceIsShort, [Next]_vars
    PROVE  Punctual'
BY TimersStep, ResyncStep, ShootTimerStep DEF Punctual, OnTime

-----------------------------------------------------------------------------
(* The deadlines. *)

\* After a look the requeue, the resync or a successor is there.
LEMMA NewestStep ==
    ASSUME TypeOK, TypeOK', Chronology, Punctual, NewestInTime, OrphanInTime, GraceIsShort, [Next]_vars
    PROVE  NewestInTime'
<1> SUFFICES ASSUME Live', NEW s \in SecretId, s \in Existing', IsNewest(s)'
             PROVE  /\ LookedAt(s, ExpiresAt(s) - 1 + failures)'
                    /\ resync' # 0 => Due(s, RenewTime(s) + Resync - 1 + failures)'
  <2>1. Existing' \subseteq SecretId
    BY DEF Existing
  <2> QED
    BY <2>1 DEF NewestInTime
<1>0. PICK c \in Nat : c = secret'[s].created
  BY Types DEF TypeOK, Record
<1>1. /\ now \in Nat /\ now' \in Nat /\ failures \in Nat /\ failures' \in Nat /\ RenewDelay \in Nat
      /\ 2 * RenewDelay =< Validity /\ Grace < RenewDelay /\ Grace \in Nat /\ Resync \in Nat /\ Resync >= 1
      /\ Validity \in Nat /\ resync \in Nat
  BY Types, FailuresGrow, Delays, ClockStep, RequeueAssumption DEF GraceIsShort
<1> SUFFICES /\ LookedNext(s, c + Validity - 1 + failures')
             /\ resync' # 0 => DueNext(s, c + RenewDelay + Resync - 1 + failures')
  <2>1. (ExpiresAt(s) - 1 + failures)' = c + Validity - 1 + failures'
    BY <1>0, <1>1 DEF ExpiresAt
  <2>2. (RenewTime(s) + Resync - 1 + failures)' = c + RenewDelay + Resync - 1 + failures'
    BY <1>0, <1>1 DEF RenewTime, RenewDelay
  <2>3. LookedAt(s, ExpiresAt(s) - 1 + failures)'
    BY <2>1 DEF LookedAt, LookedNext, ExpiresAt
  <2>4. resync' # 0 => Due(s, RenewTime(s) + Resync - 1 + failures)'
    BY <2>2 DEF Due, LookedAt, LookedNext, DueNext, RenewTime
  <2> QED
    BY <2>3, <2>4
<1>2. PICK d, e \in Nat : d = c + Validity - 1 /\ e = c + RenewDelay + Resync - 1
  BY <1>1
<1>3. resync' # 0 => resync # 0
  BY ResyncStep
<1>4. CASE NewOne(s)
  <2>1. s \in queue' /\ now' = now /\ c = now
    BY <1>0, <1>4 DEF NewOne
  <2>2. now' =< d + failures' /\ now' =< e + failures'
    <3>1. Validity >= 1
      BY RequeueAssumption
    <3>2. \A x \in Nat : x >= c => c =< x + failures'
      BY <1>0, <1>1
    <3>3. d >= c /\ e >= c
      BY <1>0, <1>1, <1>2, <3>1
    <3> QED
      BY <2>1, <3>2, <3>3
  <2> QED
    BY <1>0, <1>2, <2>1, <2>2 DEF LookedNext, DueNext
<1>5. CASE s \in Existing /\ c = secret[s].created /\ Live
  <2>1. IsNewest(s) /\ \A t \in SecretId : ~NewOne(t)
    BY <1>5, NewestStays
  <2>2. LookedAt(s, d + failures) /\ (resync # 0 => Due(s, e + failures))
    <3>1. ExpiresAt(s) = c + Validity /\ RenewTime(s) = c + RenewDelay
      BY <1>5 DEF ExpiresAt, RenewTime, RenewDelay
    <3>2. d = ExpiresAt(s) - 1 /\ e = RenewTime(s) + Resync - 1
      <4>1. d = c + Validity - 1 /\ e = c + RenewDelay + Resync - 1
        BY <1>2
      <4> QED
        BY <1>0, <1>1, <3>1, <4>1
    <3> QED
      BY <1>5, <2>1, <3>2 DEF NewestInTime
  <2>3. CASE ~Looked(s)
    <3>1. LookedNext(s, d + failures') /\ (resync # 0 => DueNext(s, e + failures'))
      BY <1>5, <2>2, <2>3, Waits
    <3> QED
      BY <1>0, <1>2, <1>3, <3>1
  <2>4. CASE Looked(s)
    <3>1. ~Renewed(s) /\ \A t \in SecretId : ~Creates(s, t)
      BY <1>5, <2>1, RenewedIsOlder, CreatedIsNew
    <3>2. secret'[s].stage # "gone"
      BY DEF Existing
    <3>3. /\ now < c + RenewDelay /\ timer'[s] # 0 /\ timer'[s] =< now + RenewDelay
          /\ now' = now /\ resync' = resync
      BY <1>5, <2>4, <3>1, <3>2 DEF Looked, RenewTime, RenewDelay
    <3>4. timer'[s] \in Nat
      BY DEF TypeOK, Instant
    <3>5. timer'[s] =< d + failures'
      BY <1>0, <1>1, <1>2, <3>3, <3>4
    <3>6. resync' # 0 => resync' =< e + failures'
      BY <1>0, <1>1, <1>2, <3>3, ResyncStep
    <3> QED
      BY <1>0, <1>2, <3>3, <3>5, <3>6 DEF LookedNext, DueNext
  <2> QED
    BY <2>3, <2>4
<1>6. CASE s \in Existing /\ c = secret[s].created /\ ~Live
  <2>1. CreateShoot
    BY <1>6, LiveStays
  <2>2. /\ now = 0 /\ UNCHANGED <<now, queue, timer, resync, failures>>
    BY <2>1 DEF CreateShoot, faults
  <2>3. LookedAt(s, 2 * Grace + failures)
    BY <1>6 DEF OrphanInTime
  <2>4. 2 * Grace =< d /\ timer[s] \in Nat
    BY <1>0, <1>1, <1>2, Types
  <2>5. LookedNext(s, d + failures')
    BY <1>1, <2>2, <2>3, <2>4 DEF LookedAt, LookedNext
  <2>6. resync' # 0 => resync' =< e + failures'
    BY <1>0, <1>1, <1>2, <2>2, ResyncStep
  <2> QED
    BY <1>0, <1>2, <2>5, <2>6 DEF DueNext
<1> QED
  BY <1>0, <1>4, <1>5, <1>6, ExistingStep

LEMMA OrphanStep ==
    ASSUME TypeOK, TypeOK', Chronology, Punctual, OrphanInTime, GraceIsShort, [Next]_vars
    PROVE  OrphanInTime'
<1> SUFFICES ASSUME ~Live', NEW s \in SecretId, s \in Existing'
             PROVE  /\ LookedNext(s, 2 * Grace + failures')
                    /\ resync' # 0 => DueNext(s, Grace + Resync + failures')
  BY DEF OrphanInTime, Existing, LookedAt, Due, LookedNext, DueNext
<1>1. /\ now \in Nat /\ now' \in Nat /\ failures \in Nat /\ failures' \in Nat /\ Grace \in Nat
      /\ Resync \in Nat /\ resync \in Nat /\ resync' \in Nat
      /\ 2 * Grace \in Nat /\ Grace + Resync \in Nat
  BY Types, FailuresGrow, ClockStep DEF TypeOK
<1>2. ~Live /\ (resync' # 0 => resync # 0)
  BY LiveStays, ResyncStep
<1>3. s \in Existing /\ secret[s].created = 0
  <2>1. s \in Existing
    BY <1>2, ExistingStep DEF NewOne
  <2> QED
    BY <1>2, <2>1 DEF Chronology, Existing
<1>4. LookedAt(s, 2 * Grace + failures) /\ (resync # 0 => Due(s, Grace + Resync + failures))
  BY <1>2, <1>3 DEF OrphanInTime
<1>5. CASE ~Looked(s)
  BY <1>1, <1>2, <1>3, <1>4, <1>5, Waits
<1>6. CASE Looked(s)
  <2>1. secret'[s].stage # "gone"
    BY DEF Existing
  <2>2. /\ ~Orphaned(s) /\ timer'[s] # 0 /\ timer'[s] =< now + Grace
        /\ now' = now /\ resync' = resync
    BY <1>2, <1>6, <2>1 DEF Looked
  <2>3. now =< Grace /\ timer'[s] \in Nat
    <3>1. shoot.phase = "none"
      BY <1>2 DEF Live, TypeOK
    <3>2. now =< 0 + Grace
      BY <1>1, <1>3, <2>2, <3>1 DEF Orphaned
    <3>3. timer'[s] \in Nat
      BY Types DEF TypeOK, Instant
    <3> QED
      BY <1>1, <3>2, <3>3
  <2>4. timer'[s] =< 2 * Grace + failures'
    BY <1>1, <2>2, <2>3
  <2>5. resync' # 0 => resync' =< Grace + Resync + failures'
    <3>1. resync' # 0 => resync' =< now + Resync
      BY <2>2, ResyncStep
    <3>2. resync' # 0 => resync' =< Grace + Resync
      BY <1>1, <2>3, <3>1
    <3>3. \A x, y, f \in Nat : x =< y => x =< y + f
      OBVIOUS
    <3> QED
      BY <1>1, <3>2, <3>3
  <2> QED
    BY <2>2, <2>4, <2>5 DEF LookedNext, DueNext
<1> QED
  BY <1>5, <1>6

LEMMA ExpiredStep ==
    ASSUME TypeOK, TypeOK', Punctual, ExpiredInTime, GraceIsShort, [Next]_vars
    PROVE  ExpiredInTime'
<1> SUFFICES ASSUME resync' # 0, NEW s \in SecretId, s \in Existing', NEW c \in Nat, c = secret'[s].created
             PROVE  DueNext(s, c + Validity + Resync - 1 + failures')
  <2>1. \A s \in SecretId : secret'[s].created \in Nat
    BY Types DEF TypeOK, Record
  <2> QED
    BY <2>1 DEF ExpiredInTime, Existing, LookedAt, Due, LookedNext, DueNext, ExpiresAt
<1>1. /\ now \in Nat /\ now' \in Nat /\ failures \in Nat /\ failures' \in Nat /\ Validity \in Nat
      /\ Validity >= 1 /\ Resync \in Nat /\ Resync >= 1 /\ resync \in Nat /\ RenewDelay \in Nat
      /\ 2 * RenewDelay =< Validity
  BY Types, FailuresGrow, ClockStep, RequeueAssumption, Delays
<1>2. PICK d \in Nat : d = c + Validity + Resync - 1
  BY <1>1
<1>3. resync # 0
  BY ResyncStep
<1>4. CASE NewOne(s)
  <2>1. s \in queue' /\ now' = now /\ c = now
    BY <1>4 DEF NewOne
  <2> QED
    BY <1>1, <2>1 DEF LookedNext, DueNext
<1>5. CASE s \in Existing /\ c = secret[s].created
  <2>1. Due(s, d + failures)
    BY <1>2, <1>3, <1>5 DEF ExpiredInTime, ExpiresAt
  <2>2. CASE ~Looked(s)
    BY <1>2, <1>5, <2>1, <2>2, Waits
  <2>3. CASE Looked(s)
    <3>1. secret'[s].stage # "gone"
      BY DEF Existing
    <3>2. (now < c + RenewDelay \/ now < c + Validity) /\ now' = now /\ resync' = resync
      BY <1>5, <2>3, <3>1 DEF Looked, RenewTime, RenewDelay, ExpiresAt
    <3>3. resync' =< d + failures'
      BY <1>1, <1>2, <1>3, <3>2, ResyncStep
    <3> QED
      BY <1>2, <3>3 DEF DueNext
  <2> QED
    BY <2>2, <2>3
<1> QED
  BY <1>4, <1>5, ExistingStep

-----------------------------------------------------------------------------
(* The Shoot changes over. *)

LEMMA WindowedTime ==
    ASSUME TypeOK, Punctual
    PROVE  /\ Windowed \in Nat /\ now =< Windowed /\ Windowed =< now + Day
           /\ shootTimer # 0 => Windowed =< shootTimer
<1>1. /\ now \in Nat /\ shootTimer \in Nat /\ Day \in Nat /\ NextWindow \in Nat
      /\ now < NextWindow /\ NextWindow =< now + Day
      /\ shootTimer % Day = 0 /\ (shootTimer # 0 => now =< shootTimer)
  BY Types, NextWindowTime DEF Punctual
<1>2. ~InWindow /\ shootTimer # 0 => NextWindow =< shootTimer
  BY <1>1, NextWindowTime
<1> QED
  BY <1>1, <1>2 DEF Windowed

\* The Shoot is woken by time e, now or in its next window.
Wakes(e) ==
    \/ shootQueue /\ Windowed =< e
    \/ shootTimer # 0 /\ shootTimer =< e
WakesNext(e) ==
    \/ shootQueue' /\ now' = now /\ Windowed =< e
    \/ shootTimer' # 0 /\ shootTimer' =< e

\* Until it has the newest binding.
LEMMA ShootWaits ==
    ASSUME TypeOK, Chronology, Punctual, Live, [Next]_vars, NEW e \in Nat, Wakes(e),
           NEW b \in SecretId, b = shoot.binding, shoot' = shoot, ~IsNewest(b)'
    PROVE  WakesNext(e)
<1>1. /\ shootTimer \in Nat /\ now \in Nat /\ NextWindow \in Nat /\ now < NextWindow /\ shootTimer \in Instant
      /\ NextWindow =< MaxTime + Validity + Grace + Day + 1
  BY Types, NextWindowTime DEF TypeOK
<1>2. Windowed =< e \/ (shootTimer # 0 /\ shootTimer =< e)
  BY DEF Wakes
<1>3. shootTimer # 0 => Windowed =< shootTimer /\ Windowed \in Nat
  BY WindowedTime
<1>4. Windowed =< e
  BY <1>1, <1>2, <1>3
<1>5. CASE ReconcileShoot
  <2>1. secret' = secret /\ Existing' = Existing
    BY <1>5 DEF ReconcileShoot, Existing
  <2>2. ~IsNewest(b)
    BY <2>1 DEF IsNewest
  <2>3. PICK n \in SecretId : IsNewest(n)
    BY DEF Chronology
  <2>4. \A s \in Existing : shoot' = [shoot EXCEPT !.binding = s] => s = shoot.binding
    BY DEF TypeOK
  <2>5. ~InWindow /\ shootTimer' = Earliest(shootTimer, NextWindow)
    BY <1>5, <2>2, <2>3, <2>4 DEF ReconcileShoot, IsNewest
  <2>6. PICK at : at = NextWindow
    OBVIOUS
  <2>7. at \in Nat /\ at # 0 /\ at =< MaxTime + Validity + Grace + Day + 1
    BY <1>1, <2>6
  <2>8. Earliest(shootTimer, at) # 0 /\ Earliest(shootTimer, at) =< at
    BY <1>1, <2>7, Requeued
  <2>9. Earliest(shootTimer, at) \in Nat
    BY <1>1, <2>7 DEF Earliest
  <2>10. at =< e
    BY <1>4, <2>5, <2>6 DEF Windowed
  <2> QED
    BY <2>5, <2>6, <2>7, <2>8, <2>9, <2>10 DEF WakesNext
<1>6. CASE Restart \/ ShootTimerFires \/ CreateShoot
  BY <1>4, <1>6 DEF Restart, ShootTimerFires, CreateShoot, WakesNext, Live
<1>7. CASE Tick
  BY <1>7 DEF Tick, Settled, Wakes, WakesNext
<1>8. CASE UNCHANGED <<now, shootTimer>> /\ (shootQueue => shootQueue')
  BY <1>8 DEF Wakes, WakesNext
<1>9. ASSUME NEW r \in SecretId, Reconcile(r) \/ Fail(r) \/ TimerFires(r)
      PROVE  UNCHANGED <<now, shootTimer>> /\ (shootQueue => shootQueue')
  <2>1. UNCHANGED <<now, shootTimer>>
    BY <1>9 DEF Reconcile, ReconcileOrphan, ReconcileBeforeRenewTime, ReconcileAfterRenewTime,
                ReconcileTerminating, ReconcileGone, Fail, TimerFires
  <2>2. CASE ReconcileBeforeRenewTime(r)
    <3>1. shootQueue' = (shootQueue \/ (r # 1 /\ secret[r].stage = "new" /\ shoot.phase = "live"))
      BY <2>2 DEF ReconcileBeforeRenewTime
    <3> QED
      BY <2>1, <3>1
  <2>3. CASE ~ReconcileBeforeRenewTime(r)
    <3>1. shootQueue' = shootQueue
      BY <1>9, <2>3 DEF Reconcile, ReconcileOrphan, ReconcileAfterRenewTime,
                        ReconcileTerminating, ReconcileGone, Fail, TimerFires
    <3> QED
      BY <2>1, <3>1
  <2> QED
    BY <2>1, <2>2, <2>3
<1> QED
  BY <1>5, <1>6, <1>7, <1>8, <1>9 DEF Next, vars

\* A new Secret that gets its finalizer wakes the Shoot.
LEMMA Finalized ==
    ASSUME TypeOK, TypeOK', Chronology, GraceIsShort, Live, [Next]_vars, NEW n \in SecretId, n # 1, IsNewest(n),
           secret[n].stage = "new", secret'[n].stage = "live", \A t \in SecretId : ~NewOne(t)
    PROVE  shootQueue' /\ now' = now
<1>1. ASSUME NEW r \in SecretId, r # n, Reconcile(r)
      PROVE  FALSE
  <2>1. \A u \in SecretId \ {r} : secret'[u] = secret[u]
    <3>1. CASE ReconcileAfterRenewTime(r)
      BY <3>1, AfterRenewTimeStep, CreatedIsNew
    <3>2. CASE ~ReconcileAfterRenewTime(r)
      BY <1>1, <3>2, ReconcileStages, StageStep DEF Reconcile, ReconcileGone
    <3> QED
      BY <3>1, <3>2
  <2> QED
    BY <1>1, <2>1
<1>2. CASE Reconcile(n)
  <2>1. ~ReconcileOrphan(n) /\ ~ReconcileTerminating(n) /\ ~ReconcileGone(n)
    BY DEF ReconcileOrphan, Orphaned, Live, ReconcileTerminating, ReconcileGone
  <2>2. ~ReconcileAfterRenewTime(n)
    BY AfterRenewTimeStep, CreatedIsNew, RenewedIsOlder DEF IsNewest
  <2>3. ReconcileBeforeRenewTime(n)
    BY <1>2, <2>1, <2>2 DEF Reconcile
  <2> QED
    BY <2>3 DEF ReconcileBeforeRenewTime, Live
<1>3. secret' # secret
  OBVIOUS
<1> QED
  BY <1>1, <1>2, <1>3 DEF Next, CreateShoot, Tick, Restart, Fail, TimerFires, ReconcileShoot, ShootTimerFires, vars

YoungestNext(b) == b \in Existing' /\ \A t \in Existing' : t =< b
ChangesOverNext(b, due) ==
    \/ YoungestNext(b)
    \/ \E s \in Existing' : YoungestNext(s) /\ secret'[s].stage = "new" /\ LookedNext(s, due)
    \/ shootQueue' /\ Windowed' =< due + Day
    \/ shootTimer' # 0 /\ shootTimer' =< due + Day

IsEnough == 2 * (Resync + MaxFailures + Day) =< Validity

LEMMA ChangeoverNext ==
    ASSUME NEW b, b = shoot'.binding, b \in Existing', secret'[b].stage # "terminating", TypeOK',
           ChangesOverNext(b, secret'[b].created + RenewDelay + Resync - 1 + failures')
    PROVE  Changeover'
BY DEF Changeover, ChangesOver, ChangesOverNext, YoungestNext, LookedNext, LookedAt, IsNewest, RenewTime, RenewDelay

\* In time: neither the Secret the Shoot works with nor its window is over.
LEMMA ReferencedLives ==
    ASSUME TypeOK, Punctual, NewestInTime, Changeover, Live, resync # 0, IsEnough, NEW b, b = shoot.binding
    PROVE  /\ b \in Existing /\ b \in SecretId /\ secret[b].stage \in {"new", "live"}
           /\ now < ExpiresAt(b)
           /\ \E due \in Nat :
                 /\ due = RenewTime(b) + Resync - 1
                 /\ IsNewest(b) => now =< due + failures
                 /\ \/ IsNewest(b)
                    \/ \E s \in Existing : /\ IsNewest(s) /\ secret[s].stage = "new"
                                           /\ LookedAt(s, due + failures) /\ now =< due + failures
                    \/ Wakes(due + failures + Day)
<1>1. /\ b \in Existing /\ b \in SecretId /\ secret[b].stage \in {"new", "live"}
      /\ ChangesOver(b)
  BY DEF Changeover, IsEnough, Existing
<1>2. /\ now \in Nat /\ secret[b].created \in Nat /\ failures \in Nat /\ failures =< MaxFailures
      /\ Resync \in Nat /\ Day \in Nat /\ MaxFailures \in Nat /\ Resync >= 1 /\ resync \in Nat
      /\ RenewDelay \in Nat /\ 2 * RenewDelay =< Validity /\ Validity \in Nat
      /\ \A s \in SecretId : timer[s] \in Nat
      /\ shootTimer \in Nat
  BY <1>1, Types, Delays, RequeueAssumption DEF TypeOK
<1>3. Resync + MaxFailures + Day =< RenewDelay
  <2>1. PICK x \in Nat : x = Resync + MaxFailures + Day
    BY <1>2
  <2>2. 2 * x =< Validity
    BY <2>1 DEF IsEnough
  <2> QED
    BY <2>1, <2>2, Delays
<1>4. RenewTime(b) = secret[b].created + RenewDelay /\ ExpiresAt(b) = secret[b].created + Validity
  BY DEF RenewTime, ExpiresAt, RenewDelay
<1>5. PICK due \in Nat : due = RenewTime(b) + Resync - 1
  BY <1>2, <1>4
<1>6. due + failures + Day < ExpiresAt(b)
  BY <1>2, <1>3, <1>4, <1>5
<1>7. ASSUME NEW s \in SecretId, NEW d \in Nat, LookedAt(s, d)
      PROVE  now =< d
  BY <1>2, <1>7 DEF LookedAt, Punctual
<1>8. IsNewest(b) => now =< due + failures
  <2>1. SUFFICES ASSUME IsNewest(b)
                 PROVE  now =< due + failures
    OBVIOUS
  <2>2. PICK d \in Nat : d = due + failures
    BY <1>2
  <2>3. Due(b, d)
    <3>1. d = RenewTime(b) + Resync - 1 + failures
      BY <1>5, <2>2
    <3> QED
      BY <1>1, <2>1, <3>1 DEF NewestInTime
  <2>4. now =< d
    BY <1>1, <1>2, <1>7, <2>3 DEF Due, Punctual
  <2> QED
    BY <2>2, <2>4
<1>9. ASSUME Wakes(due + failures + Day)
      PROVE  now =< due + failures + Day
  BY <1>2, <1>9, WindowedTime DEF Wakes, Punctual
<1>10. \/ IsNewest(b)
       \/ \E s \in Existing : IsNewest(s) /\ secret[s].stage = "new" /\ LookedAt(s, due + failures)
       \/ Wakes(due + failures + Day)
  <2>1. due + failures = RenewTime(b) + Resync - 1 + failures
    BY <1>5
  <2> QED
    BY <1>1, <2>1 DEF ChangesOver, Wakes
<1>11. \A s \in Existing : LookedAt(s, due + failures) => now =< due + failures
  BY <1>2, <1>7 DEF Existing
<1>12. now =< due + failures + Day
  BY <1>2, <1>8, <1>9, <1>10, <1>11
<1>13. now < ExpiresAt(b)
  BY <1>2, <1>4, <1>6, <1>12
<1> QED
  BY <1>1, <1>5, <1>8, <1>10, <1>11, <1>13

LEMMA ChangeoverStep ==
    ASSUME TypeOK, TypeOK', Chronology, Punctual, NewestInTime, Changeover, GraceIsShort, [Next]_vars
    PROVE  Changeover'
<1> SUFFICES ASSUME Live', resync' # 0, IsEnough
             PROVE  Changeover'
  BY DEF Changeover, IsEnough
<1>1. /\ now \in Nat /\ now' \in Nat /\ failures \in Nat /\ failures' \in Nat /\ failures' >= failures
      /\ Day \in Nat /\ resync # 0 /\ Resync \in Nat /\ RenewDelay \in Nat /\ Existing' \subseteq SecretId
      /\ Existing \subseteq SecretId /\ SecretId \subseteq Int /\ 1 \in SecretId /\ \A s \in SecretId : s >= 1
  BY Types, FailuresGrow, ClockStep, ResyncStep, RequeueAssumption DEF Existing, SecretId
<1>2. CASE ~Live
  <2>1. CreateShoot
    BY <1>2, LiveStays
  <2>2. shoot'.binding = 1 /\ secret' = secret /\ secret[1].stage \in {"new", "live"}
    BY <2>1 DEF CreateShoot
  <2>3. Existing' = {1}
    BY <1>1, <1>2, <2>2 DEF Existing, Chronology
  <2>4. YoungestNext(1) /\ 1 \in Existing' /\ secret'[1].stage # "terminating"
    BY <2>2, <2>3 DEF YoungestNext
  <2> QED
    BY <2>2, <2>4, ChangeoverNext DEF ChangesOverNext
<1>3. CASE Live /\ shoot' # shoot
  <2>1. ReconcileShoot
    BY <1>3, LiveStays DEF CreateShoot, Live
  <2>2. secret' = secret /\ Existing' = Existing
    BY <2>1 DEF ReconcileShoot, Existing
  <2>3. PICK n \in Existing : IsNewest(n) /\ shoot' = [shoot EXCEPT !.binding = n]
    BY <1>3, <2>1 DEF ReconcileShoot
  <2>4. shoot'.binding = n
    BY <2>3 DEF TypeOK
  <2>5. secret'[n].stage # "terminating" /\ YoungestNext(n)
    BY <1>3, <2>2, <2>3, NewestLives DEF YoungestNext, IsNewest
  <2> QED
    BY <2>2, <2>4, <2>5, ChangeoverNext DEF ChangesOverNext
<1>4. CASE Live /\ shoot' = shoot
  <2>1. PICK b : b = shoot.binding /\ b = shoot'.binding
    BY <1>4
  <2>2. b \in Existing /\ b \in SecretId /\ secret[b].stage \in {"new", "live"} /\ now < ExpiresAt(b)
    BY <1>1, <1>4, <2>1, ReferencedLives
  <2>3. PICK due \in Nat :
          /\ due = RenewTime(b) + Resync - 1
          /\ IsNewest(b) => now =< due + failures
          /\ \/ IsNewest(b)
             \/ \E s \in Existing : /\ IsNewest(s) /\ secret[s].stage = "new"
                                    /\ LookedAt(s, due + failures) /\ now =< due + failures
             \/ Wakes(due + failures + Day)
    BY <1>1, <1>4, <2>1, ReferencedLives
  \* b stays.
  <2>4. /\ secret'[b].created = secret[b].created /\ secret'[b].stage \in {"new", "live"}
        /\ b \in Existing'
    <3>1. ~(now >= ExpiresAt(b)) /\ ~Orphaned(b)
      BY <1>1, <1>4, <2>2, Types DEF ExpiresAt, Orphaned, Live
    <3>2. secret'[b] = secret[b] \/ Moved(b)
      BY <2>2, Moves DEF NewOne
    <3>3. /\ secret'[b].created = secret[b].created /\ secret'[b].stage \in {"new", "live"}
      BY <2>2, <3>1, <3>2 DEF Moved
    <3> QED
      BY <2>2, <3>3 DEF Existing
  <2>5. PICK next \in Nat : next = due + failures'
    BY <1>1, <2>3
  <2>6. next = secret'[b].created + RenewDelay + Resync - 1 + failures' /\ due + failures =< next
    BY <1>1, <2>3, <2>4, <2>5 DEF RenewTime, RenewDelay
  <2>7. SUFFICES ChangesOverNext(b, next)
    BY <2>1, <2>4, <2>6, ChangeoverNext
  <2>8. SUFFICES ASSUME ~YoungestNext(b)
                 PROVE  ChangesOverNext(b, next)
    BY DEF ChangesOverNext
  <2>9. ~IsNewest(b)'
    BY <2>8 DEF YoungestNext, IsNewest
  \* A new Secret is looked at first.
  <2>10. ASSUME NEW t \in SecretId, NewOne(t), now =< due + failures
         PROVE  ChangesOverNext(b, next)
    <3>1. /\ t \in Existing' /\ YoungestNext(t) /\ secret'[t].stage = "new" /\ t \in queue' /\ now' = now
      BY <2>10, NewIsLast DEF YoungestNext, IsNewest, NewOne
    <3>2. now' =< next
      BY <1>1, <2>5, <2>6, <2>10, <3>1
    <3> QED
      BY <3>1, <3>2 DEF ChangesOverNext, LookedNext
  <2>11. CASE Wakes(due + failures + Day)
    <3>1. PICK e \in Nat : e = due + failures + Day
      BY <1>1
    <3>2. WakesNext(e)
      BY <1>4, <2>1, <2>2, <2>9, <2>11, <3>1, ShootWaits
    <3>3. e =< next + Day
      BY <1>1, <2>6, <3>1
    <3>4. Windowed \in Nat /\ (now' = now => Windowed' = Windowed)
      BY WindowedTime DEF Windowed, InWindow, NextWindow
    <3>5. shootTimer' \in Nat
      BY DEF TypeOK, Instant
    <3>6. \A x \in Nat : x =< e => x =< next + Day
      <4>1. \A x, y, z \in Nat : x =< y /\ y =< z => x =< z
        OBVIOUS
      <4>2. next + Day \in Nat
        BY <1>1, <2>3, <2>5
      <4> QED
        BY <3>1, <3>3, <4>1, <4>2
    <3> QED
      BY <3>2, <3>4, <3>5, <3>6 DEF WakesNext, ChangesOverNext
  <2>12. CASE IsNewest(b)
    <3>1. PICK t \in SecretId : NewOne(t)
      <4>1. SUFFICES ASSUME \A t \in SecretId : ~NewOne(t)
                     PROVE  FALSE
        OBVIOUS
      <4>2. \A t \in Existing' : t \in Existing
        BY <1>1, <4>1, ExistingStep
      <4> QED
        BY <2>4, <2>8, <2>12, <4>2 DEF YoungestNext, IsNewest
    <3> QED
      BY <2>3, <2>10, <2>12, <3>1
  <2>13. ASSUME NEW n \in Existing, n # b, IsNewest(n), secret[n].stage = "new",
                LookedAt(n, due + failures), now =< due + failures, \A t \in SecretId : ~NewOne(t)
         PROVE  ChangesOverNext(b, next)
    <3>1. n \in SecretId /\ n # 1
      BY <1>1, <2>2, <2>13 DEF IsNewest
    <3>2. ~Renewed(n) /\ ~Orphaned(n) /\ \A t \in SecretId : ~Creates(n, t)
      BY <1>4, <2>13, <3>1, RenewedIsOlder, CreatedIsNew DEF Orphaned, Live
    <3>3. secret'[n].stage \in {"new", "live"}
      BY <2>13, <3>1, <3>2, Moves DEF Moved
    <3>4. n \in Existing' /\ \A t \in Existing' : t \in Existing
      BY <1>1, <2>13, <3>1, <3>3, ExistingStep DEF Existing
    <3>5. YoungestNext(n)
      BY <2>13, <3>4 DEF YoungestNext, IsNewest
    <3>6. CASE secret'[n].stage = "new"
      <4>1. ~Looked(n)
        BY <3>6 DEF Looked
      <4>2. LookedNext(n, due + failures')
        BY <2>13, <4>1, Waits
      <4> QED
        BY <2>5, <3>4, <3>5, <3>6, <4>2 DEF ChangesOverNext
    <3>7. CASE secret'[n].stage = "live"
      <4>1. shootQueue' /\ now' = now
        BY <1>4, <2>13, <3>1, <3>7, Finalized
      <4>2. Windowed' = Windowed /\ Windowed \in Nat /\ Windowed =< now + Day
        BY <4>1, WindowedTime DEF Windowed, InWindow, NextWindow
      <4>3. Windowed =< next + Day
        BY <1>1, <2>6, <2>13, <4>2
      <4> QED
        BY <4>1, <4>2, <4>3 DEF ChangesOverNext
    <3> QED
      BY <3>3, <3>6, <3>7
  <2> QED
    BY <2>3, <2>10, <2>11, <2>12, <2>13
<1> QED
  BY <1>2, <1>3, <1>4

-----------------------------------------------------------------------------
(* The invariant. *)

LEMMA RequeueInit == Init => RequeueInv
<1> SUFFICES ASSUME Init
             PROVE  RequeueInv
  OBVIOUS
<1>1. TypeOK
  BY TypeInit
<1>2. /\ now = 0 /\ failures = 0 /\ queue = {1} /\ resync \in {0, Resync} /\ shootTimer = 0
      /\ shoot.phase = "none"
  BY DEF Init
<1>3. 1 \in SecretId /\ SecretId \subseteq Nat /\ \A s \in SecretId : s >= 1 /\ timer[s] = 0
  BY RequeueAssumption DEF Init, SecretId
<1>4. /\ secret[1].stage = "new" /\ \A s \in SecretId : s # 1 => secret[s].stage = "none"
      /\ \A s \in SecretId : secret[s].created = 0
  BY <1>3 DEF Init
<1>5. Existing = {1} /\ ~Live
  BY <1>2, <1>3, <1>4 DEF Existing, Live
<1>6. /\ Validity \in Nat /\ Validity >= 1 /\ Grace \in Nat /\ Resync \in Nat /\ Resync >= 1
      /\ 2 * Grace \in Nat
  BY RequeueAssumption
<1>7. Chronology
  BY <1>2, <1>3, <1>4, <1>5 DEF Chronology
<1>8. Punctual
  BY <1>2, <1>3, <1>6, Windows DEF Punctual
<1>9. OrphanInTime
  BY <1>2, <1>5, <1>6 DEF OrphanInTime, LookedAt, Due
<1>10. ExpiredInTime
  <2>1. 0 =< 0 + Validity + Resync - 1 + 0
    BY <1>6
  <2> QED
    BY <1>2, <1>3, <1>4, <1>5, <2>1 DEF ExpiredInTime, LookedAt, Due, ExpiresAt
<1>11. NewestInTime /\ Changeover
  BY <1>5 DEF NewestInTime, Changeover
<1> QED
  BY <1>1, <1>7, <1>8, <1>9, <1>10, <1>11 DEF RequeueInv

\* What has a deadline is looked at in time.
THEOREM RequeueInvariance == ASSUME GraceIsShort PROVE Spec => []RequeueInv
<1>1. Init => RequeueInv
  BY RequeueInit
<1>2. RequeueInv /\ [Next]_vars => RequeueInv'
  <2> SUFFICES ASSUME RequeueInv, [Next]_vars
               PROVE  RequeueInv'
    OBVIOUS
  <2>1. TypeOK'
    BY TypeStep DEF RequeueInv
  <2> QED
    BY <2>1, ChronologyStep, PunctualStep, NewestStep, OrphanStep, ExpiredStep, ChangeoverStep
       DEF RequeueInv
<1> QED
  BY <1>1, <1>2, PTL DEF Spec

\* When all that is due has been done, requeues lie ahead.
LEMMA Ahead ==
    ASSUME TypeOK, Punctual, Settled, NEW s \in SecretId, NEW d \in Nat
    PROVE  /\ LookedAt(s, d) => now =< d /\ (d # 0 => now < d)
           /\ Due(s, d) => now =< d /\ (d # 0 => now < d)
<1>1. now \in Nat /\ timer[s] \in Nat /\ resync \in Nat
  BY Types
<1>2. /\ queue = {} /\ (now = 0 \/ timer[s] # now)
      /\ (timer[s] # 0 => now =< timer[s]) /\ (resync # 0 => now < resync)
  BY DEF Settled, Punctual
<1> QED
  BY <1>1, <1>2 DEF LookedAt, Due

\* The newest Secret of a Shoot is renewed before it expires by its requeues alone,
\* late as they are (reconciler.go:171), and with the informer's resync a period
\* after the renew time.
THEOREM RenewalsAreInTime == ASSUME GraceIsShort PROVE Spec => []RenewedInTime
<1>1. RequeueInv => RenewedInTime
  <2> SUFFICES ASSUME RequeueInv
               PROVE  RenewedInTime
    OBVIOUS
  <2>1. TypeOK /\ Punctual /\ NewestInTime
    BY DEF RequeueInv
  <2>2. ASSUME Settled, shoot.phase = "live", NEW s \in Existing, IsNewest(s)
        PROVE  /\ now < ExpiresAt(s) + failures
               /\ resync # 0 => now < RenewTime(s) + Resync + failures
    <3>1. /\ s \in SecretId /\ now \in Nat /\ failures \in Nat /\ Validity >= 1 /\ Resync >= 1
          /\ ExpiresAt(s) \in Nat /\ ExpiresAt(s) >= 1 /\ RenewTime(s) \in Nat /\ Resync \in Nat
      BY <2>1, Types, RequeueAssumption DEF Existing, ExpiresAt, RenewTime, RenewDelay
    <3>2. PICK d, e \in Nat : d = ExpiresAt(s) - 1 + failures /\ e = RenewTime(s) + Resync - 1 + failures
      BY <3>1
    <3>3. LookedAt(s, d) /\ (resync # 0 => Due(s, e))
      BY <2>1, <2>2, <3>2 DEF NewestInTime, Live
    <3>4. now =< d /\ (resync # 0 => now =< e)
      BY <2>1, <2>2, <3>1, <3>2, <3>3, Ahead
    <3> QED
      BY <3>1, <3>2, <3>4
  <2> QED
    BY <2>1, <2>2 DEF RenewedInTime
<1> QED
  BY <1>1, RequeueInvariance, PTL

\* The credential the Shoot works with never expires and its Secret is not taken
\* away, if half the validity is time enough for a resync, the failures and a
\* maintenance window.
THEOREM ReferencedStaysUsable == ASSUME GraceIsShort PROVE Spec => []ReferencedIsUsable
<1>1. RequeueInv => ReferencedIsUsable
  <2> SUFFICES ASSUME RequeueInv, resync # 0, Live, IsEnough
               PROVE  shoot.binding \in Existing /\ now < ExpiresAt(shoot.binding)
    BY DEF ReferencedIsUsable, Live, IsEnough
  <2> QED
    BY ReferencedLives DEF RequeueInv
<1> QED
  BY <1>1, RequeueInvariance, PTL

\* A Secret that has expired, or that no Shoot came for, goes: line 154 leaves it
\* to the resync to find out.
THEOREM TheUselessGo == ASSUME GraceIsShort PROVE Spec => []UselessGoes
<1>1. RequeueInv => UselessGoes
  <2> SUFFICES ASSUME RequeueInv, Settled, NEW s \in Existing
               PROVE  /\ resync # 0 => now < ExpiresAt(s) + Resync + failures
                      /\ shoot.phase = "none" =>
                            /\ resync # 0 => now < secret[s].created + Grace + Resync + failures
                            /\ now < secret[s].created + 2 * Grace + failures
    BY DEF UselessGoes
  <2>1. TypeOK /\ Punctual /\ Chronology /\ ExpiredInTime /\ OrphanInTime
    BY DEF RequeueInv
  <2>2. /\ s \in SecretId /\ now \in Nat /\ failures \in Nat /\ Validity >= 1 /\ Resync >= 1 /\ Grace >= 1
        /\ ExpiresAt(s) \in Nat /\ ExpiresAt(s) >= 1 /\ Resync \in Nat /\ Grace \in Nat
    BY <2>1, Types, RequeueAssumption DEF Existing, ExpiresAt
  <2>3. ASSUME resync # 0
        PROVE  now < ExpiresAt(s) + Resync + failures
    <3>1. PICK d \in Nat : d = ExpiresAt(s) + Resync - 1 + failures
      BY <2>2
    <3>2. Due(s, d)
      BY <2>1, <2>3, <3>1 DEF ExpiredInTime
    <3>3. now =< d
      BY <2>1, <2>2, <3>2, Ahead
    <3> QED
      BY <2>2, <3>1, <3>3
  <2>4. ASSUME shoot.phase = "none"
        PROVE  /\ resync # 0 => now < secret[s].created + Grace + Resync + failures
               /\ now < secret[s].created + 2 * Grace + failures
    <3>1. secret[s].created = 0 /\ ~Live
      BY <2>1, <2>2, <2>4 DEF Chronology, Live, Existing
    <3>2. PICK d, e \in Nat : d = 2 * Grace + failures /\ e = Grace + Resync + failures /\ d # 0 /\ e # 0
      BY <2>2
    <3>3. LookedAt(s, d) /\ (resync # 0 => Due(s, e))
      BY <2>1, <3>1, <3>2 DEF OrphanInTime
    <3>4. now < d /\ (resync # 0 => now < e)
      BY <2>1, <2>2, <3>2, <3>3, Ahead
    <3> QED
      BY <2>2, <3>1, <3>2, <3>4
  <2> QED
    BY <2>3, <2>4
<1> QED
  BY <1>1, RequeueInvariance, PTL
=============================================================================
