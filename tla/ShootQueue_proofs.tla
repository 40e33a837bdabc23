-------------------------- MODULE ShootQueue_proofs ---------------------------
(***************************************************************************)
(* QueueInv is an invariant of ShootQueue; hence no wake-up of a Shoot's   *)
(* reconcile is lost but the one that Overlooked describes, for any number *)
(* of Secrets, create requests and restarts.                               *)
(***************************************************************************)
EXTENDS ShootQueue, TLAPS, WellFoundedInduction

\* A set of Secrets that is not empty has a newest one.
LEMMA NewestExists ==
    ASSUME NEW view, view \subseteq SecretId, view # {}
    PROVE  \E s \in view : IsNewest(s, view)
<1> DEFINE T == {MaxSecrets - s : s \in view}
<1>0. view \subseteq 1..MaxSecrets /\ MaxSecrets \in Nat
  BY QueueAssumption DEF QueueAssumption, SecretId
<1>1. T \subseteq Nat /\ T # {}
  <2>1. \A s \in view : MaxSecrets - s \in Nat
    BY <1>0
  <2> QED
    BY <2>1
<1>2. PICK x \in T : \A y \in T : ~ (<<y, x>> \in OpToRel(<, Nat))
  <2> HIDE DEF T
  <2> QED
    BY <1>1, NatLessThanWellFounded, WFMin, Zenon
<1>3. \A y \in T : ~ (y < x)
  BY <1>1, <1>2 DEF OpToRel
<1>4. PICK s \in view : x = MaxSecrets - s
  BY <1>2
<1>5. \A t \in view : t =< s
  <2> TAKE t \in view
  <2>1. ~ (MaxSecrets - t < MaxSecrets - s)
    BY <1>3, <1>4
  <2> QED
    BY <2>1, <1>0
<1> QED
  BY <1>5 DEF IsNewest

LEMMA NewestType ==
    ASSUME NEW view, view \subseteq SecretId
    PROVE  NewestOrNone(view) \in view \cup {0}
BY NewestExists DEF NewestOrNone

\* The Secret created last is the newest wherever it is seen.
LEMMA CreatedIsNewest ==
    ASSUME NEW n \in Nat, NEW view, view \subseteq 1..n, n \in view
    PROVE  NewestOrNone(view) = n
<1>1. IsNewest(n, view)
  BY DEF IsNewest
<1>2. \A s \in view : IsNewest(s, view) => s = n
  BY DEF IsNewest
<1> QED
  BY <1>1, <1>2 DEF NewestOrNone

LEMMA ViewType ==
    ASSUME TypeOK
    PROVE  known \subseteq SecretId /\ NewestOrNone(known) \in 0..created
<1>1. known \subseteq 1..created /\ created \in 0..MaxSecrets
  BY DEF TypeOK
<1>2. known \subseteq SecretId
  BY <1>1, QueueAssumption DEF QueueAssumption, SecretId
<1>3. NewestOrNone(known) \in known \cup {0}
  BY <1>2, NewestType
<1>4. \A x \in known \cup {0} : x \in 0..created
  BY <1>1
<1> QED
  BY <1>2, <1>3, <1>4

-----------------------------------------------------------------------------
(* Type correctness. *)

WorkerRecord ==
    [pc : {"idle", "finalizer", "patch", "deleteAll", "release"},
     obj : ShootRecord, target : 0..MaxSecrets, unforce : BOOLEAN]

LEMMA IdleType == NoShoot \in ShootRecord /\ Idle \in WorkerRecord
BY QueueAssumption DEF QueueAssumption, NoShoot, Idle, WorkerRecord, ShootRecord, Phase

LEMMA DecideType ==
    ASSUME TypeOK, NEW obj \in ShootRecord, NEW inWindow, Decide(obj, inWindow)
    PROVE  worker' \in WorkerRecord /\ timer' \in BOOLEAN
<1>1. timer \in BOOLEAN /\ NewestOrNone(known) \in 0..MaxSecrets
  <2>1. \A x \in 0..created : x \in 0..MaxSecrets
    BY QueueAssumption DEF QueueAssumption, TypeOK
  <2> QED
    BY <2>1, ViewType DEF TypeOK
<1>2. Patching(obj) \in WorkerRecord
  <2>1. obj.force \in BOOLEAN
    BY DEF ShootRecord
  <2> QED
    BY <1>1, <2>1, IdleType DEF WorkerRecord, Patching
<1> QED
  BY <1>1, <1>2, IdleType DEF Decide

LEMMA TypeStep ==
    ASSUME TypeOK, [Next]_vars
    PROVE  TypeOK'
<1> USE QueueAssumption, IdleType DEF QueueAssumption, TypeOK, clusterVars, requestVars
<1>1. CASE RequestCreatesSecret \/ CreateSuccessor
  <2>1. /\ NewSecret /\ admitting' \in {admitting, admitting \cup {created'}}
        /\ UNCHANGED <<bindings, events, admitted, hasty, shoot, operatorVars>>
    BY <1>1 DEF RequestCreatesSecret, CreateSuccessor
  <2>2. created' \in 0..MaxSecrets /\ created' \in 1..created' /\ \A n \in 1..created : n \in 1..created'
    BY <2>1 DEF NewSecret
  <2> QED
    BY <2>1, <2>2 DEF NewSecret, operatorVars
<1>2. ASSUME NEW s \in SecretId, CreateBinding(s) \/ RequestEnsuresBinding(s) PROVE TypeOK'
  BY <1>2 DEF CreateBinding, RequestEnsuresBinding, EnsureBinding, operatorVars
<1>19. ASSUME NEW s \in SecretId, RequestFindsSecret(s) \/ RequestFails(s) PROVE TypeOK'
  BY <1>19 DEF RequestFindsSecret, RequestFails, operatorVars
<1>3. ASSUME NEW s \in SecretId, RemoveSecret(s) PROVE TypeOK'
  BY <1>3 DEF RemoveSecret, operatorVars
<1>4. ASSUME NEW s \in SecretId, MapBinding(s) PROVE TypeOK'
  BY <1>4 DEF MapBinding
<1>5. ASSUME NEW s \in SecretId, CreateShoot(s) PROVE TypeOK'
  <2>1. s \in 0..MaxSecrets
    BY DEF SecretId
  <2>2. \A c \in BOOLEAN : [NoShoot EXCEPT !.phase = "live", !.binding = s, !.confine = c] \in ShootRecord
    BY <2>1 DEF ShootRecord, Phase
  <2> QED
    BY <1>5, <2>2 DEF CreateShoot, operatorVars
<1>6. CASE GardenerReports \/ OwnerEditsShoot
  BY <1>6 DEF GardenerReports, OwnerEditsShoot, ShootRecord, operatorVars
<1>7. CASE OwnerDeletesShoot \/ GardenerDeletesShoot \/ ShootVanishes
  BY <1>7 DEF OwnerDeletesShoot, GardenerDeletesShoot, ShootVanishes, ShootProgress, ShootRecord, Phase, operatorVars
<1>8. CASE SyncShoot
  BY <1>8 DEF SyncShoot, ShootRelevant, Relevant
<1>9. CASE SyncSecrets
  BY <1>9 DEF SyncSecrets
<1>10. CASE TimerFires
  BY <1>10 DEF TimerFires
<1>11. ASSUME NEW inWindow \in BOOLEAN, Dequeue(inWindow) PROVE TypeOK'
  <2>1. worker' \in WorkerRecord /\ timer' \in BOOLEAN
    <3>1. [Idle EXCEPT !.pc = "finalizer", !.obj = seenShoot] \in WorkerRecord
      BY DEF WorkerRecord
    <3>2. [Idle EXCEPT !.pc = "deleteAll"] \in WorkerRecord
      BY DEF WorkerRecord
    <3>3. worker \in WorkerRecord
      BY DEF WorkerRecord
    <3> QED
      BY <1>11, <3>1, <3>2, <3>3, DecideType DEF Dequeue
  <2> QED
    BY <1>11, <2>1 DEF Dequeue, WorkerRecord
<1>12. ASSUME NEW inWindow \in BOOLEAN, AddFinalizer(inWindow) PROVE TypeOK'
  <2>1. worker' \in WorkerRecord /\ timer' \in BOOLEAN
    BY <1>12, DecideType DEF AddFinalizer, WorkerRecord
  <2>2. [shoot EXCEPT !.fin = TRUE] \in ShootRecord
    BY DEF ShootRecord
  <2> QED
    BY <1>12, <2>1, <2>2 DEF AddFinalizer, WorkerRecord
<1>13. CASE PatchBinding
  <2>1. [shoot EXCEPT !.binding = worker.target, !.force = @ /\ ~worker.unforce] \in ShootRecord
    BY DEF ShootRecord
  <2> QED
    BY <1>13, <2>1 DEF PatchBinding, WorkerRecord
<1>14. CASE DeleteAll
  BY <1>14 DEF DeleteAll
<1>15. CASE RemoveFinalizer
  <2>1. [shoot EXCEPT !.fin = FALSE] \in ShootRecord
    BY DEF ShootRecord
  <2> QED
    BY <1>15, <2>1 DEF RemoveFinalizer, WorkerRecord
<1>16. CASE Fail
  BY <1>16 DEF Fail, WorkerRecord
<1>17. CASE Restart
  <2>1. queued' \in BOOLEAN
    BY <1>17 DEF Restart
  <2> QED
    BY <1>17, <2>1 DEF Restart, WorkerRecord
<1>18. CASE UNCHANGED vars
  BY <1>18 DEF vars
<1> QED
  BY <1>1, <1>2, <1>3, <1>4, <1>5, <1>6, <1>7, <1>8, <1>9, <1>10, <1>11, <1>12, <1>13, <1>14,
     <1>15, <1>16, <1>17, <1>18, <1>19 DEF Next, Call

-----------------------------------------------------------------------------
(* The parts of QueueInv. *)

\* What those may change who make Secrets and bindings.
LEMMA SecretSteps ==
    /\ RequestCreatesSecret \/ CreateSuccessor =>
          NewSecret /\ UNCHANGED <<bindings, events, admitted, hasty, shoot, operatorVars>>
    /\ \A s \in SecretId :
          CreateBinding(s) \/ RequestFindsSecret(s) \/ RequestEnsuresBinding(s) \/ RequestFails(s) =>
             UNCHANGED <<created, secrets, shoot, operatorVars>>
BY DEF RequestCreatesSecret, CreateSuccessor, CreateBinding, RequestFindsSecret, RequestEnsuresBinding,
       RequestFails, requestVars

\* What a step may do to the Shoot and to the Secrets.
LEMMA ShootSteps ==
    ASSUME [Next]_vars
    PROVE  \/ UNCHANGED shoot
           \/ \E s \in SecretId : CreateShoot(s)
           \/ GardenerReports \/ OwnerEditsShoot \/ OwnerDeletesShoot \/ GardenerDeletesShoot \/ ShootVanishes
           \/ \E inWindow \in BOOLEAN : AddFinalizer(inWindow)
           \/ PatchBinding \/ RemoveFinalizer
BY SecretSteps DEF Next, Call, vars, clusterVars, RemoveSecret, MapBinding, SyncShoot, SyncSecrets,
       TimerFires, Dequeue, DeleteAll, Fail, Restart

LEMMA SeenSteps ==
    ASSUME [Next]_vars
    PROVE  UNCHANGED seenShoot \/ SyncShoot \/ Restart
BY SecretSteps
   DEF Next, Call, vars, operatorVars, RemoveSecret, MapBinding, CreateShoot, GardenerReports, OwnerEditsShoot,
       OwnerDeletesShoot, GardenerDeletesShoot, ShootVanishes, ShootProgress, SyncSecrets, TimerFires,
       Dequeue, AddFinalizer, PatchBinding, DeleteAll, RemoveFinalizer, Fail

LEMMA CreatedSteps ==
    ASSUME [Next]_vars
    PROVE  UNCHANGED created \/ NewSecret
BY SecretSteps
   DEF Next, Call, vars, clusterVars, RemoveSecret, MapBinding, CreateShoot, GardenerReports, OwnerEditsShoot,
       OwnerDeletesShoot, GardenerDeletesShoot, ShootVanishes, ShootProgress, SyncShoot, SyncSecrets,
       TimerFires, Dequeue, AddFinalizer, PatchBinding, DeleteAll, RemoveFinalizer, Fail, Restart

LEMMA Types ==
    ASSUME TypeOK
    PROVE  /\ created \in Nat
           /\ shoot = [phase |-> shoot.phase, binding |-> shoot.binding,
                       status |-> shoot.status, fin |-> shoot.fin,
                       force |-> shoot.force, confine |-> shoot.confine]
           /\ shoot.phase \in Phase /\ seenShoot.phase \in Phase
           /\ shoot.fin \in BOOLEAN /\ seenShoot.fin \in BOOLEAN
           /\ seenShoot = [phase |-> seenShoot.phase, binding |-> seenShoot.binding,
                           status |-> seenShoot.status, fin |-> seenShoot.fin,
                           force |-> seenShoot.force, confine |-> seenShoot.confine]
           /\ shoot.binding \in Nat /\ seenShoot.binding \in Nat
BY QueueAssumption DEF QueueAssumption, TypeOK, ShootRecord

LEMMA ShootCreated ==
    ASSUME NEW s \in SecretId, CreateShoot(s)
    PROVE  /\ shoot.phase = "none" /\ s \in admitted
           /\ shoot'.phase = "live" /\ shoot'.binding = s /\ shoot'.fin = FALSE
           /\ UNCHANGED <<created, secrets, seenShoot>>
BY DEF CreateShoot, NoShoot, operatorVars

LEMMA PhaseSteps ==
    ASSUME TypeOK, [Next]_vars
    PROVE  \/ shoot'.phase = shoot.phase
           \/ shoot.phase = "none" /\ shoot'.phase = "live"
           \/ shoot.phase = "live" /\ shoot'.phase = "deleting"
           \/ shoot.phase = "deleting" /\ shoot'.phase = "deleted"
           \/ shoot.phase = "deleted" /\ shoot'.phase = "gone"
BY Types, ShootSteps, ShootCreated DEF GardenerReports, OwnerEditsShoot, OwnerDeletesShoot, GardenerDeletesShoot,
   ShootVanishes, ShootProgress, AddFinalizer, PatchBinding, RemoveFinalizer, NoShoot

\* Versions of the Shoot succeed one another in the order of Rank.
LEMMA RankStep ==
    ASSUME TypeOK, [Next]_vars
    PROVE  Rank(shoot.phase) =< Rank(shoot'.phase) /\ Rank(shoot.phase) \in Nat
BY Types, PhaseSteps DEF Rank, Phase

\* Only a Shoot that Gardener has deleted loses its finalizer.
LEMMA FinalizerStays ==
    ASSUME TypeOK, ShootHistory, [Next]_vars, shoot.fin \/ shoot.phase \in {"deleted", "gone"}
    PROVE  shoot'.fin \/ shoot'.phase \in {"deleted", "gone"}
<1>1. ASSUME NEW s \in SecretId, CreateShoot(s) PROVE FALSE
  <2>1. shoot.phase = "none"
    BY <1>1, ShootCreated
  <2>2. shoot = NoShoot
    BY <2>1 DEF ShootHistory
  <2> QED
    BY <2>1, <2>2 DEF NoShoot
<1> QED
  BY <1>1, Types, ShootSteps
     DEF GardenerReports, OwnerEditsShoot, OwnerDeletesShoot, GardenerDeletesShoot, ShootVanishes, ShootProgress,
         AddFinalizer, PatchBinding, RemoveFinalizer

LEMMA ShootHistoryStep ==
    ASSUME QueueInv, [Next]_vars
    PROVE  ShootHistory'
<1> USE DEF QueueInv
<1>1. TypeOK'
  BY TypeStep
<1>2. Rank(seenShoot'.phase) =< Rank(shoot'.phase)
  <2>1. CASE UNCHANGED seenShoot
    <3>1. Rank(seenShoot.phase) \in Nat /\ Rank(shoot'.phase) \in Nat
      BY <1>1, Types DEF Rank, Phase, TypeOK, ShootRecord
    <3> QED
      BY <2>1, <3>1, RankStep DEF ShootHistory
  <2>2. CASE SyncShoot \/ Restart
    <3>1. seenShoot' = shoot /\ shoot' = shoot
      BY <2>2 DEF SyncShoot, Restart, clusterVars
    <3> QED
      BY <3>1, RankStep
  <2> QED
    BY <2>1, <2>2, SeenSteps
<1>3. seenShoot'.fin => shoot'.fin \/ shoot'.phase \in {"deleted", "gone"}
  <2>1. shoot.fin \/ shoot.phase \in {"deleted", "gone"} => shoot'.fin \/ shoot'.phase \in {"deleted", "gone"}
    BY FinalizerStays
  <2>2. CASE UNCHANGED seenShoot
    BY <2>1, <2>2 DEF ShootHistory
  <2>3. CASE SyncShoot \/ Restart
    BY <2>3 DEF SyncShoot, Restart, clusterVars
  <2> QED
    BY <2>2, <2>3, SeenSteps
<1>4. shoot'.phase = "none" => shoot' = NoShoot
  <2>1. shoot'.phase = "none" => UNCHANGED shoot
    <3> SUFFICES ASSUME shoot'.phase = "none" PROVE UNCHANGED shoot
      OBVIOUS
    <3>1. shoot.phase = "none"
      BY PhaseSteps
    <3>2. \A s \in SecretId : ~CreateShoot(s)
      BY ShootCreated
    <3> QED
      BY <3>1, <3>2, ShootSteps DEF GardenerReports, OwnerEditsShoot, OwnerDeletesShoot, GardenerDeletesShoot,
         ShootVanishes, ShootProgress, AddFinalizer, PatchBinding, RemoveFinalizer, WorkerDecision
  <2> QED
    BY <2>1 DEF ShootHistory
<1>5. seenShoot'.phase = "none" => seenShoot' = NoShoot
  <2>1. seenShoot' = seenShoot \/ seenShoot' = shoot
    BY SeenSteps DEF SyncShoot, Restart
  <2>2. shoot.phase = "none" => shoot = NoShoot
    BY DEF ShootHistory
  <2>3. seenShoot.phase = "none" => seenShoot = NoShoot
    BY DEF ShootHistory
  <2> QED
    BY <2>1, <2>2, <2>3
<1>6. shoot'.phase # "none" => shoot'.binding \in 1..created'
  <2>1. created \in Nat /\ created' \in Nat /\ created =< created'
    BY <1>1, Types, CreatedSteps DEF NewSecret, TypeOK
  <2>2. shoot'.phase # "none" => shoot'.binding \in 1..created
    <3>1. ASSUME NEW s \in SecretId, CreateShoot(s) PROVE shoot'.binding \in 1..created
      <4>1. s \in 1..created
        BY <3>1, ShootCreated DEF TypeOK
      <4> QED
        BY <3>1, <4>1, ShootCreated
    <3>2. CASE PatchBinding
      BY <3>2, Types DEF PatchBinding, WorkerDecision
    <3>3. CASE (\A s \in SecretId : ~CreateShoot(s)) /\ ~PatchBinding
      BY <3>3, Types, ShootSteps DEF GardenerReports, OwnerEditsShoot, OwnerDeletesShoot, GardenerDeletesShoot,
         ShootVanishes, ShootProgress, AddFinalizer, RemoveFinalizer, ShootHistory
    <3> QED
      BY <3>1, <3>2, <3>3
  <2> QED
    BY <2>1, <2>2
<1>7. shoot'.phase = "live" /\ ~shoot'.fin => seenShoot'.phase = "none" \/ seenShoot'.binding = shoot'.binding
  <2> SUFFICES ASSUME shoot'.phase = "live", ~shoot'.fin
               PROVE  seenShoot'.phase = "none" \/ seenShoot'.binding = shoot'.binding
    OBVIOUS
  <2>1. ASSUME NEW s \in SecretId, CreateShoot(s) PROVE seenShoot'.phase = "none"
    <3>1. shoot.phase = "none" /\ seenShoot' = seenShoot
      BY <2>1, ShootCreated
    <3> QED
      BY <3>1, Types DEF ShootHistory, Rank, Phase
  <2>2. CASE \A s \in SecretId : ~CreateShoot(s)
    <3>1. shoot.phase = "live" /\ ~shoot.fin /\ shoot'.binding = shoot.binding
      BY <2>2, Types, ShootSteps DEF GardenerReports, OwnerEditsShoot, OwnerDeletesShoot, GardenerDeletesShoot,
         ShootVanishes, ShootProgress, AddFinalizer, PatchBinding, RemoveFinalizer, WorkerDecision
    <3>2. seenShoot' = seenShoot \/ seenShoot' = shoot
      BY SeenSteps DEF SyncShoot, Restart
    <3> QED
      BY <3>1, <3>2 DEF ShootHistory
  <2> QED
    BY <2>1, <2>2
<1> QED
  BY <1>2, <1>3, <1>4, <1>5, <1>6, <1>7 DEF ShootHistory

\* A decision to patch is for a Secret the operator knows, and not the Shoot's.
LEMMA PatchDecided ==
    ASSUME TypeOK, NEW obj, NEW inWindow, Decide(obj, inWindow)
    PROVE  \/ worker' = Idle
           \/ /\ worker'.pc = "patch" /\ worker'.target \in 1..created
              /\ worker'.target # obj.binding
<1>1. NewestOrNone(known) \in 0..created /\ created \in Nat
  BY ViewType, Types
<1> DEFINE newest == NewestOrNone(known)
<1>2. newest \notin {0, obj.binding} => newest \in 1..created /\ newest # obj.binding
  BY <1>1
<1>3. ASSUME worker' = Patching(obj)
      PROVE  worker'.pc = "patch" /\ worker'.target = newest
  BY <1>3 DEF Idle, Patching
<1>4. \/ worker' = Idle
      \/ newest \notin {0, obj.binding} /\ worker' = Patching(obj)
  BY DEF Decide
<1> HIDE DEF newest
<1> QED
  BY <1>2, <1>3, <1>4

LEMMA SecretHistoryStep ==
    ASSUME QueueInv, [Next]_vars
    PROVE  SecretHistory'
<1> USE DEF QueueInv
<1>2. shoot'.phase \in {"none", "live"} /\ created' > 0 => created' \in secrets'
  <2>1. shoot'.phase \in {"none", "live"} => shoot.phase \in {"none", "live"}
    BY PhaseSteps
  <2>2. CASE NewSecret
    BY <2>2 DEF NewSecret
  <2>3. ASSUME NEW s \in SecretId, RemoveSecret(s), shoot.phase \in {"none", "live"}
        PROVE  created' = created /\ s # created
    <3>1. PICK t \in secrets : t > s
      BY <2>3 DEF RemoveSecret
    <3> QED
      BY <2>3, <3>1 DEF RemoveSecret, TypeOK, SecretId
  <2>4. CASE \E s \in SecretId : RemoveSecret(s)
    BY <2>1, <2>3, <2>4 DEF RemoveSecret, SecretHistory
  <2>5. CASE ~NewSecret /\ ~ \E s \in SecretId : RemoveSecret(s)
    <3>1. UNCHANGED <<created, secrets>>
      BY <2>5, SecretSteps
         DEF Next, Call, vars, clusterVars, MapBinding, CreateShoot, GardenerReports, OwnerEditsShoot,
             OwnerDeletesShoot, GardenerDeletesShoot, ShootVanishes, ShootProgress, SyncShoot, SyncSecrets,
             TimerFires, Dequeue, AddFinalizer, PatchBinding, DeleteAll, RemoveFinalizer, Fail, Restart
    <3> QED
      BY <2>1, <3>1 DEF SecretHistory
  <2> QED
    BY <2>2, <2>4, <2>5
<1>3. bindings' \subseteq known' \cup hasty'
  <2>1. CASE RequestCreatesSecret \/ CreateSuccessor
    BY <2>1, SecretSteps DEF operatorVars, SecretHistory
  <2>2. ASSUME NEW s \in SecretId, CreateBinding(s) \/ RequestEnsuresBinding(s)
        PROVE  bindings' \subseteq known' \cup hasty'
    BY <2>2 DEF CreateBinding, RequestEnsuresBinding, EnsureBinding, operatorVars, SecretHistory
  <2>3. ASSUME NEW s \in SecretId, RequestFindsSecret(s) \/ RequestFails(s) \/ RemoveSecret(s) \/ MapBinding(s)
        PROVE  bindings' \subseteq known' \cup hasty'
    BY <2>3 DEF RequestFindsSecret, RequestFails, RemoveSecret, MapBinding, clusterVars, operatorVars, SecretHistory
  <2>4. CASE SyncSecrets \/ Restart
    BY <2>4 DEF SyncSecrets, Restart, clusterVars, TypeOK
  <2>5. ASSUME NEW inWindow \in BOOLEAN, Dequeue(inWindow) \/ AddFinalizer(inWindow)
        PROVE  bindings' \subseteq known' \cup hasty'
    BY <2>5 DEF Dequeue, AddFinalizer, clusterVars, SecretHistory
  <2>6. CASE UNCHANGED <<bindings, known, hasty>>
    BY <2>6 DEF SecretHistory
  <2> QED
    BY <2>1, <2>2, <2>3, <2>4, <2>5, <2>6
       DEF Next, Call, vars, clusterVars, operatorVars, CreateShoot, GardenerReports, OwnerEditsShoot, OwnerDeletesShoot,
           GardenerDeletesShoot, ShootVanishes, ShootProgress, SyncShoot, TimerFires, PatchBinding, DeleteAll,
           RemoveFinalizer, Fail
<1> QED
  BY <1>2, <1>3 DEF SecretHistory

LEMMA WorkerDecisionStep ==
    ASSUME QueueInv, [Next]_vars
    PROVE  WorkerDecision'
<1> USE DEF QueueInv
<1>1. created \in Nat /\ created' \in Nat /\ created =< created'
  BY TypeStep, CreatedSteps, Types DEF NewSecret, TypeOK
<1>2. shoot.fin \/ shoot.phase \in {"deleted", "gone"} => shoot'.fin \/ shoot'.phase \in {"deleted", "gone"}
  BY FinalizerStays
<1>3. CASE worker' = Idle
  BY <1>3 DEF Idle, WorkerDecision
<1>4. CASE UNCHANGED worker /\ worker # Idle
  <2>1. shoot.phase \in {"deleted", "gone"} => shoot'.phase \in {"deleted", "gone"}
    BY PhaseSteps
  <2>2. CASE SyncShoot
    <3>1. worker.pc = "patch" /\ shoot.phase = "live" /\ shoot.binding = worker.target =>
             queued \/ ShootRelevant(seenShoot, shoot)
      BY Types DEF WorkerDecision, ShootRelevant, Relevant, ShootHistory, Rank, Phase
    <3>2. shoot.phase = "deleted" => ShootRelevant(seenShoot, shoot)
      BY DEF ShootRelevant
    <3>3. UNCHANGED <<worker, shoot, created>> /\ seenShoot' = shoot
      BY <2>2 DEF SyncShoot, clusterVars
    <3>4. queued \/ ShootRelevant(seenShoot, shoot) => queued'
      BY <2>2 DEF SyncShoot
    <3> QED
      BY <3>1, <3>2, <3>3, <3>4 DEF WorkerDecision
  <2>3. CASE UNCHANGED seenShoot
    <3>1. queued => queued'
      BY <1>4, SecretSteps
         DEF Next, Call, vars, operatorVars, RemoveSecret, MapBinding, CreateShoot, GardenerReports, OwnerEditsShoot,
         OwnerDeletesShoot, GardenerDeletesShoot, ShootVanishes, ShootProgress, SyncShoot, SyncSecrets, TimerFires, Dequeue, AddFinalizer, PatchBinding, DeleteAll, RemoveFinalizer, Fail, Restart
    <3> QED
      BY <1>1, <1>2, <1>4, <2>1, <2>3, <3>1 DEF WorkerDecision
  <2> QED
    BY <1>4, <2>2, <2>3, SeenSteps DEF Restart
<1>5. ASSUME NEW inWindow \in BOOLEAN, Dequeue(inWindow) PROVE WorkerDecision'
  <2>1. UNCHANGED <<shoot, seenShoot, created>>
    BY <1>5 DEF Dequeue, clusterVars
  <2>2. CASE /\ seenShoot.phase = "live" /\ ~seenShoot.fin
             /\ worker' = [Idle EXCEPT !.pc = "finalizer", !.obj = seenShoot]
    <3>1. worker'.pc = "finalizer" /\ worker'.obj = seenShoot
      BY <2>2 DEF Idle
    <3> QED
      BY <2>2, <3>1 DEF WorkerDecision
  <2>3. CASE seenShoot.phase = "deleted" /\ worker' = [Idle EXCEPT !.pc = "deleteAll"]
    <3>1. worker'.pc = "deleteAll"
      BY <2>3 DEF Idle
    <3>2. shoot'.phase \in {"deleted", "gone"}
      BY <2>1, <2>3, Types DEF ShootHistory, Rank, Phase
    <3> QED
      BY <3>1, <3>2 DEF WorkerDecision
  <2>4. CASE seenShoot.phase = "live" /\ seenShoot.fin /\ Decide(seenShoot, inWindow)
    BY <1>3, <2>1, <2>4, PatchDecided DEF WorkerDecision, ShootHistory
  <2>5. worker' = worker => worker' = Idle
    BY <1>5 DEF Dequeue
  <2> QED
    BY <1>3, <1>5, <2>2, <2>3, <2>4, <2>5 DEF Dequeue
<1>6. ASSUME NEW inWindow \in BOOLEAN, AddFinalizer(inWindow) PROVE WorkerDecision'
  <2>1. UNCHANGED <<seenShoot, created, queued>> /\ shoot'.fin /\ Decide(shoot, inWindow)
    BY <1>6, Types DEF AddFinalizer
  <2>2. shoot.phase = "live" /\ ~shoot.fin
    BY <1>6 DEF AddFinalizer, WorkerDecision
  <2>3. (seenShoot.phase = "none" \/ seenShoot.binding = shoot.binding) /\ seenShoot.phase \in {"none", "live"}
    BY <2>2, Types DEF ShootHistory, Rank, Phase
  <2> QED
    BY <1>3, <2>1, <2>3, PatchDecided DEF WorkerDecision
<1>7. CASE DeleteAll
  BY <1>7 DEF DeleteAll, WorkerDecision, clusterVars
<1> QED
  BY <1>3, <1>4, <1>5, <1>6, <1>7, SecretSteps
     DEF Next, Call, vars, operatorVars, RemoveSecret, MapBinding, CreateShoot, GardenerReports, OwnerEditsShoot, OwnerDeletesShoot, GardenerDeletesShoot, ShootVanishes, ShootProgress,
     SyncShoot, SyncSecrets, TimerFires, PatchBinding, RemoveFinalizer, Fail, Restart

\* The operator knows the newest Secret once that has its binding, and would adopt
\* it, unless a hasty request made the binding.
LEMMA NewestKnown ==
    ASSUME QueueInv, AdoptionDue, NewestOrNone(secrets) \in bindings
    PROVE  /\ NewestOrNone(secrets) = created /\ created \notin {0, shoot.binding}
           /\ created \in known => NewestOrNone(known) = created
           /\ created \notin known => created \in hasty
<1> USE DEF QueueInv
<1>1. created \in Nat /\ secrets \subseteq 1..created /\ known \subseteq 1..created
  BY Types DEF TypeOK
<1>2. created \in secrets
  <2>1. created > 0
    BY <1>1, Types DEF AdoptionDue, ShootHistory, Phase
  <2> QED
    BY <2>1 DEF AdoptionDue, SecretHistory
<1>3. NewestOrNone(secrets) = created
  BY <1>1, <1>2, CreatedIsNewest
<1>4. created \in bindings /\ created \notin {0, shoot.binding}
  BY <1>3 DEF AdoptionDue
<1>5. created \in known => NewestOrNone(known) = created
  BY <1>1, CreatedIsNewest
<1>6. created \notin known => created \in hasty
  BY <1>4 DEF SecretHistory
<1> QED
  BY <1>3, <1>4, <1>5, <1>6

\* What may bring the Shoot into the queue when it is not there, or excuses that
\* nothing does.
Waiting ==
    \/ IsNews(seenShoot, shoot)
    \/ AdoptionDue /\ (~NewestAnnounced \/ (timer /\ ~AtOnce(seenShoot)))
    \/ Overlooked

\* What is news of a Shoot that is wanted, and of one that Gardener has deleted.
LEMMA NewsMeaning ==
    ASSUME NEW old \in ShootRecord, NEW new \in ShootRecord
    PROVE  /\ new.phase = "live" =>
                 (IsNews(old, new) <=>
                    \/ old.phase = "none"
                    \/ <<old.binding, old.confine, old.fin>> # <<new.binding, new.confine, new.fin>>)
           /\ new.phase = "deleted" /\ old.phase # "deleted" => IsNews(old, new)
           /\ IsNews(old, new) => ShootRelevant(old, new) /\ old # new
<1> DEFINE edited == [new EXCEPT !.force = old.force]
<1>1. /\ edited.phase = new.phase /\ edited.binding = new.binding /\ edited.confine = new.confine
      /\ edited.fin = new.fin /\ edited.force = old.force
  BY DEF ShootRecord
<1>2. IsNews(old, new) <=> old # edited /\ ShootRelevant(old, edited)
  BY DEF IsNews
<1>6. old # edited => old # new
  BY DEF ShootRecord
<1> HIDE DEF edited
<1>3. new.phase = "deleted" /\ old.phase # "deleted" => ShootRelevant(old, edited) /\ old # edited
  BY <1>1 DEF ShootRelevant
<1>4. ShootRelevant(old, edited) => ShootRelevant(old, new)
  BY <1>1 DEF ShootRelevant, Relevant
<1>5. new.phase = "live" =>
        (old # edited /\ ShootRelevant(old, edited) <=>
           \/ old.phase = "none"
           \/ <<old.binding, old.confine, old.fin>> # <<new.binding, new.confine, new.fin>>)
  BY <1>1 DEF ShootRelevant, Relevant
<1> QED
  BY <1>2, <1>3, <1>4, <1>5, <1>6

\* A decision that leads to no patch leads to a requeue.
LEMMA NoPatchDecided ==
    ASSUME QueueInv, NEW obj, NEW inWindow, Decide(obj, inWindow), worker' = Idle, AdoptionDue,
           NewestAnnounced, created \in known, obj.binding = shoot.binding
    PROVE  timer' /\ ~AtOnce(obj)
<1>1. NewestOrNone(known) \notin {0, obj.binding}
  BY NewestKnown DEF NewestAnnounced
<1>2. Patching(obj) # Idle
  BY DEF Idle, Patching
<1> QED
  BY <1>1, <1>2 DEF Decide

LEMMA WakeupStep ==
    ASSUME QueueInv, [Next]_vars
    PROVE  WakeupKept'
<1> SUFFICES ASSUME ~queued', worker' = Idle, AdoptionDue' \/ ReleaseDue'
             PROVE  Waiting'
  BY DEF WakeupKept, Waiting
<1> USE DEF QueueInv
<1>0. /\ TypeOK' /\ ShootHistory' /\ SecretHistory'
      /\ shoot \in ShootRecord /\ seenShoot \in ShootRecord
      /\ shoot' \in ShootRecord /\ seenShoot' \in ShootRecord
  BY TypeStep, ShootHistoryStep, SecretHistoryStep DEF TypeOK
<1>1. ASSUME ~queued, worker = Idle, AdoptionDue \/ ReleaseDue PROVE Waiting
  BY <1>1 DEF WakeupKept, Waiting
<1>2. CASE RequestCreatesSecret \/ CreateSuccessor
  <2>1. NewSecret /\ UNCHANGED <<bindings, events, hasty, shoot, seenShoot, queued, timer, worker>>
    BY <1>2, SecretSteps DEF operatorVars
  <2>2. CASE AdoptionDue'
    <3>1. NewestOrNone(secrets') = created'
      BY <2>1, <1>0, Types, CreatedIsNewest DEF NewSecret, TypeOK
    <3>2. created' \notin bindings'
      BY <2>1, Types DEF NewSecret, TypeOK
    <3> QED
      BY <2>2, <3>1, <3>2 DEF NewestAnnounced, Waiting
  <2>3. CASE ReleaseDue'
    BY <1>1, <2>1, <2>3 DEF ReleaseDue, AdoptionDue, Overlooked, Waiting
  <2> QED
    BY <2>2, <2>3
<1>3. ASSUME NEW s \in SecretId, CreateBinding(s) \/ RequestEnsuresBinding(s)
      PROVE  Waiting'
  <2>1. UNCHANGED <<secrets, shoot, seenShoot, queued, timer, worker>>
    BY <1>3, SecretSteps DEF operatorVars
  <2>2. EnsureBinding(s) /\ hasty \subseteq hasty'
    BY <1>3 DEF CreateBinding, RequestEnsuresBinding
  <2>3. (NewestAnnounced' => NewestAnnounced) /\ (Overlooked => Overlooked')
    BY <2>1, <2>2 DEF NewestAnnounced, Overlooked, AdoptionDue, EnsureBinding, TypeOK
  <2> QED
    BY <1>1, <2>1, <2>3 DEF ReleaseDue, AdoptionDue, Waiting
<1>20. ASSUME NEW s \in SecretId, RequestFindsSecret(s) \/ RequestFails(s)
       PROVE  Waiting'
  <2>1. UNCHANGED <<secrets, bindings, events, hasty, shoot, seenShoot, queued, timer, worker>>
    BY <1>20 DEF RequestFindsSecret, RequestFails, operatorVars
  <2> QED
    BY <1>1, <2>1 DEF ReleaseDue, AdoptionDue, Overlooked, NewestAnnounced, Waiting
<1>4. ASSUME NEW s \in SecretId, RemoveSecret(s)
      PROVE  Waiting'
  <2>1. /\ UNCHANGED <<created, shoot, seenShoot, queued, timer, worker>>
        /\ bindings' = bindings \ {s} /\ events' = events \ {s} /\ hasty' = hasty \ {s} /\ s \notin secrets'
    BY <1>4 DEF RemoveSecret, operatorVars
  <2>2. CASE AdoptionDue'
    <3>1. shoot.phase = "live" /\ created > 0
      BY <2>1, <2>2, Types DEF AdoptionDue, ShootHistory
    <3>2. created \in secrets /\ created \in secrets'
      BY <1>0, <2>1, <3>1 DEF SecretHistory
    <3>3. NewestOrNone(secrets) = created /\ NewestOrNone(secrets') = created /\ s # created
      BY <1>0, <2>1, <3>1, <3>2, Types, CreatedIsNewest DEF TypeOK
    <3>4. AdoptionDue
      BY <2>1, <2>2, <3>3 DEF AdoptionDue
    <3>5. (NewestAnnounced' <=> NewestAnnounced) /\ (Overlooked => Overlooked')
      BY <2>1, <2>2, <3>3 DEF NewestAnnounced, Overlooked
    <3> QED
      BY <1>1, <2>1, <2>2, <3>4, <3>5 DEF Waiting
  <2>3. CASE ReleaseDue'
    BY <1>1, <2>1, <2>3 DEF ReleaseDue, AdoptionDue, Overlooked, Waiting
  <2> QED
    BY <2>2, <2>3
<1>5. ASSUME NEW s \in SecretId, MapBinding(s)
      PROVE  Waiting'
  <2>1. UNCHANGED <<shoot, seenShoot, secrets, bindings, created, timer, worker>> /\ events' = events \ {s}
    BY <1>5 DEF MapBinding, clusterVars
  <2>2. ~queued /\ s \notin known /\ s \in bindings /\ hasty' = hasty
    BY <1>5 DEF MapBinding, TypeOK
  <2>3. Waiting
    BY <1>1, <2>1, <2>2 DEF AdoptionDue, ReleaseDue
  <2>4. CASE AdoptionDue /\ NewestOrNone(secrets) = s
    <3>1. s \in hasty
      BY <2>2, <2>4, NewestKnown
    <3> QED
      BY <2>1, <2>2, <2>4, <3>1 DEF AdoptionDue, Overlooked, Waiting
  <2>5. CASE AdoptionDue /\ NewestOrNone(secrets) # s
    <3>1. (NewestAnnounced' => NewestAnnounced) /\ (Overlooked => Overlooked')
      BY <2>1, <2>2, <2>5 DEF NewestAnnounced, Overlooked, AdoptionDue
    <3> QED
      BY <2>1, <2>3, <2>5, <3>1 DEF AdoptionDue, Waiting
  <2>6. CASE ~AdoptionDue
    BY <2>1, <2>3, <2>6 DEF Waiting, Overlooked
  <2> QED
    BY <2>4, <2>5, <2>6
<1>6. CASE SyncSecrets
  <2>1. UNCHANGED <<shoot, seenShoot, secrets, bindings, events, hasty, timer, worker>> /\ ~queued
    BY <1>6 DEF SyncSecrets, clusterVars
  <2> QED
    BY <1>1, <2>1 DEF AdoptionDue, ReleaseDue, Waiting, NewestAnnounced, Overlooked
<1>19. CASE SyncShoot
  <2>1. /\ UNCHANGED <<shoot, secrets, bindings, events, hasty, timer, worker>>
        /\ ~queued /\ ~ShootRelevant(seenShoot, shoot)
    BY <1>19 DEF SyncShoot, clusterVars
  <2>2. AdoptionDue \/ ReleaseDue
    BY <2>1 DEF AdoptionDue, ReleaseDue
  <2>3. Waiting /\ ~IsNews(seenShoot, shoot) /\ seenShoot' = shoot
    BY <1>0, <1>1, <1>19, <2>1, <2>2, NewsMeaning DEF SyncShoot
  <2>4. AdoptionDue /\ (~NewestAnnounced \/ (timer /\ ~AtOnce(seenShoot)) \/ Overlooked)
    BY <2>3 DEF Waiting, Overlooked
  <2>5. seenShoot.phase = "none" => ShootRelevant(seenShoot, shoot)
    BY DEF ShootRelevant
  <2>6. AtOnce(seenShoot) = AtOnce(shoot)
    BY <2>1, <2>4, <2>5 DEF AdoptionDue, ShootRelevant, Relevant, AtOnce
  <2> QED
    BY <2>1, <2>3, <2>4, <2>6 DEF AdoptionDue, Waiting, NewestAnnounced, Overlooked
<1>7. CASE TimerFires \/ Fail
  BY <1>7 DEF TimerFires, Fail
<1>8. CASE Restart
  BY <1>8 DEF Restart, clusterVars, AdoptionDue, ReleaseDue
<1>9. ASSUME NEW s \in SecretId, CreateShoot(s)
      PROVE  Waiting'
  <2>1. shoot.phase = "none" /\ shoot'.phase = "live" /\ seenShoot' = seenShoot
    BY <1>9, ShootCreated
  <2>2. seenShoot.phase = "none"
    BY <2>1, Types DEF ShootHistory, Rank, Phase
  <2> QED
    BY <1>0, <2>1, <2>2, NewsMeaning DEF Waiting
<1>10. CASE GardenerReports \/ OwnerEditsShoot
  <2>1. /\ shoot'.phase = shoot.phase /\ shoot'.binding = shoot.binding /\ shoot'.fin = shoot.fin
        /\ shoot'.confine = shoot.confine /\ shoot.phase \in {"live", "deleting"}
        /\ UNCHANGED <<seenShoot, secrets, bindings, events, hasty, timer, queued, worker>>
    BY <1>10, Types DEF GardenerReports, OwnerEditsShoot, operatorVars
  <2>2. AdoptionDue
    BY <2>1 DEF AdoptionDue, ReleaseDue
  <2>3. CASE IsNews(seenShoot, shoot)
    BY <1>0, <2>1, <2>2, <2>3, NewsMeaning DEF Waiting, AdoptionDue
  <2> QED
    BY <1>1, <2>1, <2>2, <2>3 DEF AdoptionDue, NewestAnnounced, Overlooked, Waiting
<1>11. CASE OwnerDeletesShoot \/ ShootVanishes
  BY <1>11, Types DEF OwnerDeletesShoot, ShootVanishes, ShootProgress, AdoptionDue, ReleaseDue
<1>12. CASE GardenerDeletesShoot
  <2>1. shoot'.phase = "deleted" /\ seenShoot' = seenShoot /\ shoot.phase = "deleting"
    BY <1>12, Types DEF GardenerDeletesShoot, ShootProgress, operatorVars
  <2>2. seenShoot.phase # "deleted"
    BY <2>1, Types DEF ShootHistory, Rank, Phase
  <2> QED
    BY <1>0, <2>1, <2>2, NewsMeaning DEF Waiting
<1>13. ASSUME NEW inWindow \in BOOLEAN, Dequeue(inWindow)
       PROVE  Waiting'
  <2>1. UNCHANGED <<shoot, seenShoot, created, secrets, bindings, events>>
    BY <1>13 DEF Dequeue, clusterVars
  <2>2. CASE shoot.phase = "deleted"
    <3>1. seenShoot.phase # "deleted"
      BY <1>13, <2>2 DEF Dequeue, Idle
    <3> QED
      BY <1>0, <2>1, <2>2, <3>1, NewsMeaning DEF Waiting
  <2>3. CASE AdoptionDue
    <3>1. seenShoot.phase \in {"none", "live"}
      BY <2>3, Types DEF AdoptionDue, ShootHistory, Rank, Phase
    <3>2. CASE seenShoot.phase = "none"
      BY <1>0, <2>1, <2>3, <3>2, NewsMeaning DEF AdoptionDue, Waiting
    <3>3. CASE seenShoot.phase = "live" /\ (seenShoot.binding # shoot.binding \/ seenShoot.fin # shoot.fin)
      BY <1>0, <2>1, <2>3, <3>3, NewsMeaning DEF AdoptionDue, Waiting
    <3>4. CASE seenShoot.phase = "live" /\ seenShoot.binding = shoot.binding /\ seenShoot.fin = shoot.fin
      <4>1. [Idle EXCEPT !.pc = "finalizer", !.obj = seenShoot] # Idle
        BY DEF Idle
      <4>2. Decide(seenShoot, inWindow) /\ hasty' = hasty \ known
        BY <1>13, <3>4, <4>1 DEF Dequeue
      <4>3. CASE NewestAnnounced /\ created \notin known
        BY <2>1, <2>3, <4>2, <4>3, NewestKnown DEF AdoptionDue, NewestAnnounced, Overlooked, Waiting
      <4>4. CASE ~NewestAnnounced \/ created \in known
        BY <2>1, <2>3, <3>4, <4>2, <4>4, NoPatchDecided DEF AdoptionDue, NewestAnnounced, Waiting
      <4> QED
        BY <4>3, <4>4
    <3> QED
      BY <3>1, <3>2, <3>3, <3>4
  <2> QED
    BY <2>1, <2>2, <2>3 DEF AdoptionDue, ReleaseDue
<1>14. ASSUME NEW inWindow \in BOOLEAN, AddFinalizer(inWindow)
       PROVE  Waiting'
  <2>1. /\ shoot.phase = "live" /\ shoot'.phase = "live" /\ shoot'.binding = shoot.binding
        /\ UNCHANGED <<secrets, bindings, events>> /\ Decide(shoot, inWindow)
    BY <1>14, Types DEF AddFinalizer, WorkerDecision
  <2>2. IsNews(seenShoot', shoot')
    <3>1. shoot'.fin /\ ~shoot.fin /\ seenShoot' = seenShoot
      BY <1>14, Types DEF AddFinalizer, WorkerDecision
    <3>2. ~seenShoot.fin
      BY <2>1, <3>1 DEF ShootHistory
    <3> QED
      BY <1>0, <2>1, <3>1, <3>2, NewsMeaning
  <2> QED
    BY <2>2 DEF Waiting
<1>15. CASE PatchBinding
  <2>1. /\ shoot'.phase = shoot.phase /\ shoot'.binding = worker.target /\ seenShoot' = seenShoot
        /\ worker.pc = "patch" /\ ~queued
    BY <1>15, Types DEF PatchBinding
  <2>2. CASE shoot.phase = "deleted"
    BY <1>0, <2>1, <2>2, NewsMeaning DEF WorkerDecision, Waiting
  <2>3. CASE shoot.phase = "live"
    <3>1. seenShoot.phase \in {"none", "live"}
      BY <2>3, Types DEF ShootHistory, Rank, Phase
    <3> QED
      BY <1>0, <2>1, <2>3, <3>1, NewsMeaning DEF WorkerDecision, Waiting
  <2> QED
    BY <2>1, <2>2, <2>3 DEF AdoptionDue, ReleaseDue
<1>16. CASE DeleteAll
  BY <1>16 DEF DeleteAll, Idle
<1>17. CASE RemoveFinalizer
  BY <1>17, Types DEF RemoveFinalizer, WorkerDecision, AdoptionDue, ReleaseDue
<1>18. CASE UNCHANGED vars
  BY <1>1, <1>18 DEF vars, AdoptionDue, ReleaseDue, Waiting, NewestAnnounced, Overlooked
<1> QED
  BY <1>2, <1>3, <1>4, <1>5, <1>6, <1>7, <1>8, <1>9, <1>10, <1>11, <1>12, <1>13, <1>14, <1>15, <1>16,
     <1>17, <1>18, <1>19, <1>20 DEF Next, Call

-----------------------------------------------------------------------------
\* QueueInv holds in every reachable state, whatever the number of Secrets, create
\* requests and restarts (AddToManager, its predicates and map functions, and reconcile).
THEOREM QueueInvariance == Spec => []QueueInv
<1>1. Init => QueueInv
  <2> SUFFICES ASSUME Init PROVE QueueInv
    OBVIOUS
  <2>1. NoShoot \in ShootRecord
    BY QueueAssumption DEF QueueAssumption, NoShoot, ShootRecord, Phase
  <2>2. 0 \in 0..MaxSecrets
    BY QueueAssumption DEF QueueAssumption
  <2>3. TypeOK
    BY <2>1, <2>2, IdleType DEF Init, TypeOK, WorkerRecord
  <2>4. shoot.phase = "none" /\ shoot.fin = FALSE /\ seenShoot = shoot /\ shoot = NoShoot
    BY DEF Init, NoShoot
  <2>5. ShootHistory
    BY <2>4 DEF ShootHistory, Rank
  <2>6. SecretHistory
    BY <2>4 DEF Init, SecretHistory
  <2>7. worker.pc = "idle"
    BY DEF Init, Idle
  <2>8. WorkerDecision
    BY <2>7 DEF WorkerDecision
  <2>9. WakeupKept
    BY <2>4 DEF WakeupKept, AdoptionDue, ReleaseDue
  <2> QED
    BY <2>3, <2>5, <2>6, <2>8, <2>9 DEF QueueInv
<1>2. QueueInv /\ [Next]_vars => QueueInv'
  BY TypeStep, ShootHistoryStep, SecretHistoryStep, WorkerDecisionStep, WakeupStep DEF QueueInv
<1> QED
  BY <1>1, <1>2, PTL DEF Spec

\* A Shoot that has something to be reconciled is in the queue, or an event that
\* puts it there is under way, or a timer if it may wait for its window, unless the
\* event for a binding that a second create request made was dropped: other dropped
\* events, filtered updates and restarts lose no wake-up (AddToManager, lines 49-63,
\* and shootRelevantUpdatePredicate).
THEOREM NoWakeupLost == Spec => []NoLostWakeup
<1>1. QueueInv => NoLostWakeup
  <2> SUFFICES ASSUME QueueInv PROVE NoLostWakeup
    OBVIOUS
  <2>1. IsNews(seenShoot, shoot) => seenShoot # shoot
    BY NewsMeaning DEF QueueInv, TypeOK
  <2> QED
    BY <2>1 DEF QueueInv, WakeupKept, NoLostWakeup, WakeupPending
<1> QED
  BY <1>1, QueueInvariance, PTL
=============================================================================
