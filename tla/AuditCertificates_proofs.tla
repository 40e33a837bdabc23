---------------------- MODULE AuditCertificates_proofs ----------------------
(***************************************************************************)
(* The audit webhook's certificates, for any number of replicas,           *)
(* generations, lost responses and deletions: a rotation starts from an    *)
(* outdated copy only after a fault, a forwarder that is no newer than a   *)
(* replica's CAs is accepted, and the served certificate's CA is in memory.*)
(***************************************************************************)
EXTENDS CertificateInvariant, TLAPS

RotatorRecord(Kind) == [pc : {"idle", "create", "patch"}, base : Kind, again : BOOLEAN]
WriterRecord(Kind) == [at : 0..3, data : Kind]
Directory(Kind) == [{"ca", "crt", "key"} -> Kind]

LEMMA OrderOfFiles ==
    Len(Order) = 3 /\ Order[1] = "ca" /\ Order[2] = "crt" /\ Order[3] = "key"
BY DEF Order

LEMMA EmptyIsCopy ==
    /\ Empty \in Copy /\ Empty.gen = 0 /\ Empty.prev = 0 /\ 0 \in Generation
    /\ \A g \in Generation : g \in Int /\ g >= 0
BY CertificatesAssumption DEF Empty, Copy, Generation

\* The steps that change the Secret or what is known of the generations.
LEMMA SecretSteps ==
    ASSUME [Next]_vars
    PROVE  \/ UNCHANGED secretVars
           \/ \E lost \in BOOLEAN : MakeFirst /\ CountLoss(lost)
           \/ \E lost \in BOOLEAN : PatchSecret(lost)
           \/ DeleteSecret
           \/ PassHalfLife
<1>1. ASSUME NEW r \in Replicas, ReplicaNext(r)
      PROVE  UNCHANGED secretVars \/ (MakeFirst /\ CountLoss(FALSE))
  <2>1. losses' = losses => CountLoss(FALSE)
    BY DEF CountLoss
  <2>2. CASE CreateSecret(r)
    BY <2>1, <2>2 DEF CreateSecret
  <2>3. CASE CheckSecret(r) \/ LoadInitially(r) \/ FailToLoad(r) \/ Crash(r) \/ ChangeLeader(r)
    BY <2>3 DEF CheckSecret, LoadInitially, FailToLoad, Crash, ChangeLeader
  <2>4. CASE SyncCache(r) \/ Reload(r) \/ Truncate(r) \/ Write(r)
    BY <2>4 DEF SyncCache, Reload, Truncate, Write
  <2>5. CASE FailWrite(r) \/ Watch(r) \/ Callback(r)
    BY <2>5 DEF FailWrite, Watch, Callback
  <2> QED
    BY <1>1, <2>2, <2>3, <2>4, <2>5 DEF ReplicaNext
<1>2. CASE Reconcile \/ FailCall \/ SyncForwarder
  BY <1>2 DEF Reconcile, FailCall, SyncForwarder
<1>3. CASE UNCHANGED vars
  BY <1>3 DEF vars
<1> QED
  BY <1>1, <1>2, <1>3 DEF Next, CreateAgain

\* A copy stays where it is, goes where another one was, or is read from the
\* Secret: this is also what the types of the copies rest on.
LEMMA CopiesStay ==
    ASSUME NEW Old, NEW New, Old \subseteq New, Empty \in Old, TypeOK, CopiesIn(Old),
           secret' \in New, [Next]_vars
    PROVE  /\ rotator'.base \in New
           /\ cache' \in [Replicas -> New] /\ pool' \in [Replicas -> New]
           /\ writer' \in [Replicas -> WriterRecord(New)]
           /\ files' \in [Replicas -> Directory(New)]
<1> DEFINE Goal ==
      /\ rotator'.base \in New
      /\ cache' \in [Replicas -> New] /\ pool' \in [Replicas -> New]
      /\ writer' \in [Replicas -> WriterRecord(New)]
      /\ files' \in [Replicas -> Directory(New)]
<1>1. /\ Empty \in New /\ secret \in New /\ rotator.base \in New
      /\ cache \in [Replicas -> New] /\ pool \in [Replicas -> New]
      /\ writer \in [Replicas -> WriterRecord(New)]
      /\ files \in [Replicas -> Directory(New)]
  BY DEF CopiesIn, WriterRecord, Directory
<1>2. NoFiles \in Directory(New) /\ IdleWriter \in WriterRecord(New) /\ IdleRotator.base = Empty
  BY <1>1 DEF NoFiles, IdleWriter, Directory, WriterRecord, IdleRotator
<1>3. UNCHANGED <<rotator, cache, pool, writer, files>> => Goal
  BY <1>1
<1>4. ASSUME NEW r \in Replicas, ReplicaNext(r)
      PROVE  Goal
  <2>1. CASE CheckSecret(r) \/ CreateSecret(r) \/ FailToLoad(r) \/ Watch(r)
    BY <2>1, <1>3 DEF CheckSecret, CreateSecret, FailToLoad, Watch, diskVars, memoryVars
  <2>2. CASE LoadInitially(r)
    <3>1. [f \in DOMAIN NoFiles |-> secret] \in Directory(New)
      BY <1>1 DEF NoFiles, Directory
    <3>2. PICK d \in Directory(New) : d = [f \in DOMAIN NoFiles |-> secret]
      BY <3>1
    <3>3. files' = [files EXCEPT ![r] = d]
      BY <2>2, <3>2 DEF LoadInitially
    <3> QED
      BY <2>2, <1>1, <3>3 DEF LoadInitially
  <2>3. CASE Crash(r)
    BY <2>3, <1>1, <1>2 DEF Crash
  <2>4. CASE ChangeLeader(r)
    BY <2>4, <1>1, <1>2 DEF ChangeLeader, diskVars, memoryVars
  <2>5. CASE SyncCache(r)
    BY <2>5, <1>1 DEF SyncCache, diskVars, memoryVars
  <2>6. CASE Reload(r)
    <3>1. [at |-> 1, data |-> cache[r]] \in WriterRecord(New)
      BY <1>1 DEF WriterRecord
    <3> QED
      BY <2>6, <1>1, <3>1 DEF Reload, memoryVars
  <2>7. CASE Truncate(r)
    <3>1. PICK d \in Directory(New) : d = files[r]
      BY <1>1
    <3>2. PICK x : x = [d EXCEPT !["ca"] = Empty]
      OBVIOUS
    <3>3. x \in Directory(New)
      BY <3>1, <3>2, <1>1 DEF Directory
    <3>4. files' = [files EXCEPT ![r] = x]
      BY <2>7, <3>1, <3>2 DEF Truncate
    <3> QED
      BY <2>7, <1>1, <3>3, <3>4 DEF Truncate, memoryVars
  <2>8. CASE Write(r)
    <3>1. PICK w \in WriterRecord(New) : w = writer[r]
      BY <1>1
    <3>2. w.at \in 1..3 /\ w.data \in New
      BY <2>8, <3>1 DEF Write, WriteFile, WriterRecord
    <3>3. PICK f \in {"ca", "crt", "key"} : f = Order[w.at]
      BY <3>2, OrderOfFiles
    <3>4. PICK d \in Directory(New) : d = files[r]
      BY <1>1
    <3>5. PICK x : x = [d EXCEPT ![f] = w.data]
      OBVIOUS
    <3>6. x \in Directory(New)
      BY <3>2, <3>4, <3>5 DEF Directory
    <3>7. files' = [files EXCEPT ![r] = x]
      BY <2>8, <3>1, <3>3, <3>4, <3>5 DEF Write, WriteFile
    <3>8. files' \in [Replicas -> Directory(New)]
      BY <1>1, <3>6, <3>7
    <3>9. writer' \in [Replicas -> WriterRecord(New)]
      <4>1. CASE w.at = 3
        BY <4>1, <2>8, <1>1, <1>2, <3>1, OrderOfFiles DEF Write
      <4>2. CASE w.at # 3
        <5>1. PICK y : y = [w EXCEPT !.at = w.at + 1]
          OBVIOUS
        <5>2. y \in WriterRecord(New)
          BY <5>1, <4>2, <3>2, <3>1 DEF WriterRecord
        <5>3. writer' = [writer EXCEPT ![r] = y]
          BY <5>1, <4>2, <2>8, <3>1, OrderOfFiles DEF Write
        <5> QED
          BY <1>1, <5>2, <5>3
      <4> QED
        BY <4>1, <4>2
    <3> QED
      BY <2>8, <1>1, <3>8, <3>9 DEF Write, memoryVars
  <2>9. CASE FailWrite(r)
    BY <2>9, <1>1, <1>2 DEF FailWrite, memoryVars
  <2>10. CASE Callback(r)
    <3>1. files[r]["ca"] \in New
      BY <1>1 DEF Directory
    <3> QED
      BY <2>10, <1>1, <3>1 DEF Callback, diskVars
  <2> QED
    BY <1>4, <2>1, <2>2, <2>3, <2>4, <2>5, <2>6, <2>7, <2>8, <2>9, <2>10 DEF ReplicaNext
<1>5. CASE Reconcile
  <2>1. leader \in Replicas
    BY DEF TypeOK
  <2>2. rotator'.base \in {Empty, cache[leader]}
    BY <1>5, <1>2 DEF Reconcile, IdleRotator
  <2> QED
    BY <1>5, <1>1, <2>1, <2>2 DEF Reconcile, diskVars, memoryVars
<1>6. ASSUME NEW lost \in BOOLEAN, CreateAgain(lost) \/ PatchSecret(lost)
      PROVE  Goal
  <2>1. rotator'.base = Empty
    BY <1>6 DEF CreateAgain, PatchSecret, IdleRotator
  <2> QED
    BY <1>6, <1>1, <2>1 DEF CreateAgain, PatchSecret, diskVars, memoryVars
<1>7. CASE FailCall
  <2>1. rotator'.base = Empty
    BY <1>7 DEF FailCall, IdleRotator
  <2> QED
    BY <1>7, <1>1, <2>1 DEF FailCall, diskVars, memoryVars
<1>8. CASE DeleteSecret \/ SyncForwarder \/ PassHalfLife
  BY <1>8, <1>3 DEF DeleteSecret, SyncForwarder, PassHalfLife, diskVars, memoryVars
<1>9. CASE UNCHANGED vars
  BY <1>9, <1>3 DEF vars, diskVars, memoryVars
<1> QED
  BY <1>4, <1>5, <1>6, <1>7, <1>8, <1>9 DEF Next

-----------------------------------------------------------------------------
(* Types. *)

LEMMA TypeStep ==
    ASSUME TypeOK, [Next]_vars
    PROVE  TypeOK'
<1> USE EmptyIsCopy
<1> DEFINE
      SecretTypes ==
        /\ secret' \in Copy /\ made' \in Generation /\ aged' \subseteq Generation
        /\ losses' \in 0..MaxLost /\ deletions' \in 0..MaxDeletions
        /\ roots' \subseteq Generation /\ skipped' \subseteq Generation
      ReplicaTypes ==
        /\ leader' \in Replicas /\ client' \in Generation
        /\ state' \in [Replicas -> {"down", "creating", "loading", "running"}]
        /\ written' \in [Replicas -> Generation]
        /\ serving' \in [Replicas -> Generation] /\ notify' \in [Replicas -> BOOLEAN]
<1>1. SecretTypes
  <2>1. CASE UNCHANGED secretVars
    BY <2>1 DEF TypeOK, secretVars, faultVars
  <2>2. ASSUME NEW lost \in BOOLEAN, CountLoss(lost)
        PROVE  losses' \in 0..MaxLost
    BY <2>2, CertificatesAssumption DEF TypeOK, CountLoss
  <2>3. made < MaxGeneration => made + 1 \in Generation
    BY CertificatesAssumption DEF TypeOK, Generation
  <2>4. ASSUME NEW lost \in BOOLEAN, MakeFirst, CountLoss(lost)
        PROVE  SecretTypes
    BY <2>2, <2>3, <2>4 DEF TypeOK, MakeFirst, Copy
  <2>5. ASSUME NEW lost \in BOOLEAN, PatchSecret(lost)
        PROVE  SecretTypes
    <3>1. rotator.base \in Copy /\ secret.gen \in Generation
      BY DEF TypeOK, Copy
    <3>2. rotator.base.gen \in Generation
      BY <3>1 DEF Copy
    <3> QED
      BY <2>2, <2>3, <2>5, <3>1, <3>2 DEF TypeOK, PatchSecret, Patch, Rotated, Copy
  <2>6. CASE DeleteSecret
    BY <2>6, CertificatesAssumption DEF TypeOK, DeleteSecret
  <2>7. CASE PassHalfLife
    <3>1. secret.gen \in Generation
      BY DEF TypeOK, Copy
    <3> QED
      BY <2>7, <3>1 DEF TypeOK, PassHalfLife, faultVars
  <2> QED
    BY <2>1, <2>4, <2>5, <2>6, <2>7, SecretSteps
<1>2. CopiesIn(Copy)
  BY DEF TypeOK, CopiesIn
<1>3. /\ rotator'.base \in Copy
      /\ cache' \in [Replicas -> Copy] /\ pool' \in [Replicas -> Copy]
      /\ writer' \in [Replicas -> WriterRecord(Copy)]
      /\ files' \in [Replicas -> Directory(Copy)]
  <2> HIDE DEF Copy
  <2> QED
    BY <1>1, <1>2, CopiesStay
<1>4. ReplicaTypes
  <2>1. CASE UNCHANGED <<leader, client, state, written, serving, notify>>
    BY <2>1 DEF TypeOK
  <2>2. \A copy \in Copy : copy.gen \in Generation
    BY DEF Copy
  <2>3. secret.gen \in Generation
    BY <2>2 DEF TypeOK
  <2>4. ASSUME NEW r \in Replicas, ReplicaNext(r)
        PROVE  ReplicaTypes
    <3>1. CASE CheckSecret(r)
      BY <3>1 DEF TypeOK, CheckSecret, diskVars, memoryVars
    <3>2. CASE CreateSecret(r)
      BY <3>2 DEF TypeOK, CreateSecret, diskVars, memoryVars
    <3>3. CASE LoadInitially(r)
      BY <3>3, <2>3 DEF TypeOK, LoadInitially
    <3>4. CASE FailToLoad(r)
      BY <3>4 DEF TypeOK, FailToLoad, diskVars, memoryVars
    <3>5. CASE Crash(r)
      BY <3>5 DEF TypeOK, Crash
    <3>6. CASE ChangeLeader(r)
      BY <3>6 DEF TypeOK, ChangeLeader, diskVars, memoryVars
    <3>7. CASE Watch(r)
      <4>1. files[r]["crt"] \in Copy
        BY DEF TypeOK
      <4>2. files[r]["crt"].gen \in Generation
        BY <4>1, <2>2
      <4> QED
        BY <3>7, <4>2 DEF TypeOK, Watch, diskVars
    <3>8. CASE Callback(r)
      BY <3>8 DEF TypeOK, Callback, diskVars
    <3>9. CASE Write(r)
      <4>1. writer[r].data \in Copy
        BY DEF TypeOK
      <4>2. writer[r].data.gen \in Generation
        BY <4>1, <2>2
      <4>3. written' \in [Replicas -> Generation]
        BY <3>9, <4>2 DEF TypeOK, Write
      <4> QED
        BY <3>9, <4>3 DEF TypeOK, Write, memoryVars
    <3>10. CASE SyncCache(r) \/ Reload(r) \/ Truncate(r) \/ FailWrite(r)
      BY <3>10, <2>1 DEF SyncCache, Reload, Truncate, FailWrite, diskVars, memoryVars
    <3> QED
      BY <2>4, <3>1, <3>2, <3>3, <3>4, <3>5, <3>6, <3>7, <3>8, <3>9, <3>10 DEF ReplicaNext
  <2>5. CASE Reconcile \/ FailCall \/ \E lost \in BOOLEAN : CreateAgain(lost) \/ PatchSecret(lost)
    BY <2>5, <2>1 DEF Reconcile, FailCall, CreateAgain, PatchSecret, diskVars, memoryVars
  <2>6. CASE DeleteSecret \/ PassHalfLife
    BY <2>6, <2>1 DEF DeleteSecret, PassHalfLife, diskVars, memoryVars
  <2>7. CASE SyncForwarder
    BY <2>7, <2>3 DEF TypeOK, SyncForwarder, diskVars, memoryVars
  <2>8. CASE UNCHANGED vars
    BY <2>8, <2>1 DEF vars, diskVars, memoryVars
  <2> QED
    BY <2>4, <2>5, <2>6, <2>7, <2>8 DEF Next
<1>5. rotator' \in RotatorRecord(Copy)
  <2>1. \A again \in BOOLEAN, pc \in {"idle", "create", "patch"} :
          /\ [IdleRotator EXCEPT !.again = again] \in RotatorRecord(Copy)
          /\ [IdleRotator EXCEPT !.pc = pc] \in RotatorRecord(Copy)
    BY DEF RotatorRecord, IdleRotator
  <2>2. IdleRotator \in RotatorRecord(Copy) /\ rotator \in RotatorRecord(Copy)
    BY DEF RotatorRecord, IdleRotator, TypeOK
  <2>3. CASE UNCHANGED rotator
    BY <2>2, <2>3
  <2>4. ASSUME NEW r \in Replicas, ReplicaNext(r)
        PROVE  rotator' \in {rotator, IdleRotator}
    BY <2>4 DEF ReplicaNext, CheckSecret, CreateSecret, LoadInitially, FailToLoad, Crash,
         ChangeLeader, SyncCache, Reload, Truncate, Write, FailWrite, Watch, Callback
  <2>5. CASE Reconcile
    <3>1. cache[leader] \in Copy
      BY DEF TypeOK
    <3>2. [pc |-> "patch", base |-> cache[leader], again |-> FALSE] \in RotatorRecord(Copy)
      BY <3>1 DEF RotatorRecord
    <3> QED
      BY <2>1, <2>2, <2>5, <3>2 DEF Reconcile
  <2>6. CASE FailCall
    BY <2>1, <2>6 DEF FailCall
  <2>7. ASSUME NEW lost \in BOOLEAN, CreateAgain(lost) \/ PatchSecret(lost)
        PROVE  rotator' \in RotatorRecord(Copy)
    BY <2>1, <2>7 DEF CreateAgain, PatchSecret
  <2>8. CASE DeleteSecret \/ SyncForwarder \/ PassHalfLife \/ UNCHANGED vars
    BY <2>2, <2>8 DEF DeleteSecret, SyncForwarder, PassHalfLife, vars
  <2> QED
    BY <2>2, <2>4, <2>5, <2>6, <2>7, <2>8 DEF Next
<1> QED
  BY <1>1, <1>3, <1>4, <1>5 DEF TypeOK, RotatorRecord, WriterRecord, Directory

-----------------------------------------------------------------------------
(* AcceptInv: what the copies tell of the generations. *)

\* The generations are numbers, and a step only adds to what is known of them.
LEMMA GenerationsGrow ==
    ASSUME TypeOK, [Next]_vars
    PROVE  /\ made \in Nat /\ made' \in Nat /\ made =< made'
           /\ aged \subseteq aged' /\ skipped \subseteq skipped' /\ roots \subseteq roots'
           /\ (secret' = secret /\ made' = made) \/ made' > made \/ secret' = Empty
<1> USE CertificatesAssumption
<1>1. made \in Nat
  BY DEF TypeOK, Generation
<1>2. CASE UNCHANGED secretVars
  BY <1>1, <1>2 DEF secretVars, faultVars
<1>3. ASSUME NEW lost \in BOOLEAN, MakeFirst
      PROVE  /\ made' \in Nat /\ made' > made
             /\ aged \subseteq aged' /\ skipped \subseteq skipped' /\ roots \subseteq roots'
  BY <1>1, <1>3 DEF MakeFirst
<1>4. ASSUME NEW lost \in BOOLEAN, PatchSecret(lost)
      PROVE  /\ made' \in Nat /\ made' > made
             /\ aged \subseteq aged' /\ skipped \subseteq skipped' /\ roots \subseteq roots'
  BY <1>1, <1>4 DEF PatchSecret, Patch
<1>5. CASE DeleteSecret
  BY <1>1, <1>5 DEF DeleteSecret
<1>6. CASE PassHalfLife
  BY <1>1, <1>6 DEF PassHalfLife, faultVars
<1> QED
  BY <1>1, <1>2, <1>3, <1>4, <1>5, <1>6, SecretSteps

LEMMA SoundGrows ==
    ASSUME TypeOK, [Next]_vars
    PROVE  Sound \subseteq Sound'
<1> SUFFICES ASSUME NEW copy \in Sound
             PROVE  copy \in Sound'
  OBVIOUS
<1>1. /\ copy \in Copy /\ copy.gen =< made /\ (copy.gen = 0 => copy = Empty)
      /\ copy.gen = made /\ secret # Empty => copy = secret
      /\ copy.prev # 0 => copy.prev \in aged /\ copy.prev < copy.gen
      /\ \A g \in 1..made : copy.prev < g /\ g < copy.gen => g \in Dropped(copy)
  BY DEF Sound
<1>2. copy.gen \in Int /\ copy.gen >= 0 /\ copy.prev \in Int /\ copy.prev >= 0
  BY <1>1, EmptyIsCopy DEF Copy
<1>3. copy.gen =< made' /\ (copy.gen = made' /\ secret' # Empty => copy = secret')
  BY <1>1, <1>2, GenerationsGrow
<1>4. copy.prev # 0 => copy.prev \in aged' /\ copy.prev < copy.gen
  BY <1>1, GenerationsGrow
<1>5. Dropped(copy) \subseteq Dropped(copy)'
  BY GenerationsGrow DEF Dropped
<1>6. ASSUME NEW g \in 1..made', copy.prev < g, g < copy.gen
      PROVE  g \in Dropped(copy)'
  <2>1. g \in 1..made
    BY <1>1, <1>2, <1>6, GenerationsGrow
  <2> QED
    BY <1>1, <1>5, <1>6, <2>1
<1> QED
  BY <1>1, <1>3, <1>4, <1>6 DEF Sound

LEMMA EmptyIsSound ==
    ASSUME AcceptInv
    PROVE  Empty \in Sound
<1>1. secret \in Sound /\ (secret # Empty => secret.gen = made)
  BY DEF AcceptInv, CopiesIn, Newest
<1>2. made \in Nat
  BY CertificatesAssumption DEF AcceptInv, TypeOK, Generation
<1>3. secret # Empty => made # 0
  BY <1>1 DEF Sound
<1> QED
  BY <1>2, <1>3, EmptyIsCopy DEF Sound

\* What is written to the API server is sound: a rotation that starts from an
\* outdated copy leaves out only what it marks as skipped.
LEMMA SecretIsSound ==
    ASSUME AcceptInv, [Next]_vars
    PROVE  secret' \in Sound'
<1> USE CertificatesAssumption DEF AcceptInv
<1>1. secret \in Copy /\ secret.gen \in Generation /\ made \in Nat /\ made' \in Nat
  BY GenerationsGrow DEF TypeOK, Copy
<1>2. secret \in Sound' /\ Empty \in Sound'
  BY SoundGrows, EmptyIsSound DEF CopiesIn
<1>3. CASE UNCHANGED secretVars
  BY <1>2, <1>3 DEF secretVars
<1>4. CASE MakeFirst
  <2>1. made < MaxGeneration /\ made' = made + 1 /\ secret' = [gen |-> made + 1, prev |-> 0]
    BY <1>4 DEF MakeFirst
  <2>2. secret' \in Copy /\ secret'.gen = made + 1 /\ secret'.prev = 0
    BY <1>1, <2>1 DEF Copy, Generation
  <2>3. made + 1 \in roots'
    BY <1>4, <2>1 DEF MakeFirst
  <2>4. PICK copy \in Copy : copy = secret'
    BY <2>2
  <2>5. ASSUME NEW g \in 1..made', g < copy.gen
        PROVE  g \in Dropped(copy)'
    <3>1. g \in Generation /\ g < made + 1 /\ made + 1 =< copy.gen
      BY <1>1, <2>1, <2>2, <2>4, <2>5 DEF Generation
    <3> QED
      BY <2>3, <3>1 DEF Dropped
  <2>6. copy \in Sound'
    BY <1>1, <2>1, <2>2, <2>4, <2>5 DEF Sound
  <2> QED
    BY <2>4, <2>6
<1>5. ASSUME NEW lost \in BOOLEAN, PatchSecret(lost)
      PROVE  secret' \in Sound'
  <2>1. PICK base \in Copy : base = rotator.base
    BY DEF TypeOK
  <2>2. /\ secret # Empty /\ made < MaxGeneration /\ made' = made + 1
        /\ secret' = [gen |-> made + 1, prev |-> base.gen]
        /\ skipped' = skipped \cup ({secret.gen} \ {base.gen}) /\ UNCHANGED <<aged, roots>>
    BY <1>5, <2>1 DEF PatchSecret, Patch, Rotated
  <2>3. base.gen \in aged /\ (\A g \in aged : g =< base.gen) /\ base.gen =< made
        /\ base.gen \in Generation /\ secret.gen = made
    <3>1. rotator.base \in Sound
      BY DEF CopiesIn
    <3> QED
      BY <1>5, <2>1, <2>2, <3>1 DEF PatchSecret, KnowsAged, Newest, Sound, Copy
  <2>4. secret' \in Copy /\ secret'.gen = made + 1 /\ secret'.prev = base.gen
    BY <1>1, <2>2, <2>3 DEF Copy, Generation
  <2>5. PICK copy \in Copy : copy = secret'
    BY <2>4
  <2>6. ASSUME NEW g \in 1..made', base.gen < g, g < copy.gen
        PROVE  g \in Dropped(copy)'
    <3>1. g \in 1..made /\ g \in Generation
      BY <1>1, <2>2, <2>4, <2>5, <2>6 DEF Generation
    <3>2. g \notin aged
      <4>1. base.gen \in Int
        BY <2>3, EmptyIsCopy
      <4> QED
        BY <2>3, <2>6, <4>1
    <3>3. CASE g = made
      BY <2>2, <2>3, <2>6, <3>3, EmptyIsCopy DEF Dropped
    <3>4. CASE g \in skipped
      BY <2>2, <3>4 DEF Dropped
    <3>5. ASSUME NEW first \in roots, g < first
          PROVE  g \in Dropped(copy)'
      <4>1. first =< copy.gen
        BY <1>1, <2>4, <2>5 DEF Newest
      <4> QED
        BY <2>2, <3>1, <3>5, <4>1 DEF Dropped
    <3> QED
      BY <2>2, <3>1, <3>2, <3>3, <3>4, <3>5 DEF Replaced
  <2>7. copy \in Sound'
    BY <1>1, <2>2, <2>3, <2>4, <2>5, <2>6, EmptyIsCopy DEF Sound
  <2> QED
    BY <2>5, <2>7
<1>6. CASE DeleteSecret
  BY <1>2, <1>6 DEF DeleteSecret
<1>7. CASE PassHalfLife
  BY <1>2, <1>7 DEF PassHalfLife
<1> QED
  BY <1>3, <1>4, <1>5, <1>6, <1>7, SecretSteps

LEMMA NewestStep ==
    ASSUME AcceptInv, [Next]_vars
    PROVE  Newest' /\ Replaced'
<1> USE CertificatesAssumption DEF AcceptInv
<1>1. /\ made \in Nat /\ made' \in Nat /\ made =< made'
      /\ client \in Generation /\ client \in Nat /\ secret.gen \in Generation
  BY GenerationsGrow DEF TypeOK, Generation, Copy
<1>2. client' = client \/ SyncForwarder
  BY DEF Next, ReplicaNext, CheckSecret, CreateSecret, LoadInitially, FailToLoad, Crash, ChangeLeader,
       SyncCache, Reload, Truncate, Write, FailWrite, Watch, Callback, Reconcile, CreateAgain,
       PatchSecret, FailCall, DeleteSecret, PassHalfLife, vars
<1>3. \A g \in aged : g \in Int /\ g >= 0
  BY EmptyIsCopy DEF TypeOK
<1>4. /\ client' \in Nat /\ client' =< made /\ (client' >= client \/ client' = made)
  <2>1. CASE SyncForwarder
    BY <1>1, <2>1 DEF SyncForwarder, Newest
  <2> QED
    BY <1>1, <1>2, <2>1 DEF Newest
<1>5. CASE UNCHANGED secretVars
  BY <1>1, <1>3, <1>4, <1>5 DEF secretVars, faultVars, Newest, Replaced
<1>6. CASE MakeFirst
  <2>1. made' = made + 1 /\ roots' = roots \cup {made + 1} /\ aged' = aged /\ skipped' = skipped
    BY <1>6 DEF MakeFirst
  <2>2. secret' = [gen |-> made + 1, prev |-> 0]
    BY <1>6, <2>1 DEF MakeFirst
  <2>3. Newest'
    BY <1>1, <1>3, <1>4, <2>1, <2>2 DEF Newest
  <2>4. ASSUME NEW g \in 1..made'
        PROVE  g = made' \/ \E first \in roots' : g < first
    BY <1>1, <2>1, <2>4
  <2> QED
    BY <2>3, <2>4 DEF Replaced
<1>7. ASSUME NEW lost \in BOOLEAN, PatchSecret(lost)
      PROVE  Newest' /\ Replaced'
  <2>1. /\ secret # Empty /\ made' = made + 1 /\ roots' = roots /\ aged' = aged
        /\ secret' = [gen |-> made + 1, prev |-> rotator.base.gen]
        /\ skipped' = skipped \cup ({secret.gen} \ {rotator.base.gen})
        /\ rotator.base.gen \in aged
    BY <1>7 DEF PatchSecret, Patch, Rotated, KnowsAged
  <2>2. Newest'
    BY <1>1, <1>3, <1>4, <2>1 DEF Newest
  <2>3. ASSUME NEW g \in 1..made'
        PROVE  \/ g = made' \/ g \in skipped' \/ g \in aged' \/ \E first \in roots' : g < first
    <3>1. CASE g = made
      BY <2>1, <3>1 DEF Newest
    <3>2. CASE g \in 1..made /\ g # made
      BY <2>1, <3>2 DEF Replaced
    <3> QED
      BY <1>1, <2>1, <3>1, <3>2
  <2> QED
    BY <2>2, <2>3 DEF Replaced
<1>8. CASE DeleteSecret
  BY <1>1, <1>3, <1>4, <1>8 DEF DeleteSecret, Newest, Replaced
<1>9. CASE PassHalfLife
  <2>1. /\ secret # Empty /\ client = secret.gen /\ aged' = aged \cup {secret.gen} /\ client' = client
        /\ UNCHANGED <<secret, made, roots, skipped>>
    BY <1>9 DEF PassHalfLife, faultVars
  <2> QED
    BY <1>1, <1>3, <2>1 DEF Newest, Replaced
<1> QED
  BY <1>5, <1>6, <1>7, <1>8, <1>9, SecretSteps

\* Where a running replica's copy comes from.
LEMMA CacheSteps ==
    ASSUME TypeOK, [Next]_vars, NEW r \in Replicas, Running(r)', cache'[r] # Empty
    PROVE  \/ Running(r) /\ cache'[r] = cache[r]
           \/ cache'[r] = secret /\ UNCHANGED secretVars
<1> DEFINE Goal == \/ Running(r) /\ cache'[r] = cache[r]
                   \/ cache'[r] = secret /\ UNCHANGED secretVars
<1> USE DEF Running
<1>1. CASE UNCHANGED <<state, cache>>
  BY <1>1
<1>2. ASSUME NEW p \in Replicas, ReplicaNext(p)
      PROVE  Goal
  <2>1. CASE CheckSecret(p) \/ CreateSecret(p) \/ FailToLoad(p)
    <3>1. cache' = cache /\ \E x \in {"down", "creating", "loading"} : state' = [state EXCEPT ![p] = x]
      BY <2>1 DEF CheckSecret, CreateSecret, FailToLoad
    <3> QED
      BY <3>1 DEF TypeOK
  <2>2. CASE LoadInitially(p)
    BY <2>2 DEF TypeOK, LoadInitially
  <2>3. CASE Crash(p)
    BY <2>3 DEF TypeOK, Crash
  <2>4. CASE SyncCache(p)
    BY <2>4 DEF TypeOK, SyncCache
  <2>5. CASE ChangeLeader(p) \/ Reload(p) \/ Truncate(p) \/ Write(p) \/ FailWrite(p) \/ Watch(p)
              \/ Callback(p)
    BY <1>1, <2>5 DEF ChangeLeader, Reload, Truncate, Write, FailWrite, Watch, Callback
  <2> QED
    BY <1>2, <2>1, <2>2, <2>3, <2>4, <2>5 DEF ReplicaNext
<1>3. CASE Reconcile \/ FailCall \/ \E lost \in BOOLEAN : CreateAgain(lost) \/ PatchSecret(lost)
  BY <1>1, <1>3 DEF Reconcile, FailCall, CreateAgain, PatchSecret
<1>4. CASE DeleteSecret \/ SyncForwarder \/ PassHalfLife \/ UNCHANGED vars
  BY <1>1, <1>4 DEF DeleteSecret, SyncForwarder, PassHalfLife, vars
<1> QED
  BY <1>2, <1>3, <1>4 DEF Next

\* Where the copy comes from that a rotation starts from.
LEMMA RotatorSteps ==
    ASSUME TypeOK, [Next]_vars
    PROVE  \/ rotator' = rotator
           \/ rotator'.pc = "idle"
           \/ /\ Reconcile /\ Running(leader)
              /\ \/ rotator'.pc = "create" /\ cache[leader] = Empty
                 \/ /\ rotator'.pc = "patch" /\ rotator'.base = cache[leader]
                    /\ cache[leader] # Empty /\ cache[leader].gen \in aged
<1>1. IdleRotator.pc = "idle" /\ \A x \in BOOLEAN : [IdleRotator EXCEPT !.again = x].pc = "idle"
  BY DEF IdleRotator
<1>2. ASSUME NEW r \in Replicas, ReplicaNext(r)
      PROVE  rotator' \in {rotator, IdleRotator}
  BY <1>2 DEF ReplicaNext, CheckSecret, CreateSecret, LoadInitially, FailToLoad, Crash,
       ChangeLeader, SyncCache, Reload, Truncate, Write, FailWrite, Watch, Callback
<1>3. CASE Reconcile
  <2>1. [IdleRotator EXCEPT !.pc = "create"].pc = "create"
    BY DEF IdleRotator
  <2> QED
    BY <1>1, <1>3, <2>1 DEF Reconcile, NeedsRotation
<1>4. ASSUME NEW lost \in BOOLEAN, CreateAgain(lost) \/ PatchSecret(lost)
      PROVE  rotator'.pc = "idle"
  BY <1>1, <1>4 DEF CreateAgain, PatchSecret
<1>5. CASE FailCall
  BY <1>1, <1>5 DEF FailCall
<1>6. CASE DeleteSecret \/ SyncForwarder \/ PassHalfLife \/ UNCHANGED vars
  BY <1>6 DEF DeleteSecret, SyncForwarder, PassHalfLife, vars
<1> QED
  BY <1>1, <1>2, <1>3, <1>4, <1>5, <1>6 DEF Next

LEMMA KnowsAgedStep ==
    ASSUME AcceptInv, [Next]_vars
    PROVE  KnowsAged'
<1> USE DEF AcceptInv
<1>1. /\ made \in Nat /\ \A g \in aged : g \in Int /\ g =< made
      /\ secret # Empty => secret.gen = made
  BY GenerationsGrow, EmptyIsCopy DEF TypeOK, Newest
<1>2. CASE PassHalfLife
  <2>1. /\ secret.gen = made /\ aged' = aged \cup {made} /\ rotator.pc = "idle"
        /\ UNCHANGED <<cache, state, rotator>>
    BY <1>1, <1>2 DEF PassHalfLife
  <2>2. \A r \in Replicas : cache[r] = secret
    BY <1>2 DEF PassHalfLife, UpToDate
  <2> QED
    BY <1>1, <2>1, <2>2 DEF KnowsAged
<1>3. CASE ~PassHalfLife
  <2>1. aged' = aged
    <3>1. ASSUME NEW lost \in BOOLEAN, MakeFirst \/ PatchSecret(lost)
          PROVE  aged' = aged
      BY <3>1 DEF MakeFirst, PatchSecret, Patch
    <3> QED
      BY <1>3, <3>1, SecretSteps DEF secretVars, DeleteSecret
  <2>2. ASSUME NEW r \in Replicas, Running(r)', cache'[r] # Empty
        PROVE  \A g \in aged : g =< cache'[r].gen
    <3>1. CASE Running(r) /\ cache'[r] = cache[r]
      BY <2>2, <3>1 DEF KnowsAged
    <3>2. CASE cache'[r] = secret
      BY <1>1, <2>2, <3>2
    <3> QED
      BY <2>2, <3>1, <3>2, CacheSteps
  <2>3. rotator'.pc = "patch" =>
          rotator'.base.gen \in aged /\ \A g \in aged : g =< rotator'.base.gen
    <3>1. CASE rotator' = rotator
      BY <3>1 DEF KnowsAged
    <3>2. CASE /\ Running(leader) /\ rotator'.pc = "patch" /\ rotator'.base = cache[leader]
               /\ cache[leader] # Empty /\ cache[leader].gen \in aged
      BY <3>2 DEF KnowsAged, TypeOK
    <3> QED
      BY <3>1, <3>2, RotatorSteps
  <2> QED
    BY <2>1, <2>2, <2>3 DEF KnowsAged
<1> QED
  BY <1>2, <1>3

LEMMA AcceptStep ==
    ASSUME AcceptInv, [Next]_vars
    PROVE  AcceptInv'
<1>1. TypeOK'
  BY TypeStep DEF AcceptInv
<1>2. PICK Old : Old = Sound
  OBVIOUS
<1>3. PICK New : New = Sound'
  OBVIOUS
<1>4. Old \subseteq New /\ secret' \in New
  BY <1>2, <1>3, SoundGrows, SecretIsSound DEF AcceptInv
<1>5. Empty \in Old /\ CopiesIn(Old)
  BY <1>2, EmptyIsSound DEF AcceptInv
<1>6. /\ rotator'.base \in New
      /\ cache' \in [Replicas -> New] /\ pool' \in [Replicas -> New]
      /\ writer' \in [Replicas -> WriterRecord(New)]
      /\ files' \in [Replicas -> Directory(New)]
  BY <1>4, <1>5, CopiesStay DEF AcceptInv
<1>7. CopiesIn(Sound)'
  BY <1>3, <1>4, <1>6 DEF CopiesIn, WriterRecord, Directory
<1> QED
  BY <1>1, <1>7, NewestStep, KnowsAgedStep DEF AcceptInv

LEMMA InitTypes == Init => TypeOK
<1> SUFFICES ASSUME Init PROVE TypeOK
  OBVIOUS
<1>1. /\ IdleRotator \in RotatorRecord(Copy) /\ IdleWriter \in WriterRecord(Copy)
      /\ NoFiles \in Directory(Copy)
  BY EmptyIsCopy DEF IdleRotator, IdleWriter, NoFiles, RotatorRecord, WriterRecord, Directory
<1>2. PICK w : w = IdleWriter
  OBVIOUS
<1>3. PICK d : d = NoFiles
  OBVIOUS
<1> QED
  BY <1>1, <1>2, <1>3, EmptyIsCopy, CertificatesAssumption
     DEF Init, TypeOK, RotatorRecord, WriterRecord, Directory

LEMMA AcceptInit == Init => AcceptInv
<1> SUFFICES ASSUME Init PROVE AcceptInv
  OBVIOUS
<1>1. TypeOK
  BY InitTypes
<1>2. PICK K : K = Sound
  OBVIOUS
<1>3. Empty \in K
  BY <1>2, EmptyIsCopy DEF Init, Sound
<1>4. CopiesIn(K)
  <2>1. /\ IdleRotator.base = Empty /\ IdleWriter \in WriterRecord(K) /\ NoFiles \in Directory(K)
    BY <1>3 DEF IdleRotator, IdleWriter, NoFiles, WriterRecord, Directory
  <2>2. writer \in [Replicas -> WriterRecord(K)] /\ files \in [Replicas -> Directory(K)]
    BY <2>1 DEF Init
  <2> QED
    BY <1>3, <2>1, <2>2 DEF Init, CopiesIn, WriterRecord, Directory
<1>5. Newest /\ Replaced /\ KnowsAged
  BY EmptyIsCopy DEF Init, Newest, Replaced, KnowsAged, Running, IdleRotator
<1> QED
  BY <1>1, <1>2, <1>4, <1>5 DEF AcceptInv

THEOREM AcceptInvariance == Spec => []AcceptInv
<1>1. AcceptInv /\ [Next]_vars => AcceptInv'
  BY AcceptStep
<1> QED
  BY <1>1, AcceptInit, PTL DEF Spec

\* A forwarder that is no newer than a replica's CAs is accepted, or its CA has
\* gone with a Secret or was skipped by a rotation from an outdated copy.
THEOREM OlderForwarder == Spec => []OlderClientAccepted
<1>1. AcceptInv => OlderClientAccepted
  <2> SUFFICES ASSUME AcceptInv, NEW r \in Replicas, client # 0, client =< pool[r].gen
               PROVE  client \in Bundle(pool[r]) \cup Dropped(pool[r])
    BY DEF OlderClientAccepted
  <2>1. PICK copy \in Sound : copy = pool[r]
    BY DEF AcceptInv, CopiesIn
  <2>2. copy.gen \in Int /\ copy.prev \in Int /\ client \in Int /\ client > 0 /\ made \in Nat
    BY EmptyIsCopy, CertificatesAssumption DEF AcceptInv, TypeOK, Sound, Copy, Generation
  <2>3. CASE client = copy.gen \/ client = copy.prev
    BY <2>1, <2>3 DEF Bundle
  <2>4. CASE client < copy.prev
    <3>1. copy.prev \in aged
      BY <2>1, <2>2, <2>4 DEF Sound
    <3> QED
      BY <2>2, <2>4, <3>1 DEF AcceptInv, Newest
  <2>5. CASE copy.prev < client /\ client < copy.gen
    <3>1. client \in 1..made
      BY <2>2 DEF AcceptInv, Newest
    <3> QED
      BY <2>1, <2>5, <3>1 DEF Sound
  <2> QED
    BY <2>1, <2>2, <2>3, <2>4, <2>5
<1> QED
  BY <1>1, AcceptInvariance, PTL

-----------------------------------------------------------------------------
(* RotationInv: what a rotation starts from. *)

\* A replica runs from its first load to its crash.
LEMMA RunningSteps ==
    ASSUME TypeOK, [Next]_vars, NEW r \in Replicas
    PROVE  /\ Running(r) => Running(r)' \/ Crash(r)
           /\ Running(r)' => Running(r) \/ LoadInitially(r)
<1> DEFINE Goal == /\ Running(r) => Running(r)' \/ Crash(r)
                   /\ Running(r)' => Running(r) \/ LoadInitially(r)
<1> USE DEF Running
<1>1. CASE UNCHANGED state
  BY <1>1
<1>2. ASSUME NEW p \in Replicas, ReplicaNext(p)
      PROVE  Goal
  <2>1. CASE CheckSecret(p)
    BY <2>1 DEF TypeOK, CheckSecret
  <2>2. CASE CreateSecret(p)
    BY <2>2 DEF TypeOK, CreateSecret
  <2>3. CASE LoadInitially(p)
    <3>1. CASE p = r
      BY <2>3, <3>1 DEF LoadInitially
    <3>2. CASE p # r
      BY <2>3, <3>2 DEF TypeOK, LoadInitially
    <3> QED
      BY <3>1, <3>2
  <2>4. CASE FailToLoad(p)
    BY <2>4 DEF TypeOK, FailToLoad
  <2>5. CASE Crash(p)
    <3>1. CASE p = r
      BY <2>5, <3>1 DEF TypeOK, Crash
    <3>2. CASE p # r
      BY <2>5, <3>2 DEF TypeOK, Crash
    <3> QED
      BY <3>1, <3>2
  <2>6. CASE ChangeLeader(p) \/ SyncCache(p) \/ Reload(p) \/ Truncate(p) \/ Write(p) \/ FailWrite(p)
              \/ Watch(p) \/ Callback(p)
    BY <1>1, <2>6 DEF ChangeLeader, SyncCache, Reload, Truncate, Write, FailWrite, Watch, Callback
  <2> QED
    BY <1>2, <2>1, <2>2, <2>3, <2>4, <2>5, <2>6 DEF ReplicaNext
<1>3. CASE Reconcile \/ FailCall \/ \E lost \in BOOLEAN : CreateAgain(lost) \/ PatchSecret(lost)
  BY <1>1, <1>3 DEF Reconcile, FailCall, CreateAgain, PatchSecret
<1>4. CASE DeleteSecret \/ SyncForwarder \/ PassHalfLife \/ UNCHANGED vars
  BY <1>1, <1>4 DEF DeleteSecret, SyncForwarder, PassHalfLife, vars
<1> QED
  BY <1>2, <1>3, <1>4 DEF Next

LeaderRuns == rotator.again \/ rotator.pc # "idle" => Running(leader)

LEMMA LeaderRunsStep ==
    ASSUME TypeOK, LeaderRuns, [Next]_vars
    PROVE  LeaderRuns'
<1>1. IdleRotator.pc = "idle" /\ ~IdleRotator.again
  BY DEF IdleRotator
<1>2. CASE rotator' = IdleRotator
  BY <1>1, <1>2 DEF LeaderRuns
<1>3. CASE ~Crash(leader) /\ leader' = leader /\ Running(leader)
  <2>1. PICK r \in Replicas : r = leader
    BY DEF TypeOK
  <2>2. Running(r)'
    BY <1>3, <2>1, RunningSteps
  <2> QED
    BY <1>3, <2>1, <2>2 DEF LeaderRuns, Running
<1>4. ASSUME NEW p \in Replicas, ReplicaNext(p)
      PROVE  \/ rotator' = IdleRotator
             \/ ~Crash(leader) /\ UNCHANGED <<leader, rotator>>
  <2>1. CASE Crash(leader) \/ ChangeLeader(p)
    BY <2>1 DEF Crash, ChangeLeader
  <2>2. CASE ~Crash(leader) /\ ~ChangeLeader(p)
    <3>1. CASE Crash(p)
      BY <2>2, <3>1 DEF Crash
    <3>2. CASE CheckSecret(p) \/ CreateSecret(p) \/ LoadInitially(p) \/ FailToLoad(p) \/ SyncCache(p)
      BY <2>2, <3>2 DEF CheckSecret, CreateSecret, LoadInitially, FailToLoad, SyncCache
    <3>3. CASE Reload(p) \/ Truncate(p) \/ Write(p) \/ FailWrite(p) \/ Watch(p) \/ Callback(p)
      BY <2>2, <3>3 DEF Reload, Truncate, Write, FailWrite, Watch, Callback
    <3> QED
      BY <1>4, <2>2, <3>1, <3>2, <3>3 DEF ReplicaNext
  <2> QED
    BY <2>1, <2>2
<1>5. CASE Reconcile \/ FailCall \/ \E lost \in BOOLEAN : CreateAgain(lost) \/ PatchSecret(lost)
  <2>1. UNCHANGED <<leader, state>> /\ Running(leader)
    BY <1>5 DEF Reconcile, FailCall, CreateAgain, PatchSecret, LeaderRuns
  <2> QED
    BY <2>1 DEF LeaderRuns, Running
<1>6. CASE DeleteSecret \/ SyncForwarder \/ PassHalfLife \/ UNCHANGED vars
  BY <1>6 DEF DeleteSecret, SyncForwarder, PassHalfLife, vars, LeaderRuns, Running
<1>7. CASE UNCHANGED <<leader, rotator>> /\ ~Crash(leader)
  <2>1. CASE rotator.again \/ rotator.pc # "idle"
    BY <1>3, <1>7, <2>1 DEF LeaderRuns
  <2> QED
    BY <1>7, <2>1 DEF LeaderRuns
<1> QED
  BY <1>2, <1>4, <1>5, <1>6, <1>7 DEF Next

LEMMA FaultFreeStep ==
    ASSUME RotationInv, FaultFree, [Next]_vars, losses' = 0, deletions' = 0
    PROVE  FaultFree'
<1> USE DEF Running
<1>1. /\ TypeOK /\ LeaderRuns /\ made \in Nat /\ losses \in Nat /\ deletions \in Nat
      /\ leader \in Replicas /\ cache \in [Replicas -> Copy]
  BY CertificatesAssumption, GenerationsGrow DEF RotationInv, AcceptInv, LeaderRuns, TypeOK
<1>2. IdleRotator.pc = "idle" /\ ~IdleRotator.again
      /\ [IdleRotator EXCEPT !.again = FALSE].pc = "idle"
      /\ [IdleRotator EXCEPT !.again = TRUE].pc = "idle"
      /\ ~[IdleRotator EXCEPT !.again = FALSE].again
  BY DEF IdleRotator
<1>3. CASE UNCHANGED <<secret, made, skipped, rotator, cache, leader, state>>
  BY <1>3 DEF FaultFree
<1>4. ASSUME NEW p \in Replicas, ReplicaNext(p)
      PROVE  FaultFree'
  <2>1. CASE CheckSecret(p) \/ FailToLoad(p)
    <3>1. UNCHANGED <<secretVars, rotator, cache, leader>>
      BY <2>1 DEF CheckSecret, FailToLoad
    <3>2. \A r \in Replicas : Running(r)' => Running(r)
      <4>1. \A r \in Replicas : ~LoadInitially(r)
        BY <2>1, <1>1 DEF CheckSecret, FailToLoad, LoadInitially, TypeOK
      <4> QED
        BY <1>1, <4>1, RunningSteps
    <3> QED
      BY <3>1, <3>2 DEF FaultFree, secretVars, faultVars
  <2>2. CASE CreateSecret(p)
    <3>1. \A r \in Replicas : Running(r)' => Running(r)
      BY <1>1, <2>2 DEF CreateSecret, TypeOK
    <3>2. CASE MakeFirst
      <4>1. /\ secret = Empty /\ made' = made + 1 /\ secret' = [gen |-> made + 1, prev |-> 0]
            /\ skipped' = skipped /\ UNCHANGED <<rotator, cache, leader>>
        BY <2>2, <3>2 DEF CreateSecret, MakeFirst
      <4>2. made = 0 /\ \A r \in Replicas : ~Running(r)
        BY <4>1, EmptyIsCopy DEF FaultFree
      <4>3. ~rotator.again /\ rotator.pc = "idle"
        BY <1>1, <4>2 DEF LeaderRuns
      <4> QED
        BY <3>1, <4>1, <4>2, <4>3 DEF FaultFree
    <3>3. CASE UNCHANGED secretVars
      BY <2>2, <3>1, <3>3 DEF CreateSecret, FaultFree, secretVars, faultVars
    <3> QED
      BY <2>2, <3>2, <3>3 DEF CreateSecret
  <2>3. CASE LoadInitially(p)
    <3>1. /\ UNCHANGED <<secretVars, rotator, leader>> /\ secret # Empty /\ ~Running(p)
          /\ cache' = [cache EXCEPT ![p] = secret] /\ state' = [state EXCEPT ![p] = "running"]
      BY <2>3 DEF LoadInitially
    <3>2. rotator.again \/ rotator.pc # "idle" => cache'[leader] = cache[leader]
      BY <1>1, <3>1 DEF LeaderRuns
    <3>3. \A r \in Replicas : Running(r)' => cache'[r] # Empty
      BY <1>1, <3>1 DEF FaultFree, TypeOK
    <3> QED
      BY <3>1, <3>2, <3>3 DEF FaultFree, secretVars, faultVars
  <2>4. CASE Crash(p)
    <3>1. /\ UNCHANGED <<secretVars, leader>> /\ cache' = [cache EXCEPT ![p] = Empty]
          /\ state' = [state EXCEPT ![p] = "down"]
          /\ rotator' = IF p = leader THEN IdleRotator ELSE rotator
      BY <2>4 DEF Crash
    <3>2. \A r \in Replicas : Running(r)' => Running(r) /\ cache'[r] = cache[r]
      BY <1>1, <3>1 DEF TypeOK
    <3> QED
      BY <1>1, <1>2, <3>1, <3>2 DEF FaultFree, secretVars, faultVars
  <2>5. CASE ChangeLeader(p)
    BY <1>2, <2>5 DEF ChangeLeader, FaultFree, secretVars, faultVars
  <2>6. CASE SyncCache(p)
    BY <1>1, <2>6 DEF SyncCache, FaultFree, secretVars, faultVars
  <2>7. CASE Reload(p) \/ Truncate(p) \/ Write(p)
    BY <1>3, <2>7 DEF Reload, Truncate, Write, secretVars, faultVars
  <2>8. CASE FailWrite(p) \/ Watch(p) \/ Callback(p)
    BY <1>3, <2>8 DEF FailWrite, Watch, Callback, secretVars, faultVars
  <2> QED
    BY <1>4, <2>1, <2>2, <2>3, <2>4, <2>5, <2>6, <2>7, <2>8 DEF ReplicaNext
<1>5. CASE Reconcile
  <2>1. secret # Empty /\ cache[leader] = secret
    BY <1>1, <1>5 DEF Reconcile, FaultFree
  <2>2. \/ rotator'.pc = "patch" /\ rotator'.base = secret
        \/ rotator'.pc = "idle" /\ ~rotator'.again
    BY <1>2, <1>5, <2>1 DEF Reconcile
  <2> QED
    BY <1>5, <2>1, <2>2 DEF Reconcile, FaultFree, secretVars, faultVars
<1>6. ASSUME NEW lost \in BOOLEAN, CreateAgain(lost)
      PROVE  FALSE
  BY <1>6 DEF CreateAgain, FaultFree
<1>7. ASSUME NEW lost \in BOOLEAN, PatchSecret(lost)
      PROVE  FaultFree'
  <2>1. ~lost
    BY <1>1, <1>7 DEF PatchSecret, Patch, CountLoss
  <2>2. rotator.base = secret /\ secret.gen = made
    BY <1>7 DEF PatchSecret, FaultFree
  <2>3. /\ made' = made + 1 /\ skipped' = {} /\ UNCHANGED <<cache, leader, state>>
        /\ secret' = [gen |-> made + 1, prev |-> made] /\ secret # Empty
        /\ rotator' = [IdleRotator EXCEPT !.again = FALSE]
    BY <1>7, <2>1, <2>2 DEF PatchSecret, Patch, Rotated, FaultFree
  <2>4. secret'.gen = made + 1 /\ secret'.prev = made /\ secret' # Empty
    BY <1>1, <2>3, EmptyIsCopy
  <2> QED
    BY <1>1, <1>2, <2>3, <2>4 DEF FaultFree
<1>8. CASE FailCall
  <2>1. rotator.pc = "patch"
    BY <1>1, <1>8 DEF FailCall, FaultFree, TypeOK
  <2> QED
    BY <1>2, <1>8, <2>1 DEF FailCall, FaultFree, secretVars, faultVars
<1>9. CASE DeleteSecret
  BY <1>1, <1>9 DEF DeleteSecret
<1>10. CASE SyncForwarder \/ PassHalfLife \/ UNCHANGED vars
  BY <1>3, <1>10 DEF SyncForwarder, PassHalfLife, vars, secretVars, faultVars
<1> QED
  BY <1>4, <1>5, <1>6, <1>7, <1>8, <1>9, <1>10 DEF Next

\* Faults are never taken back.
LEMMA FaultsStay ==
    ASSUME TypeOK, [Next]_vars, losses' + deletions' = 0, TypeOK'
    PROVE  losses' = 0 /\ deletions' = 0 /\ losses + deletions = 0
<1>1. losses \in Nat /\ deletions \in Nat /\ losses' \in Nat /\ deletions' \in Nat
  BY CertificatesAssumption DEF TypeOK
<1>2. losses' >= losses /\ deletions' >= deletions
  <2>1. ASSUME NEW lost \in BOOLEAN, MakeFirst, CountLoss(lost)
        PROVE  losses' >= losses /\ deletions' >= deletions
    BY <1>1, <2>1 DEF MakeFirst, CountLoss
  <2>2. ASSUME NEW lost \in BOOLEAN, PatchSecret(lost)
        PROVE  losses' >= losses /\ deletions' >= deletions
    BY <1>1, <2>2 DEF PatchSecret, Patch, CountLoss
  <2> QED
    BY <1>1, <2>1, <2>2, SecretSteps DEF secretVars, faultVars, DeleteSecret, PassHalfLife
<1>3. losses' = 0 /\ deletions' = 0
  <2>1. \A m, n \in Nat : m + n = 0 => m = 0 /\ n = 0
    OBVIOUS
  <2> QED
    BY <1>1, <2>1
<1>4. losses = 0 /\ deletions = 0
  BY <1>1, <1>2, <1>3
<1> QED
  BY <1>3, <1>4

LEMMA RotationStep ==
    ASSUME RotationInv, [Next]_vars
    PROVE  RotationInv'
<1>1. TypeOK /\ LeaderRuns
  BY DEF RotationInv, AcceptInv, LeaderRuns
<1>2. AcceptInv'
  BY AcceptStep DEF RotationInv
<1>3. LeaderRuns'
  BY <1>1, LeaderRunsStep
<1>4. losses' + deletions' = 0 => FaultFree'
  BY <1>1, <1>2, FaultsStay, FaultFreeStep DEF RotationInv, AcceptInv
<1> QED
  BY <1>2, <1>3, <1>4 DEF RotationInv, LeaderRuns

LEMMA RotationInit == Init => RotationInv
<1> SUFFICES ASSUME Init PROVE RotationInv
  OBVIOUS
<1>1. FaultFree
  BY EmptyIsCopy DEF Init, FaultFree, IdleRotator, Running
<1> QED
  BY <1>1, AcceptInit DEF Init, RotationInv, IdleRotator

THEOREM RotationInvariance == Spec => []RotationInv
<1>1. RotationInv /\ [Next]_vars => RotationInv'
  BY RotationStep
<1> QED
  BY <1>1, RotationInit, PTL DEF Spec

\* A rotation leaves the current CA out only after a response was lost or the
\* Secret was deleted: not after an error, a crash or a change of the leader.
THEOREM CurrentIsBundled == Spec => []RotationsChain
<1>1. RotationInv => RotationsChain
  BY CertificatesAssumption DEF RotationInv, AcceptInv, TypeOK, FaultFree, RotationsChain
<1> QED
  BY <1>1, RotationInvariance, PTL

-----------------------------------------------------------------------------
(* CertificateInv: what a replica serves and with which CAs. *)

DownInv(r) == ~Running(r) => writer[r] = IdleWriter /\ ~notify[r]
ServingInv(r) == DiskInv(r) /\ MemoryInv(r) /\ (losses + deletions = 0 => Lag(r))
AgedSettled(r) == Running(r) /\ secret # Empty /\ secret.gen \in aged => UpToDate(r)

LEMMA ReplicaParts ==
    ASSUME NEW r \in Replicas
    PROVE  ReplicaInv(r) <=> DownInv(r) /\ (Running(r) => ServingInv(r)) /\ AgedSettled(r)
BY DEF ReplicaInv, DownInv, ServingInv, AgedSettled

\* The numbers and the copies of a replica.
LEMMA ReplicaFacts ==
    ASSUME AcceptInv, NEW r \in Replicas
    PROVE  /\ made \in Nat /\ written[r] \in Nat /\ serving[r] \in Nat /\ losses \in Nat /\ deletions \in Nat
           /\ secret \in Sound /\ cache[r] \in Sound /\ pool[r] \in Sound
           /\ writer[r].data \in Sound /\ writer[r].at \in 0..3
           /\ files[r]["ca"] \in Sound /\ files[r]["crt"] \in Sound /\ files[r]["key"] \in Sound
           /\ \A k \in Sound :
                /\ k \in Copy /\ k.gen \in Nat /\ k.gen =< made /\ (k.gen = 0 => k = Empty)
                /\ k.gen = made /\ secret # Empty => k = secret
           /\ secret # Empty => secret.gen = made
<1> USE CertificatesAssumption DEF AcceptInv
<1>1. /\ made \in Nat /\ written[r] \in Nat /\ serving[r] \in Nat /\ losses \in Nat /\ deletions \in Nat
      /\ secret # Empty => secret.gen = made
  BY DEF TypeOK, Generation, Newest
<1>2. PICK K : K = Sound
  OBVIOUS
<1>3. CopiesIn(K)
  BY <1>2
<1>4. /\ secret \in K /\ cache[r] \in K /\ pool[r] \in K
      /\ writer[r].data \in K /\ writer[r].at \in 0..3
      /\ files[r]["ca"] \in K /\ files[r]["crt"] \in K /\ files[r]["key"] \in K
  BY <1>3 DEF CopiesIn
<1>5. \A k \in Sound :
        /\ k \in Copy /\ k.gen \in Nat /\ k.gen =< made /\ (k.gen = 0 => k = Empty)
        /\ k.gen = made /\ secret # Empty => k = secret
  BY <1>1 DEF Sound, Copy, Generation
<1> QED
  BY <1>1, <1>2, <1>4, <1>5

LEMMA IdleWriterIsEmpty == IdleWriter.at = 0 /\ IdleWriter.data = Empty
BY DEF IdleWriter

LEMMA FilesOfSecret ==
    ASSUME NEW d, NEW k, d = [f \in DOMAIN NoFiles |-> k]
    PROVE  d["ca"] = k /\ d["crt"] = k /\ d["key"] = k
BY DEF NoFiles

\* A replica that is up to date has nothing to do.
LEMMA NothingToDo ==
    ASSUME NEW r \in Replicas, UpToDate(r)
    PROVE  /\ ~SyncCache(r) /\ ~Reload(r) /\ ~Truncate(r) /\ ~Write(r) /\ ~FailWrite(r)
           /\ ~Watch(r) /\ ~Callback(r)
<1>1. /\ cache[r] = secret /\ writer[r].at = 0 /\ written[r] = secret.gen
      /\ serving[r] = secret.gen /\ ~notify[r] /\ files[r]["crt"] = secret
  BY FilesOfSecret, IdleWriterIsEmpty DEF UpToDate
<1> QED
  BY <1>1 DEF SyncCache, Reload, Truncate, Write, WriteFile, FailWrite, Watch, Callback

\* A replica that is up to date serves what it must.
LEMMA UpToDateServes ==
    ASSUME AcceptInv, NEW r \in Replicas, UpToDate(r), secret # Empty
    PROVE  ServingInv(r)
<1>1. /\ cache[r] = secret /\ writer[r] = IdleWriter /\ written[r] = made /\ serving[r] = made
      /\ ~notify[r] /\ pool[r] = secret /\ secret.gen = made /\ made \in Nat /\ made # 0
      /\ files[r]["ca"] = secret /\ files[r]["crt"] = secret /\ files[r]["key"] = secret
  BY FilesOfSecret, ReplicaFacts DEF UpToDate
<1> QED
  BY <1>1, IdleWriterIsEmpty DEF ServingInv, DiskInv, MemoryInv, Lag

\* What others do, to the Secret too, does not harm a replica.
LEMMA OtherSteps ==
    ASSUME CertificateInv, [Next]_vars, NEW r \in Replicas,
           state'[r] = state[r], cache'[r] = cache[r], writer'[r] = writer[r], files'[r] = files[r],
           written'[r] = written[r], serving'[r] = serving[r], notify'[r] = notify[r],
           pool'[r] = pool[r]
    PROVE  ReplicaInv(r)'
<1>1. RotationInv /\ AcceptInv /\ TypeOK /\ ReplicaInv(r)
  BY DEF CertificateInv, RotationInv, AcceptInv
<1>2. Running(r)' <=> Running(r)
  BY DEF Running
<1>3. DownInv(r)'
  BY <1>1, <1>2 DEF ReplicaInv, DownInv
<1>4. TypeOK'
  BY <1>1, TypeStep
<1>5. losses' + deletions' = 0 => losses + deletions = 0
  BY <1>1, <1>4, FaultsStay
<1>6. made \in Nat /\ \A g \in aged : g \in Int /\ g =< made
  BY <1>1, ReplicaFacts, EmptyIsCopy DEF AcceptInv, Newest, TypeOK
<1>7. ASSUME made' = made, Running(r)
      PROVE  ServingInv(r)'
  BY <1>1, <1>5, <1>7 DEF ReplicaInv, ServingInv, DiskInv, MemoryInv, Lag
<1>8. ASSUME made' = made + 1, Running(r), losses' + deletions' = 0 => UpToDate(r)
      PROVE  ServingInv(r)'
  <2>1. /\ files[r]["key"].gen = written[r] /\ written[r] =< made /\ serving[r] =< made
        /\ written[r] \in Nat /\ serving[r] \in Nat
    BY <1>1, <1>8, ReplicaFacts DEF ReplicaInv, DiskInv, MemoryInv
  <2>2. DiskInv(r)'
    BY <1>1, <1>6, <1>8, <2>1 DEF ReplicaInv, DiskInv
  <2>3. MemoryInv(r)'
    BY <1>1, <1>6, <1>8, <2>1 DEF ReplicaInv, MemoryInv
  <2>4. ASSUME losses' + deletions' = 0
        PROVE  Lag(r)'
    <3>1. /\ UpToDate(r) /\ FaultFree
      BY <1>1, <1>5, <1>8, <2>4 DEF RotationInv
    <3>2. /\ written[r] = made /\ serving[r] = made /\ pool[r].gen = made /\ files[r]["ca"].gen = made
      BY <3>1, FilesOfSecret DEF UpToDate, FaultFree
    <3> QED
      BY <1>6, <1>8, <3>2 DEF Lag
  <2> QED
    BY <2>2, <2>3, <2>4 DEF ServingInv
<1>9. CASE UNCHANGED secretVars
  <2>1. AgedSettled(r)'
    BY <1>1, <1>2, <1>9 DEF ReplicaInv, AgedSettled, UpToDate, secretVars
  <2> QED
    BY <1>2, <1>3, <1>7, <1>9, <2>1 DEF ReplicaInv, DownInv, ServingInv, AgedSettled, secretVars
<1>10. CASE MakeFirst
  <2>1. /\ secret = Empty /\ made' = made + 1 /\ aged' = aged /\ secret'.gen = made + 1
    BY <1>10 DEF MakeFirst
  <2>2. losses' + deletions' = 0 => ~Running(r)
    BY <1>1, <1>5, <2>1 DEF RotationInv, FaultFree
  <2>3. AgedSettled(r)'
    BY <1>6, <2>1 DEF AgedSettled
  <2> QED
    BY <1>2, <1>3, <1>8, <2>1, <2>2, <2>3 DEF ReplicaInv, DownInv, ServingInv, AgedSettled
<1>11. ASSUME NEW lost \in BOOLEAN, PatchSecret(lost)
       PROVE  ReplicaInv(r)'
  <2>1. /\ secret # Empty /\ made' = made + 1 /\ aged' = aged /\ secret'.gen = made + 1
        /\ rotator.pc = "patch" /\ rotator.base.gen \in aged
    BY <1>1, <1>11 DEF PatchSecret, Patch, Rotated, AcceptInv, KnowsAged
  <2>2. losses' + deletions' = 0 /\ Running(r) => UpToDate(r)
    BY <1>1, <1>5, <2>1 DEF RotationInv, FaultFree, ReplicaInv
  <2>3. AgedSettled(r)'
    BY <1>6, <2>1 DEF AgedSettled
  <2> QED
    BY <1>2, <1>3, <1>8, <2>1, <2>2, <2>3 DEF ReplicaInv, DownInv, ServingInv, AgedSettled
<1>12. CASE DeleteSecret
  <2>1. AgedSettled(r)'
    BY <1>12 DEF DeleteSecret, AgedSettled
  <2> QED
    BY <1>2, <1>3, <1>7, <1>12, <2>1 DEF ReplicaInv, DownInv, ServingInv, AgedSettled, DeleteSecret
<1>13. CASE PassHalfLife
  <2>1. UpToDate(r) /\ secret' = secret /\ made' = made
    BY <1>13 DEF PassHalfLife
  <2>2. AgedSettled(r)'
    BY <1>2, <2>1 DEF AgedSettled, UpToDate
  <2> QED
    BY <1>2, <1>3, <1>7, <2>1, <2>2 DEF ReplicaInv, DownInv, ServingInv, AgedSettled
<1> QED
  BY <1>9, <1>10, <1>11, <1>12, <1>13, SecretSteps

\* The steps a running replica takes on its own copies, between them: the Secret
\* stays, and the replica was not up to date or still is.
LEMMA OwnStep ==
    ASSUME CertificateInv, NEW r \in Replicas, Running(r), Running(r)', UNCHANGED secretVars,
           ~UpToDate(r), ServingInv(r)'
    PROVE  ReplicaInv(r)'
<1>1. ~(secret # Empty /\ secret.gen \in aged)
  BY DEF CertificateInv, ReplicaInv
<1>2. ~(secret # Empty /\ secret.gen \in aged)'
  BY <1>1 DEF secretVars
<1> QED
  BY <1>2 DEF ReplicaInv, ServingInv

LEMMA ReplicaSteps ==
    ASSUME CertificateInv, TypeOK', AcceptInv', NEW r \in Replicas, ReplicaNext(r)
    PROVE  ReplicaInv(r)'
<1>1. AcceptInv /\ TypeOK /\ ReplicaInv(r)
  BY DEF CertificateInv, RotationInv, AcceptInv
<1>2. /\ state \in [Replicas -> {"down", "creating", "loading", "running"}]
      /\ writer \in [Replicas -> WriterRecord(Copy)] /\ files \in [Replicas -> Directory(Copy)]
      /\ cache \in [Replicas -> Copy] /\ pool \in [Replicas -> Copy]
      /\ written \in [Replicas -> Generation] /\ serving \in [Replicas -> Generation]
      /\ notify \in [Replicas -> BOOLEAN]
  BY <1>1 DEF TypeOK, WriterRecord, Directory
<1>3. ASSUME ~Running(r), ~Running(r)', writer' = writer, notify' = notify
      PROVE  ReplicaInv(r)'
  BY <1>1, <1>3 DEF ReplicaInv
<1>4. CASE CheckSecret(r) \/ CreateSecret(r) \/ FailToLoad(r)
  <2>1. /\ state[r] # "running" /\ writer' = writer /\ notify' = notify
        /\ \E x \in {"down", "creating", "loading"} : state' = [state EXCEPT ![r] = x]
    BY <1>4 DEF CheckSecret, CreateSecret, FailToLoad, diskVars, memoryVars
  <2>2. state'[r] # "running"
    BY <1>2, <2>1
  <2> QED
    BY <1>3, <2>1, <2>2 DEF Running
<1>5. CASE LoadInitially(r)
  <2>1. PICK d : d = [f \in DOMAIN NoFiles |-> secret]
    OBVIOUS
  <2>2. /\ state[r] = "loading" /\ secret # Empty /\ UNCHANGED <<secretVars, writer, notify>>
        /\ state' = [state EXCEPT ![r] = "running"] /\ cache' = [cache EXCEPT ![r] = secret]
        /\ files' = [files EXCEPT ![r] = d] /\ written' = [written EXCEPT ![r] = secret.gen]
        /\ serving' = [serving EXCEPT ![r] = secret.gen] /\ pool' = [pool EXCEPT ![r] = secret]
    BY <1>5, <2>1 DEF LoadInitially
  <2>3. writer[r] = IdleWriter /\ ~notify[r]
    BY <1>1, <2>2 DEF ReplicaInv, Running
  <2>4. secret' = secret
    BY <2>2 DEF secretVars
  <2>5. /\ state'[r] = "running" /\ cache'[r] = secret /\ files'[r] = d /\ written'[r] = secret.gen
        /\ serving'[r] = secret.gen /\ pool'[r] = secret
    BY <1>2, <2>2
  <2>6. UpToDate(r)'
    BY <2>1, <2>2, <2>3, <2>4, <2>5 DEF UpToDate, Running
  <2>7. ServingInv(r)'
    <3>1. /\ made' \in Nat /\ made' # 0 /\ secret'.gen = made'
          /\ cache'[r] = secret' /\ writer'[r].at = 0 /\ writer'[r].data = Empty
          /\ written'[r] = made' /\ serving'[r] = made'
          /\ ~notify'[r] /\ pool'[r] = secret'
          /\ files'[r]["ca"] = secret' /\ files'[r]["crt"] = secret' /\ files'[r]["key"] = secret'
      <4>1. /\ made \in Nat /\ made # 0 /\ secret.gen = made /\ made' = made
        BY <1>1, <2>2, ReplicaFacts DEF secretVars
      <4> QED
        BY <2>1, <2>2, <2>3, <2>4, <2>5, <4>1, FilesOfSecret, IdleWriterIsEmpty
    <3>2. DiskInv(r)'
      BY <3>1 DEF DiskInv
    <3>3. MemoryInv(r)'
      BY <3>1 DEF MemoryInv
    <3>4. Lag(r)'
      <4>1. \A m \in Nat : m >= m - 1
        OBVIOUS
      <4> QED
        BY <3>1, <4>1 DEF Lag
    <3> QED
      BY <3>2, <3>3, <3>4 DEF ServingInv
  <2> QED
    BY <2>2, <2>5, <2>6, <2>7 DEF ReplicaInv, ServingInv, Running
<1>6. CASE Crash(r)
  BY <1>2, <1>6 DEF Crash, ReplicaInv, Running
<1>7. CASE ChangeLeader(r)
  <2>1. [Next]_vars
    BY <1>7 DEF Next, ReplicaNext
  <2> QED
    BY <1>7, <2>1, OtherSteps DEF ChangeLeader, diskVars, memoryVars
<1>8. ASSUME Running(r), UNCHANGED <<secretVars, state>>, ServingInv(r)', ~UpToDate(r)
      PROVE  ReplicaInv(r)'
  BY <1>8, OwnStep DEF Running
<1>9. /\ made \in Nat /\ written[r] \in Nat /\ serving[r] \in Nat
      /\ secret \in Sound /\ cache[r] \in Sound /\ pool[r] \in Sound
      /\ writer[r].data \in Sound /\ writer[r].at \in 0..3
      /\ files[r]["ca"] \in Sound /\ files[r]["crt"] \in Sound /\ files[r]["key"] \in Sound
      /\ \A k \in Sound :
           /\ k \in Copy /\ k.gen \in Nat /\ k.gen =< made /\ (k.gen = 0 => k = Empty)
           /\ k.gen = made /\ secret # Empty => k = secret
      /\ secret # Empty => secret.gen = made
  BY <1>1, ReplicaFacts
<1>10. CASE SyncCache(r)
  <2>1. /\ Running(r) /\ cache'[r] = secret /\ UNCHANGED <<secretVars, state, diskVars, memoryVars>>
    BY <1>2, <1>10 DEF SyncCache
  <2>2. ServingInv(r)
    BY <1>1, <2>1 DEF ReplicaInv, ServingInv
  <2>3. ServingInv(r)'
    BY <1>9, <2>1, <2>2 DEF ServingInv, DiskInv, MemoryInv, Lag, secretVars, faultVars, diskVars, memoryVars
  <2> QED
    BY <1>8, <1>10, <2>1, <2>3, NothingToDo
<1>11. CASE Reload(r)
  <2>1. PICK w : w = [at |-> 1, data |-> cache[r]]
    OBVIOUS
  <2>2. w.at = 1 /\ w.data = cache[r]
    BY <2>1
  <2>3. /\ Running(r) /\ writer[r].at = 0 /\ cache[r] # Empty /\ cache[r].gen # written[r]
        /\ writer'[r] = w /\ UNCHANGED <<secretVars, cache, state, files, written, memoryVars>>
    BY <1>2, <1>11, <2>1 DEF Reload
  <2>4. ServingInv(r)
    BY <1>1, <2>3 DEF ReplicaInv, ServingInv
  <2>5. ServingInv(r)'
    BY <1>9, <2>2, <2>3, <2>4
       DEF ServingInv, DiskInv, MemoryInv, Lag, secretVars, faultVars, memoryVars
  <2> QED
    BY <1>8, <1>11, <2>3, <2>5, NothingToDo
<1>12. CASE Truncate(r)
  <2>1. PICK d \in Directory(Copy) : d = files[r]
    BY <1>2
  <2>2. PICK x : x = [d EXCEPT !["ca"] = Empty]
    OBVIOUS
  <2>3. x["ca"] = Empty /\ x["crt"] = d["crt"] /\ x["key"] = d["key"]
    BY <2>2 DEF Directory
  <2>4. writer[r].at = 1
    BY <1>9, <1>12, OrderOfFiles DEF Truncate
  <2>5. /\ Running(r) /\ files'[r] = x
        /\ UNCHANGED <<secretVars, cache, state, writer, written, memoryVars>>
    BY <1>2, <1>12, <2>1, <2>2 DEF Truncate
  <2>6. ServingInv(r)
    BY <1>1, <2>5 DEF ReplicaInv, ServingInv
  <2>7. ServingInv(r)'
    BY <1>9, <2>1, <2>3, <2>4, <2>5, <2>6
       DEF ServingInv, DiskInv, MemoryInv, Lag, secretVars, faultVars, memoryVars
  <2> QED
    BY <1>8, <1>12, <2>5, <2>7, NothingToDo
<1>13. CASE Write(r)
  <2>1. PICK w \in WriterRecord(Copy) : w = writer[r]
    BY <1>2
  <2>2. PICK d \in Directory(Copy) : d = files[r]
    BY <1>2
  <2>3. w.at \in 1..3 /\ Running(r) /\ UNCHANGED <<secretVars, cache, state, memoryVars>>
    BY <1>13, <2>1 DEF Write, WriteFile, WriterRecord
  <2>4. PICK f \in {"ca", "crt", "key"} : f = Order[w.at]
    BY <2>3, OrderOfFiles
  <2>5. PICK x : x = [d EXCEPT ![f] = w.data]
    OBVIOUS
  <2>6. x[f] = w.data /\ \A e \in {"ca", "crt", "key"} : e # f => x[e] = d[e]
    BY <2>5 DEF Directory
  <2>7. files'[r] = x
    BY <1>2, <1>13, <2>1, <2>2, <2>4, <2>5 DEF Write, WriteFile
  <2>8. ServingInv(r)
    BY <1>1, <2>3 DEF ReplicaInv, ServingInv
  <2>9. CASE w.at = 3
    <3>1. f = "key" /\ writer'[r] = IdleWriter /\ written'[r] = w.data.gen
      BY <1>2, <1>13, <2>1, <2>4, <2>9, OrderOfFiles DEF Write
    <3>2. ServingInv(r)'
      BY <1>9, <2>1, <2>2, <2>3, <2>6, <2>7, <2>8, <2>9, <3>1, IdleWriterIsEmpty
         DEF ServingInv, DiskInv, MemoryInv, Lag, secretVars, faultVars, memoryVars
    <3> QED
      BY <1>8, <1>13, <2>3, <3>2, NothingToDo
  <2>10. CASE w.at # 3
    <3>1. PICK y : y = [w EXCEPT !.at = w.at + 1]
      OBVIOUS
    <3>2. y.at = w.at + 1 /\ y.data = w.data
      BY <2>3, <3>1 DEF WriterRecord
    <3>3. writer'[r] = y /\ written' = written /\ f = IF w.at = 1 THEN "ca" ELSE "crt"
      BY <1>2, <1>13, <2>1, <2>3, <2>4, <2>10, <3>1, OrderOfFiles DEF Write
    <3>4. ServingInv(r)'
      BY <1>9, <2>1, <2>2, <2>3, <2>6, <2>7, <2>8, <2>10, <3>2, <3>3
         DEF ServingInv, DiskInv, MemoryInv, Lag, secretVars, faultVars, memoryVars
    <3> QED
      BY <1>8, <1>13, <2>3, <3>4, NothingToDo
  <2> QED
    BY <2>9, <2>10
<1>14. CASE FailWrite(r)
  <2>1. /\ Running(r) /\ writer'[r] = IdleWriter
        /\ UNCHANGED <<secretVars, cache, state, files, written, memoryVars>>
    BY <1>2, <1>14 DEF FailWrite
  <2>2. ServingInv(r)
    BY <1>1, <2>1 DEF ReplicaInv, ServingInv
  <2>3. ServingInv(r)'
    BY <1>9, <2>1, <2>2, IdleWriterIsEmpty
       DEF ServingInv, DiskInv, MemoryInv, Lag, secretVars, faultVars, memoryVars
  <2> QED
    BY <1>8, <1>14, <2>1, <2>3, NothingToDo
<1>15. CASE Watch(r)
  <2>1. /\ Running(r) /\ files[r]["crt"].gen = files[r]["key"].gen /\ files[r]["crt"] # Empty
        /\ serving'[r] = files[r]["crt"].gen /\ notify'[r]
        /\ UNCHANGED <<secretVars, cache, state, diskVars, pool>>
    BY <1>2, <1>15 DEF Watch
  <2>2. ServingInv(r)
    BY <1>1, <2>1 DEF ReplicaInv, ServingInv
  <2>3. ServingInv(r)'
    BY <1>9, <2>1, <2>2 DEF ServingInv, DiskInv, MemoryInv, Lag, secretVars, faultVars, diskVars
  <2> QED
    BY <1>8, <1>15, <2>1, <2>3, NothingToDo
<1>16. CASE Callback(r)
  <2>1. /\ Running(r) /\ ~notify'[r]
        /\ pool'[r] = IF files[r]["ca"] = Empty THEN pool[r] ELSE files[r]["ca"]
        /\ UNCHANGED <<secretVars, cache, state, diskVars, serving>>
    BY <1>2, <1>16 DEF Callback
  <2>2. ServingInv(r)
    BY <1>1, <2>1 DEF ReplicaInv, ServingInv
  <2>3. ServingInv(r)'
    BY <1>9, <2>1, <2>2, EmptyIsCopy
       DEF ServingInv, DiskInv, MemoryInv, Lag, secretVars, faultVars, diskVars
  <2> QED
    BY <1>8, <1>16, <2>1, <2>3, NothingToDo
<1> QED
  BY <1>4, <1>5, <1>6, <1>7, <1>10, <1>11, <1>12, <1>13, <1>14, <1>15, <1>16 DEF ReplicaNext

LEMMA CertificateStep ==
    ASSUME CertificateInv, [Next]_vars
    PROVE  CertificateInv'
<1>1. RotationInv /\ TypeOK
  BY DEF CertificateInv, RotationInv, AcceptInv
<1>2. RotationInv' /\ AcceptInv' /\ TypeOK'
  BY <1>1, RotationStep, TypeStep DEF RotationInv
<1>3. ASSUME NEW r \in Replicas
      PROVE  ReplicaInv(r)'
  <2>1. CASE ReplicaNext(r)
    BY <1>2, <2>1, ReplicaSteps
  <2>2. ASSUME NEW p \in Replicas, ReplicaNext(p), p # r
        PROVE  ReplicaInv(r)'
    <3>1. /\ state'[r] = state[r] /\ cache'[r] = cache[r] /\ writer'[r] = writer[r]
          /\ files'[r] = files[r] /\ written'[r] = written[r] /\ serving'[r] = serving[r]
          /\ notify'[r] = notify[r] /\ pool'[r] = pool[r]
      <4>1. /\ DOMAIN state = Replicas /\ DOMAIN cache = Replicas /\ DOMAIN writer = Replicas
            /\ DOMAIN files = Replicas /\ DOMAIN written = Replicas /\ DOMAIN serving = Replicas
            /\ DOMAIN notify = Replicas /\ DOMAIN pool = Replicas
        BY <1>1 DEF TypeOK
      <4>2. CASE CheckSecret(p) \/ CreateSecret(p) \/ FailToLoad(p) \/ ChangeLeader(p) \/ SyncCache(p)
        BY <2>2, <4>1, <4>2
           DEF CheckSecret, CreateSecret, FailToLoad, ChangeLeader, SyncCache, diskVars, memoryVars
      <4>3. CASE LoadInitially(p) \/ Crash(p)
        BY <2>2, <4>1, <4>3 DEF LoadInitially, Crash
      <4>4. CASE Reload(p) \/ FailWrite(p) \/ Watch(p) \/ Callback(p)
        BY <2>2, <4>1, <4>4 DEF Reload, FailWrite, Watch, Callback, diskVars, memoryVars
      <4>5. CASE Truncate(p)
        <5>1. \E d : files' = [files EXCEPT ![p] = d]
          BY <4>5 DEF Truncate
        <5> QED
          BY <2>2, <4>1, <4>5, <5>1 DEF Truncate, memoryVars
      <4>6. CASE Write(p)
        <5>1. \E d : files' = [files EXCEPT ![p] = d]
          BY <4>6 DEF Write, WriteFile
        <5>2. \E w : writer' = [writer EXCEPT ![p] = w]
          BY <4>6 DEF Write
        <5>3. written' = written \/ \E g : written' = [written EXCEPT ![p] = g]
          BY <4>6 DEF Write
        <5> QED
          BY <2>2, <4>1, <4>6, <5>1, <5>2, <5>3 DEF Write, memoryVars
      <4> QED
        BY <2>2, <4>2, <4>3, <4>4, <4>5, <4>6 DEF ReplicaNext
    <3> QED
      BY <3>1, OtherSteps
  <2>3. CASE Reconcile \/ FailCall \/ \E lost \in BOOLEAN : CreateAgain(lost) \/ PatchSecret(lost)
    <3>1. UNCHANGED <<state, cache, diskVars, memoryVars>>
      BY <2>3 DEF Reconcile, FailCall, CreateAgain, PatchSecret
    <3> QED
      BY <3>1, OtherSteps DEF diskVars, memoryVars
  <2>4. CASE DeleteSecret \/ SyncForwarder \/ PassHalfLife \/ UNCHANGED vars
    <3>1. UNCHANGED <<state, cache, diskVars, memoryVars>>
      BY <2>4 DEF DeleteSecret, SyncForwarder, PassHalfLife, vars
    <3> QED
      BY <3>1, OtherSteps DEF diskVars, memoryVars
  <2> QED
    BY <2>1, <2>2, <2>3, <2>4 DEF Next
<1> QED
  BY <1>2, <1>3 DEF CertificateInv

LEMMA CertificateInit == Init => CertificateInv
<1> SUFFICES ASSUME Init PROVE CertificateInv
  OBVIOUS
<1>1. ASSUME NEW r \in Replicas
      PROVE  ReplicaInv(r)
  BY <1>1 DEF Init, ReplicaInv, Running
<1> QED
  BY <1>1, RotationInit DEF CertificateInv

THEOREM CertificateInvariance == Spec => []CertificateInv
<1>1. CertificateInv /\ [Next]_vars => CertificateInv'
  BY CertificateStep
<1> QED
  BY <1>1, CertificateInit, PTL DEF Spec

\* When the watcher's callback is through, the CA that signed the served
\* certificate is in memory; after a fault at least if that certificate is the
\* Secret's.
THEOREM ServedIsVerified == Spec => []PoolHasServingCA
<1>1. CertificateInv => PoolHasServingCA
  <2> SUFFICES ASSUME CertificateInv, NEW r \in Replicas, Running(r), ~notify[r],
                      losses + deletions = 0 \/ serving[r] = secret.gen
               PROVE  serving[r] \in Bundle(pool[r])
    BY DEF PoolHasServingCA, CertificateInv, RotationInv, AcceptInv
  <2>1. AcceptInv /\ RotationInv /\ MemoryInv(r) /\ (losses + deletions = 0 => Lag(r))
    BY DEF CertificateInv, RotationInv, ReplicaInv
  <2>2. CASE serving[r] = made
    BY <2>1, <2>2 DEF MemoryInv, Bundle
  <2>3. CASE serving[r] = secret.gen
    <3>1. secret # Empty
      BY <2>1, <2>3, EmptyIsCopy DEF MemoryInv
    <3>2. secret.gen = made
      BY <2>1, <3>1 DEF AcceptInv, Newest
    <3> QED
      BY <2>2, <2>3, <3>2
  <2>4. CASE losses + deletions = 0 /\ serving[r] # made
    <3>1. FaultFree /\ secret # Empty
      BY <2>1, <2>4 DEF RotationInv, FaultFree
    <3>2. /\ made \in Nat /\ serving[r] \in Nat /\ pool[r].gen \in Nat /\ pool[r].gen =< made
          /\ pool[r].gen = made => pool[r] = secret
      BY <2>1, <3>1, ReplicaFacts
    <3>3. serving[r] = made - 1 /\ serving[r] # 0 /\ pool[r].gen >= made - 1
      BY <2>1, <2>4, <3>2 DEF MemoryInv, Lag
    <3>4. CASE pool[r].gen = made - 1
      BY <3>3, <3>4 DEF Bundle
    <3>5. CASE pool[r].gen = made
      BY <3>1, <3>2, <3>3, <3>5 DEF FaultFree, Bundle
    <3> QED
      BY <3>2, <3>3, <3>4, <3>5
  <2> QED
    BY <2>2, <2>3, <2>4
<1> QED
  BY <1>1, CertificateInvariance, PTL
=============================================================================
