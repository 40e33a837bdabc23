------------------------- MODULE LiquidQuota_proofs -------------------------
(***************************************************************************)
(* The provisioning of a project and its quota, for any number of webhook  *)
(* replicas and of requests of Limes: the objects have no gaps, and only   *)
(* Limes changes a quota that is set.                                      *)
(***************************************************************************)
EXTENDS LiquidQuota, TLAPS

\* QuotaInv, part by part.
ReaderInv(r) ==
    /\ cache[r].objects \subseteq objects
    /\ cache[r].quota = NoQuota <=> "resourceQuota" \notin cache[r].objects
ProvisionerInv(p) == \A j \in 1..step[p] - 1 : Kinds[j] \in objects
ProvisionInv ==
    /\ ProvisionTypeOK /\ WithoutGaps(objects)
    /\ \A r \in Readers : ReaderInv(r)
    /\ \A p \in Provisioners : ProvisionerInv(p)
    /\ quota = NoQuota <=> "resourceQuota" \notin objects
LimesTypeOK ==
    /\ want \in Wanted /\ report \in ScanError..MaxQuota
    /\ patch \in [Requests -> Quota] /\ acked \in Quota
    /\ changes \in 0..MaxChanges
LimesInv == LimesTypeOK /\ \A q \in Requests : patch[q] # NoQuota => "resourceQuota" \in objects

LEMMA Parts == QuotaInv <=> ProvisionInv /\ LimesInv
BY DEF QuotaInv, NoGaps, TypeOK, ProvisionInv, LimesInv, LimesTypeOK, ReaderInv, ProvisionerInv

-----------------------------------------------------------------------------
(* Operators. *)

\* The objects in the order of their creation.
LEMMA KindsInOrder ==
    /\ DOMAIN Kinds = 1..5 /\ Len(Kinds) = 5
    /\ \A i \in 1..5 : Kinds[i] \in Kind
    /\ \A i, j \in 1..5 : Kinds[i] = Kinds[j] => i = j
    /\ \A i \in 1..5 : Kinds[i] = "resourceQuota" <=> i = 5
    /\ "resourceQuota" \in Kind
<1>1. /\ DOMAIN Kinds = 1..5 /\ Len(Kinds) = 5
      /\ Kinds[1] = "namespace" /\ Kinds[2] = "project" /\ Kinds[3] = "role"
      /\ Kinds[4] = "roleBinding" /\ Kinds[5] = "resourceQuota"
  BY DEF Kinds
<1>2. \A i \in 1..5 : i = 1 \/ i = 2 \/ i = 3 \/ i = 4 \/ i = 5
  OBVIOUS
<1>3. \A i \in 1..5 : Kinds[i] = "resourceQuota" <=> i = 5
  BY <1>1, <1>2
<1>4. \A i, j \in 1..5 : Kinds[i] = Kinds[j] => i = j
  BY <1>1, <1>2
<1>5. \A i \in 1..5 : Kinds[i] \in Kind
  BY <1>1 DEF Kind
<1> QED
  BY <1>1, <1>3, <1>4, <1>5

\* What Limes wants fits into a ResourceQuota once it is clamped.
LEMMA ClampFits == \A v \in Nat : Clamp(v) \in 0..MaxQuota
<1> SUFFICES ASSUME NEW v \in Nat PROVE Clamp(v) \in 0..MaxQuota
  OBVIOUS
<1>1. PICK m \in {v, MaxQuota} : \A y \in {v, MaxQuota} : m =< y
  BY QuotaAssumption
<1>2. Clamp(v) \in {v, MaxQuota} /\ \A y \in {v, MaxQuota} : Clamp(v) =< y
  BY <1>1 DEF Clamp, Min
<1> QED
  BY <1>2, QuotaAssumption

LEMMA Limits == NoQuota \in Quota /\ 0..MaxQuota \subseteq Quota /\ NoQuota \notin 0..MaxQuota
BY DEF NoQuota, Quota

\* A new object at the place its provisioner is at leaves no gap.
LEMMA NextKind ==
    ASSUME NEW kinds, NEW k \in 1..5, WithoutGaps(kinds), \A j \in 1..k - 1 : Kinds[j] \in kinds
    PROVE  WithoutGaps(kinds \cup {Kinds[k]})
<1> SUFFICES ASSUME NEW i \in 1..5, Kinds[i] \in kinds \cup {Kinds[k]}, NEW j \in 1..i
             PROVE  Kinds[j] \in kinds \cup {Kinds[k]}
  BY KindsInOrder DEF WithoutGaps
<1>1. CASE Kinds[i] \in kinds
  BY <1>1, KindsInOrder DEF WithoutGaps
<1>2. CASE Kinds[i] = Kinds[k]
  <2>1. i = k
    BY <1>2, KindsInOrder
  <2> QED
    BY <2>1
<1> QED
  BY <1>1, <1>2

-----------------------------------------------------------------------------
(* The provisioners. *)

\* What CreateOrPatch does: it finds the object, creates it, or hits a conflict.
LEMMA CreateOrPatchCases ==
    ASSUME ProvisionInv, NEW p \in Provisioners, CreateOrPatch(p)
    PROVE  /\ step[p] \in 1..5 /\ UNCHANGED cache
           /\ \/ /\ Kinds[step[p]] \in cache[p].objects
                 /\ UNCHANGED <<objects, quota, event>>
                 /\ step' = [step EXCEPT ![p] = (step[p] + 1) % 6]
              \/ /\ Kinds[step[p]] \notin objects /\ objects' = objects \cup {Kinds[step[p]]}
                 /\ quota' = IF step[p] = 5 THEN DefaultQuota ELSE quota
                 /\ UNCHANGED event
                 /\ step' = [step EXCEPT ![p] = (step[p] + 1) % 6]
              \/ UNCHANGED <<objects, quota>> /\ Abort(p)
<1>1. step[p] \in 1..5 /\ UNCHANGED cache
  <2>1. step \in [Provisioners -> 0..5]
    BY KindsInOrder DEF ProvisionInv, ProvisionTypeOK
  <2> QED
    BY <2>1 DEF CreateOrPatch
<1> DEFINE kind == Kinds[step[p]]
           cached == kind \in cache[p].objects
           created == ~cached /\ kind \notin objects
<1>2. /\ objects' = IF created THEN objects \cup {kind} ELSE objects
      /\ quota' = IF created /\ kind = "resourceQuota" THEN DefaultQuota ELSE quota
      /\ IF cached \/ created
         THEN step' = [step EXCEPT ![p] = (step[p] + 1) % 6] /\ UNCHANGED event
         ELSE Abort(p)
  BY KindsInOrder DEF CreateOrPatch, MutatedQuota
<1>3. kind = "resourceQuota" <=> step[p] = 5
  BY <1>1, KindsInOrder
<1> QED
  BY <1>1, <1>2, <1>3

\* A step of one provisioner, from the places of all.
LEMMA ProvisionerMoves ==
    ASSUME ProvisionInv, NEW p \in Provisioners, NEW k \in 0..5, step' = [step EXCEPT ![p] = k],
           UNCHANGED <<named, cache>>, event' \in BOOLEAN, quota' \in Quota,
           objects \subseteq objects', objects' \subseteq Kind, WithoutGaps(objects)',
           quota' = NoQuota <=> "resourceQuota" \notin objects',
           \A j \in 1..k - 1 : Kinds[j] \in objects'
    PROVE  ProvisionInv'
<1>1. step \in [Provisioners -> 0..5] /\ Len(Kinds) = 5
  BY KindsInOrder DEF ProvisionInv, ProvisionTypeOK
<1>2. step' \in [Provisioners -> 0..5] /\ \A o \in Provisioners : step'[o] = IF o = p THEN k ELSE step[o]
  BY <1>1
<1>3. ProvisionTypeOK'
  BY <1>1, <1>2 DEF ProvisionInv, ProvisionTypeOK
<1>4. \A r \in Readers : ReaderInv(r)'
  BY DEF ProvisionInv, ReaderInv
<1>5. ASSUME NEW o \in Provisioners PROVE ProvisionerInv(o)'
  <2>1. CASE o = p
    BY <1>2, <2>1 DEF ProvisionerInv
  <2>2. CASE o # p
    <3>1. step'[o] = step[o] /\ ProvisionerInv(o)
      BY <1>2, <2>2 DEF ProvisionInv
    <3> QED
      BY <3>1 DEF ProvisionerInv
  <2> QED
    BY <2>1, <2>2
<1> QED
  BY <1>3, <1>4, <1>5 DEF ProvisionInv

LEMMA CreateOrPatchKeeps ==
    ASSUME ProvisionInv, NEW p \in Provisioners, CreateOrPatch(p)
    PROVE  ProvisionInv' /\ objects \subseteq objects'
<1> DEFINE k == step[p]
           next == (k + 1) % 6
<1>1. /\ k \in 1..5 /\ UNCHANGED <<named, cache>> /\ event \in BOOLEAN /\ quota \in Quota /\ objects \subseteq Kind
      /\ Kinds[k] \in Kind /\ (Kinds[k] = "resourceQuota" <=> k = 5)
  BY CreateOrPatchCases, KindsInOrder DEF ProvisionInv, ProvisionTypeOK, CreateOrPatch
<1>2. next \in 0..5 /\ (next = 0 \/ next = k + 1)
  BY <1>1
<1>3. /\ WithoutGaps(objects) /\ \A j \in 1..k - 1 : Kinds[j] \in objects
      /\ quota = NoQuota <=> "resourceQuota" \notin objects
  BY DEF ProvisionInv, ProvisionerInv
<1>4. ASSUME Kinds[k] \in objects' , objects \subseteq objects'
      PROVE  \A j \in 1..next - 1 : Kinds[j] \in objects'
  <2>1. \A j \in 1..next - 1 : j = k \/ j \in 1..k - 1
    BY <1>1, <1>2
  <2> QED
    BY <1>3, <1>4, <2>1
<1> HIDE DEF next
<1>5. CASE /\ Kinds[k] \in cache[p].objects
           /\ UNCHANGED <<objects, quota, event>>
           /\ step' = [step EXCEPT ![p] = next]
  <2>1. Kinds[k] \in objects
    BY <1>5 DEF ProvisionInv, ReaderInv, Readers
  <2>2. WithoutGaps(objects)' /\ objects' = objects /\ quota' = quota /\ event' = event
    BY <1>3, <1>5 DEF WithoutGaps
  <2>3. \A j \in 1..next - 1 : Kinds[j] \in objects'
    BY <1>4, <2>1, <2>2
  <2> QED
    BY <1>1, <1>2, <1>3, <1>5, <2>2, <2>3, ProvisionerMoves
<1>6. CASE /\ Kinds[k] \notin objects /\ objects' = objects \cup {Kinds[k]}
           /\ quota' = IF k = 5 THEN DefaultQuota ELSE quota
           /\ UNCHANGED event
           /\ step' = [step EXCEPT ![p] = next]
  <2>1. WithoutGaps(objects)'
    BY <1>1, <1>3, <1>6, NextKind DEF WithoutGaps
  <2>2. quota' \in Quota /\ (quota' = NoQuota <=> "resourceQuota" \notin objects')
    BY <1>1, <1>3, <1>6, QuotaAssumption, Limits
  <2>3. \A j \in 1..next - 1 : Kinds[j] \in objects'
    BY <1>4, <1>6
  <2>4. objects \subseteq objects' /\ objects' \subseteq Kind
    BY <1>1, <1>6
  <2> QED
    BY <1>1, <1>2, <1>6, <2>1, <2>2, <2>3, <2>4, ProvisionerMoves
<1>7. CASE UNCHANGED <<objects, quota>> /\ Abort(p)
  <2>1. step' = [step EXCEPT ![p] = 0] /\ event' \in BOOLEAN
    BY <1>1, <1>7 DEF Abort
  <2>2. WithoutGaps(objects)' /\ objects' = objects /\ quota' = quota
    BY <1>3, <1>7 DEF WithoutGaps
  <2>3. 0 \in 0..5 /\ \A j \in 1..0 - 1 : Kinds[j] \in objects'
    OBVIOUS
  <2> QED
    BY <1>1, <1>3, <2>1, <2>2, <2>3, ProvisionerMoves
<1> QED
  BY <1>5, <1>6, <1>7, CreateOrPatchCases DEF next

\* A step of a provisioner that creates nothing.
LEMMA OtherStepsKeep ==
    ASSUME ProvisionInv,
           \/ \E w \in Webhooks : ReviewToken(w)
           \/ \E p \in Provisioners : Fail(p)
           \/ ReconcileProject
    PROVE  ProvisionInv' /\ UNCHANGED objects
<1>1. /\ event \in BOOLEAN /\ quota \in Quota /\ objects \subseteq Kind /\ WithoutGaps(objects)
      /\ quota = NoQuota <=> "resourceQuota" \notin objects
  BY DEF ProvisionInv, ProvisionTypeOK
<1>2. PICK p \in Provisioners, k \in {0, 1} :
        step' = [step EXCEPT ![p] = k] /\ event' \in BOOLEAN /\ UNCHANGED <<named, objects, quota, cache>>
  BY <1>1 DEF ReviewToken, Fail, Abort, ReconcileProject, Provisioners
<1>3. k \in 0..5 /\ \A j \in 1..k - 1 : Kinds[j] \in objects'
  OBVIOUS
<1>4. WithoutGaps(objects)'
  BY <1>1, <1>2 DEF WithoutGaps
<1> QED
  BY <1>1, <1>2, <1>3, <1>4, ProvisionerMoves

\* A reader's cache shows the objects as they are.
LEMMA CacheKeeps ==
    ASSUME ProvisionInv, (\E r \in Readers : SyncCache(r)) \/ Restart
    PROVE  ProvisionInv' /\ UNCHANGED objects
<1> DEFINE current == [objects |-> objects, quota |-> quota]
<1>1. PICK r \in Readers :
        cache' = [cache EXCEPT ![r] = current] /\ event' \in BOOLEAN /\ UNCHANGED <<named, objects, quota>>
  <2>1. CASE \E r \in Readers : SyncCache(r)
    <3>1. PICK r \in Readers : SyncCache(r)
      BY <2>1
    <3> QED
      BY <3>1 DEF SyncCache
  <2>2. CASE Restart
    <3>1. Operator \in Readers
      BY DEF Readers, Provisioners
    <3>2. cache' = [cache EXCEPT ![Operator] = current] /\ UNCHANGED <<named, objects, quota>>
      BY <2>2 DEF Restart
    <3>3. event' \in BOOLEAN
      BY <2>2 DEF Restart
    <3> QED
      BY <3>1, <3>2, <3>3
  <2> QED
    BY <2>1, <2>2
<1>2. /\ step' \in [Provisioners -> 0..5]
      /\ \A p \in Provisioners : step'[p] = 0 \/ step'[p] = step[p]
  <2>1. step \in [Provisioners -> 0..5] /\ Operator \in Provisioners
    BY KindsInOrder DEF ProvisionInv, ProvisionTypeOK, Provisioners
  <2> QED
    BY <2>1 DEF SyncCache, Restart
<1>3. ProvisionTypeOK'
  BY <1>1, <1>2, KindsInOrder DEF ProvisionInv, ProvisionTypeOK
<1>4. ASSUME NEW o \in Readers PROVE ReaderInv(o)'
  <2>1. cache'[o] = IF o = r THEN current ELSE cache[o]
    BY <1>1 DEF ProvisionInv, ProvisionTypeOK
  <2> QED
    BY <1>1, <2>1 DEF ReaderInv, ProvisionInv
<1>5. ASSUME NEW o \in Provisioners PROVE ProvisionerInv(o)'
  <2>1. ProvisionerInv(o) /\ (step'[o] = 0 \/ step'[o] = step[o]) /\ objects' = objects
    BY <1>1, <1>2 DEF ProvisionInv
  <2> QED
    BY <2>1 DEF ProvisionerInv
<1> QED
  BY <1>1, <1>3, <1>4, <1>5 DEF ProvisionInv, WithoutGaps

LEMMA ProvisionStep ==
    ASSUME ProvisionInv, ProvisionNext
    PROVE  ProvisionInv' /\ objects \subseteq objects'
BY CreateOrPatchKeeps, OtherStepsKeep, CacheKeeps DEF ProvisionNext

-----------------------------------------------------------------------------
(* Limes. *)

LEMMA ProvisionUnchanged == ProvisionInv /\ UNCHANGED provisionVars => ProvisionInv'
BY DEF ProvisionInv, ProvisionTypeOK, ReaderInv, ProvisionerInv, WithoutGaps, provisionVars

LEMMA LimesStep ==
    ASSUME ProvisionInv, LimesInv, LimesNext
    PROVE  ProvisionInv' /\ LimesInv'
<1> USE WantedAssumption, QuotaAssumption
<1>1. LimesTypeOK /\ cache[Liquid].objects \subseteq objects /\ cache[Liquid].quota \in Quota
  BY DEF LimesInv, ProvisionInv, ReaderInv, Readers, ProvisionTypeOK
<1>2. CASE \E v \in Wanted : ChangeWanted(v)
  <2>1. PICK v \in Wanted : ChangeWanted(v)
    BY <1>2
  <2>2. ProvisionInv'
    BY <2>1, ProvisionUnchanged DEF ChangeWanted
  <2> QED
    BY <1>1, <2>1, <2>2 DEF ChangeWanted, LimesInv, LimesTypeOK, provisionVars
<1>3. CASE ScanUsage
  <2>1. UNCHANGED <<provisionVars, want, patch, acked, changes>>
    BY <1>3 DEF ScanUsage
  <2>2. report' \in ScanError..MaxQuota
    <3>1. report' \in {Forbidden, ScanError, View.quota}
      BY <1>3 DEF ScanUsage
    <3>2. View.quota \in -4..MaxQuota
      BY <1>1 DEF View, Quota, NoQuota
    <3> QED
      BY <3>1, <3>2 DEF Forbidden, ScanError
  <2>3. ProvisionInv'
    BY <2>1, ProvisionUnchanged
  <2> QED
    BY <1>1, <2>1, <2>2, <2>3 DEF LimesInv, LimesTypeOK, provisionVars
<1>4. CASE \E q \in Requests : SetQuota(q)
  <2>1. PICK q \in Requests : SetQuota(q)
    BY <1>4
  <2>2. /\ UNCHANGED <<provisionVars, want, report, changes>> /\ "resourceQuota" \in objects
        /\ \/ acked' = Desired /\ UNCHANGED patch
           \/ patch' = [patch EXCEPT ![q] = Desired] /\ UNCHANGED acked
    BY <1>1, <2>1 DEF SetQuota, View
  <2>3. Desired \in Quota
    BY <1>1, ClampFits, Limits DEF Desired, LimesTypeOK
  <2>4. ProvisionInv'
    BY <2>2, ProvisionUnchanged
  <2>5. LimesTypeOK'
    BY <1>1, <2>2, <2>3 DEF LimesTypeOK
  <2> QED
    BY <2>2, <2>4, <2>5 DEF LimesInv, provisionVars
<1>5. CASE \E q \in Requests : PatchQuota(q)
  <2>1. PICK q \in Requests : PatchQuota(q)
    BY <1>5
  <2>2. /\ patch[q] # NoQuota /\ quota' = patch[q] /\ acked' = patch[q]
        /\ patch' = [patch EXCEPT ![q] = NoQuota]
        /\ UNCHANGED <<named, objects, cache, step, event, want, report, changes>>
    BY <2>1 DEF PatchQuota
  <2>3. patch[q] \in Quota /\ "resourceQuota" \in objects
    BY <1>1, <2>2 DEF LimesInv, LimesTypeOK
  <2>4. ProvisionInv'
    BY <2>2, <2>3 DEF ProvisionInv, ProvisionTypeOK, ReaderInv, ProvisionerInv, WithoutGaps
  <2>5. LimesTypeOK'
    BY <1>1, <2>2, <2>3, Limits DEF LimesTypeOK
  <2> QED
    BY <2>2, <2>3, <2>4, <2>5 DEF LimesInv
<1>6. CASE \E q \in Requests : FailSetQuota(q)
  <2>1. PICK q \in Requests : FailSetQuota(q)
    BY <1>6
  <2>2. /\ patch' = [patch EXCEPT ![q] = NoQuota]
        /\ UNCHANGED <<provisionVars, want, report, acked, changes>>
    BY <2>1 DEF FailSetQuota
  <2>3. ProvisionInv'
    BY <2>2, ProvisionUnchanged
  <2>4. LimesTypeOK'
    BY <1>1, <2>2, Limits DEF LimesTypeOK
  <2> QED
    BY <1>1, <2>2, <2>3, <2>4 DEF LimesInv, LimesTypeOK, provisionVars
<1> QED
  BY <1>2, <1>3, <1>4, <1>5, <1>6 DEF LimesNext

-----------------------------------------------------------------------------

LEMMA Start == Init => QuotaInv
<1> SUFFICES ASSUME Init PROVE ProvisionInv /\ LimesInv
  BY Parts
<1>1. /\ named \in BOOLEAN /\ objects = {} /\ quota = NoQuota /\ event = FALSE
      /\ cache = [r \in Readers |-> [objects |-> {}, quota |-> NoQuota]]
      /\ step = [p \in Provisioners |-> 0]
  BY DEF Init, ProvisionInit
<1>2. ProvisionTypeOK
  <2>1. [objects |-> {}, quota |-> NoQuota] \in [objects : SUBSET Kind, quota : Quota]
    BY Limits
  <2>2. cache \in [Readers -> [objects : SUBSET Kind, quota : Quota]]
    BY <1>1, <2>1
  <2>3. step \in [Provisioners -> 0..Len(Kinds)]
    BY <1>1, KindsInOrder
  <2> QED
    BY <1>1, <2>2, <2>3, Limits DEF ProvisionTypeOK
<1>3. ProvisionInv
  BY <1>1, <1>2 DEF ProvisionInv, WithoutGaps, ReaderInv, ProvisionerInv
<1>4. /\ want \in Wanted /\ report = Unscanned /\ acked = NoQuota /\ changes = 0
      /\ patch = [q \in Requests |-> NoQuota]
  BY DEF Init
<1>5. report \in ScanError..MaxQuota /\ changes \in 0..MaxChanges
  BY <1>4, WantedAssumption, QuotaAssumption DEF ScanError, Unscanned
<1>6. LimesInv
  BY <1>4, <1>5, Limits DEF LimesInv, LimesTypeOK
<1> QED
  BY <1>3, <1>6

LEMMA Step == QuotaInv /\ [Next]_vars => QuotaInv'
<1> SUFFICES ASSUME ProvisionInv, LimesInv, [Next]_vars PROVE QuotaInv'
  BY Parts
<1>1. CASE ProvisionNext /\ UNCHANGED limesVars
  <2>1. ProvisionInv' /\ objects \subseteq objects'
    BY <1>1, ProvisionStep
  <2>2. LimesInv'
    BY <1>1, <2>1 DEF LimesInv, LimesTypeOK, limesVars
  <2> QED
    BY <2>1, <2>2 DEF QuotaInv, NoGaps, TypeOK, ProvisionInv, LimesInv, LimesTypeOK, ReaderInv, ProvisionerInv
<1>2. CASE LimesNext
  BY <1>2, LimesStep DEF QuotaInv, NoGaps, TypeOK, ProvisionInv, LimesInv, LimesTypeOK, ReaderInv, ProvisionerInv
<1>3. CASE UNCHANGED vars
  BY <1>3 DEF vars, provisionVars, limesVars, QuotaInv, NoGaps, TypeOK, WithoutGaps, ProvisionInv, ProvisionTypeOK, LimesInv, LimesTypeOK, ReaderInv, ProvisionerInv
<1> QED
  BY <1>1, <1>2, <1>3 DEF Next

LEMMA Always == Spec => []QuotaInv
BY Start, Step, PTL DEF Spec

\* However many webhook replicas and the operator provision a project at once,
\* with whatever caches, failures and restarts: what exists is a prefix of Kinds
\* (ReconcileGardenerProjectResources).
THEOREM ProvisionedInOrder == Spec => []NoGaps
<1>1. QuotaInv => NoGaps
  BY DEF QuotaInv
<1> QED
  BY <1>1, Always, PTL

\* A quota that is set is changed by a PATCH of Limes and by nothing else: no
\* provisioner sets the default again (ReconcileGardenerProjectResources, line 69).
THEOREM LimesOwns == Spec => LimesOwnsQuota
<1>1. ASSUME QuotaInv, [Next]_vars, quota # NoQuota, quota' # quota
      PROVE  \E q \in Requests : quota' = patch[q]
  <2>1. ProvisionInv /\ "resourceQuota" \in objects
    BY <1>1, Parts DEF ProvisionInv
  <2>2. CASE ProvisionNext
    <3>1. ASSUME NEW p \in Provisioners, CreateOrPatch(p) PROVE quota' = quota
      BY <2>1, <3>1, CreateOrPatchCases, KindsInOrder
    <3> QED
      BY <1>1, <2>2, <3>1 DEF ProvisionNext, ReviewToken, Fail, SyncCache, ReconcileProject, Restart
  <2>3. CASE LimesNext
    BY <1>1, <2>3 DEF LimesNext, ChangeWanted, ScanUsage, SetQuota, PatchQuota, FailSetQuota, provisionVars
  <2> QED
    BY <1>1, <2>2, <2>3 DEF Next, vars, provisionVars
<1> QED
  BY <1>1, Always, PTL DEF Spec, LimesOwnsQuota
=============================================================================
