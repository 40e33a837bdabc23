---------------------------- MODULE LiquidQuota ----------------------------
(***************************************************************************)
(* internal/liquidserver: Limes reads and sets a project's quota of        *)
(* clusters through the liquid API server, which works on its own cache,   *)
(* while webhooks and operator provision the project.                      *)
(***************************************************************************)
EXTENDS ProjectResources, FiniteSetsExt

CONSTANTS
    Wanted,      \* the quotas Limes may want
    Requests,    \* SetQuotas in progress at once: Limes may have given up on some
    MaxChanges   \* bound: how often Limes changes its mind

ASSUME WantedAssumption == Wanted \subseteq Nat /\ Wanted # {} /\ MaxChanges \in Nat

VARIABLES
    want,     \* the quota Limes wants
    report,   \* what ScanUsage reported last
    patch,    \* the value the PATCH of each SetQuota in progress carries
    acked,    \* the value of the last SetQuota that succeeded
    changes

limesVars == <<want, report, patch, acked, changes>>
vars == <<provisionVars, limesVars>>

Clamp(v) == Min({v, MaxQuota})

\* Reports without a quota.
Unscanned == -2
Forbidden == -3
ScanError == -4

TypeOK ==
    /\ ProvisionTypeOK
    /\ want \in Wanted /\ report \in ScanError..MaxQuota
    /\ patch \in [Requests -> Quota] /\ acked \in Quota
    /\ changes \in 0..MaxChanges

Init ==
    /\ ProvisionInit
    /\ want \in Wanted /\ report = Unscanned
    /\ patch = [q \in Requests |-> NoQuota]
    /\ acked = NoQuota /\ changes = 0

View == cache[Liquid]

-----------------------------------------------------------------------------
\* External: Limes derives another quota for the project.
ChangeWanted(v) ==
    /\ changes < MaxChanges /\ v # want
    /\ want' = v /\ changes' = changes + 1
    /\ UNCHANGED <<provisionVars, report, patch, acked>>

\* ScanUsage: a missing namespace means an unused project, a missing
\* ResourceQuota is an error.
ScanUsage ==
    /\ report' = CASE "namespace" \notin View.objects     -> Forbidden
                   [] "namespace" \in View.objects /\ "resourceQuota" \notin View.objects -> ScanError
                   [] OTHER                               -> View.quota
    /\ report' # report
    /\ UNCHANGED <<provisionVars, want, patch, acked, changes>>

Desired == Clamp(want)

\* Mutant of UpToDate: any quota will do.
UpToDateOnceSet == View.quota # NoQuota

\* The patch would change nothing.
UpToDate == View.quota = Desired

\* Limes sets a quota that differs from the reported one, unless that was
\* forbidden.  SetQuota needs namespace and ResourceQuota in the cache (422
\* otherwise) and patches the latter if the cached value differs.
SetQuota(q) ==
    /\ report \in 0..MaxQuota /\ report # want
    /\ patch[q] = NoQuota /\ {"namespace", "resourceQuota"} \subseteq View.objects
    /\ IF UpToDate
       THEN acked' = Desired /\ UNCHANGED patch
       ELSE patch' = [patch EXCEPT ![q] = Desired] /\ UNCHANGED acked
    /\ UNCHANGED <<provisionVars, want, report, changes>>

\* The PATCHes of two requests may arrive in either order.
PatchQuota(q) ==
    /\ patch[q] # NoQuota
    /\ quota' = patch[q] /\ acked' = patch[q]
    /\ patch' = [patch EXCEPT ![q] = NoQuota]
    /\ UNCHANGED <<named, objects, cache, step, event, want, report, changes>>

FailSetQuota(q) ==
    /\ patch[q] # NoQuota
    /\ patch' = [patch EXCEPT ![q] = NoQuota]
    /\ UNCHANGED <<provisionVars, want, report, acked, changes>>

LimesNext ==
    \/ \E v \in Wanted : ChangeWanted(v)
    \/ ScanUsage
    \/ \E q \in Requests : SetQuota(q) \/ PatchQuota(q) \/ FailSetQuota(q)

Next == (ProvisionNext /\ UNCHANGED limesVars) \/ LimesNext

Spec == Init /\ [][Next]_vars

-----------------------------------------------------------------------------
\* The default is set on the initial creation of the ResourceQuota only, Limes
\* owns the value after that, whatever the caches of the provisioners show
\* (second invariant of ReconcileGardenerProjectResources, line 69).
LimesOwnsQuota == [][quota # NoQuota /\ quota' # quota => \E q \in Requests : quota' = patch[q]]_vars

\* Provisioners never leave a gap: what exists is a prefix of Kinds, so that a
\* ResourceQuota vouches for role and role binding.
WithoutGaps(kinds) == \A i \in DOMAIN Kinds : Kinds[i] \in kinds => \A j \in 1..i : Kinds[j] \in kinds
NoGaps == TypeOK /\ WithoutGaps(objects)

\* What makes NoGaps inductive: who is at an object has its predecessors behind
\* it, be it that it created them or that its cache showed them; caches only lag;
\* and the ResourceQuota has a quota from the start.
QuotaInv ==
    /\ NoGaps
    /\ \A r \in Readers : /\ cache[r].objects \subseteq objects
                          /\ cache[r].quota = NoQuota <=> "resourceQuota" \notin cache[r].objects
    /\ \A p \in Provisioners : \A j \in 1..step[p] - 1 : Kinds[j] \in objects
    /\ quota = NoQuota <=> "resourceQuota" \notin objects
    /\ \A q \in Requests : patch[q] # NoQuota => "resourceQuota" \in objects

\* "There is no valid state where the namespace exists but the ResourceQuota
\* does not" (lines 66-68 of gardener.go).
NamespaceHasQuota == "namespace" \in objects => "resourceQuota" \in objects

\* A SetQuota that succeeded has set the quota (line 126 of logic.go).
SetQuotaTakesEffect == acked # NoQuota => quota = acked

\* Calls do not fail for ever; caches catch up; the operator retries; Limes
\* scans and sets again and again.
Fairness ==
    /\ <>[][\A p \in Provisioners : Fail(p) => CreateOrPatch(p)]_vars
    /\ <>[][\A q \in Requests : ~FailSetQuota(q)]_vars
    /\ <>[][Restart => ReconcileProject]_vars
    /\ \A r \in Readers : WF_vars(SyncCache(r) /\ UNCHANGED limesVars)
    /\ WF_vars(ReconcileProject /\ UNCHANGED limesVars)
    /\ \A p \in Provisioners : WF_vars(CreateOrPatch(p) /\ UNCHANGED limesVars)
    /\ WF_vars(ScanUsage)
    /\ WF_vars(\E q \in Requests : SetQuota(q))
    /\ WF_vars(\E q \in Requests : PatchQuota(q))

FairSpec == Spec /\ Fairness

\* A Project, once created, gets its ResourceQuota even if nobody logs in again:
\* the operator finishes what a webhook began, if it can read the project's name
\* off the namespace (project/reconciler.go:75-78).
ProjectGetsQuota == named /\ "project" \in objects ~> "resourceQuota" \in objects

\* The operator finishes every project.
EveryProjectGetsQuota == "project" \in objects ~> "resourceQuota" \in objects

\* The quota becomes, and stays, what Limes wants, although SetQuota may skip
\* the patch because of a stale cache, and one that Limes gave up on may arrive
\* after the next.
QuotaConverges ==
    \A v \in Wanted :
      []("resourceQuota" \in objects /\ want = v => <>[](quota = Clamp(v)) \/ <>(want # v))
=============================================================================
