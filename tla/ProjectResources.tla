-------------------------- MODULE ProjectResources --------------------------
(***************************************************************************)
(* ReconcileGardenerProjectResources: what a first login to a project      *)
(* creates in the garden cluster, one object after the other.  Webhook     *)
(* replicas run it for every token they review, the operator's project     *)
(* controller for every new Project; each reads from its own cache.        *)
(***************************************************************************)
EXTENDS Integers, Sequences

CONSTANTS
    Webhooks,      \* token reviews in progress: one per webhook replica
    Operator,      \* the operator's project controller
    Liquid,        \* the liquid API server, which reads the same objects
    DefaultQuota,  \* defaultShootQuota of the configuration
    MaxQuota       \* the greatest int64

ASSUME QuotaAssumption == MaxQuota \in Nat /\ DefaultQuota \in 0..MaxQuota

Provisioners == Webhooks \cup {Operator}
Readers == Provisioners \cup {Liquid}

VARIABLES
    named,    \* the project's name leaves something of it in a label
    objects,  \* the kinds of objects that exist
    quota,    \* .spec.hard of the ResourceQuota
    cache,    \* each reader's informer copy of [objects, quota]
    step,     \* which object a provisioner is at, 0 when it is at none
    event     \* the Project is in the operator's work queue

provisionVars == <<named, objects, quota, cache, step, event>>

Kinds == <<"namespace", "project", "role", "roleBinding", "resourceQuota">>
Kind == {Kinds[i] : i \in DOMAIN Kinds}
NoQuota == -1
Quota == {NoQuota} \cup 0..MaxQuota

ProvisionTypeOK ==
    /\ named \in BOOLEAN /\ objects \subseteq Kind /\ quota \in Quota
    /\ cache \in [Readers -> [objects : SUBSET Kind, quota : Quota]]
    /\ step \in [Provisioners -> 0..Len(Kinds)]
    /\ event \in BOOLEAN

ProvisionInit ==
    /\ named \in BOOLEAN /\ objects = {} /\ quota = NoQuota
    /\ cache = [r \in Readers |-> [objects |-> {}, quota |-> NoQuota]]
    /\ step = [p \in Provisioners |-> 0]
    /\ event = FALSE

-----------------------------------------------------------------------------
\* The token webhook has validated a token for the project.
ReviewToken(w) ==
    /\ step[w] = 0
    /\ step' = [step EXCEPT ![w] = 1]
    /\ UNCHANGED <<named, objects, quota, cache, event>>

\* project Reconciler.Reconcile reads Project and namespace from the cache
\* before it provisions; if the namespace is not there yet, it is retried, and
\* retried for ever if OpenStackUserInfoFromLabels finds an empty label there.
ReconcileProject ==
    /\ event /\ step[Operator] = 0 /\ named
    /\ "project" \in cache[Operator].objects /\ "namespace" \in cache[Operator].objects
    /\ event' = FALSE
    /\ step' = [step EXCEPT ![Operator] = 1]
    /\ UNCHANGED <<named, objects, quota, cache>>

\* Mutant of MutatedQuota: the default is set on every call.
MutatedQuotaAlways(cached) == DefaultQuota

\* What the mutate function makes of a cached ResourceQuota: nothing, its
\* creation timestamp is set.
MutatedQuota(cached) == cached

\* Mutant of Abort: the operator's reconcile returns no error.
AbortSilently(p) == step' = [step EXCEPT ![p] = 0] /\ UNCHANGED event

\* A provisioner stops; the operator's work queue keeps the Project.
Abort(p) == event' = (event \/ p = Operator) /\ step' = [step EXCEPT ![p] = 0]

\* CreateOrPatch of the object a provisioner is at: get it from the cache,
\* create it or patch what the mutate function changed.
CreateOrPatch(p) ==
    /\ step[p] # 0
    /\ LET kind == Kinds[step[p]]
           cached == kind \in cache[p].objects
           created == ~cached /\ kind \notin objects
           patched == cached /\ kind = "resourceQuota" /\ MutatedQuota(cache[p].quota) # cache[p].quota
       IN /\ objects' = IF created THEN objects \cup {kind} ELSE objects
          /\ quota' = CASE created /\ kind = "resourceQuota" -> DefaultQuota
                        [] patched -> MutatedQuota(cache[p].quota)
                        [] OTHER -> quota
          /\ IF cached \/ created
             THEN /\ step' = [step EXCEPT ![p] = (@ + 1) % (Len(Kinds) + 1)]
                  /\ UNCHANGED event
             ELSE Abort(p)  \* AlreadyExists
    /\ UNCHANGED <<named, cache>>

\* Mutant of Fail: the error of a call is not returned.
FailIgnored(p) ==
    /\ step[p] # 0
    /\ step' = [step EXCEPT ![p] = (@ + 1) % (Len(Kinds) + 1)]
    /\ UNCHANGED <<named, objects, quota, cache, event>>

Fail(p) ==
    /\ step[p] # 0
    /\ Abort(p)
    /\ UNCHANGED <<named, objects, quota, cache>>

\* A cache catches up; the operator's has a Create event for a new Project.
SyncCache(r) ==
    LET current == [objects |-> objects, quota |-> quota] IN
    /\ cache[r] # current
    /\ cache' = [cache EXCEPT ![r] = current]
    /\ event' = (event \/ (r = Operator /\ "project" \in objects \ cache[r].objects))
    /\ UNCHANGED <<named, objects, quota, step>>

\* The operator restarts: every Project gets a Create event.
Restart ==
    /\ cache' = [cache EXCEPT ![Operator] = [objects |-> objects, quota |-> quota]]
    /\ event' = ("project" \in objects)
    /\ step' = [step EXCEPT ![Operator] = 0]
    /\ UNCHANGED <<named, objects, quota>>

ProvisionNext ==
    \/ \E w \in Webhooks : ReviewToken(w)
    \/ \E p \in Provisioners : CreateOrPatch(p) \/ Fail(p)
    \/ \E r \in Readers : SyncCache(r)
    \/ ReconcileProject \/ Restart
=============================================================================
