--------------------------- MODULE AuditDelivery ----------------------------
(***************************************************************************)
(* internal/webhook/audithandler: the virtual garden's API server posts    *)
(* batches of audit events; the handler filters each event, finds the      *)
(* region it belongs to and hands it to that region's auditor.  The first  *)
(* event it cannot handle fails the whole batch, which the API server      *)
(* sends again, from the start, until it gives the batch up.  A request    *)
(* the API server has stopped waiting for is processed to its end all the  *)
(* same, beside the next attempt.                                          *)
(***************************************************************************)
EXTENDS Naturals, Sequences

CONSTANTS
    Batches,
    Samples,      \* the events batches are made of
    BatchSize,    \* bound: events of a batch
    Regions,      \* the regions the configuration lists
    Audited,      \* the enabled ones, which have an auditor
    Foreign,      \* a region name the configuration does not list
    None,         \* no region, or a user who is not of OpenStack
    MaxAttempts,  \* how often the API server sends a batch
    MaxFaults     \* bound: time-outs and crashes of the handler

\* user and impersonated (empty if nobody is) stand for the Extra fields: the
\* region of an OpenStack user, or None for any other.  An empty region fares as
\* one that has no auditor.  request is the region of the Shoot in the object, None
\* if there is no object or it names no region; response the same, empty if there
\* is no object.
Event ==
    [resource : {"shoots", "other"}, stage : {"ResponseComplete", "RequestReceived"},
     subresource : {"", "adminkubeconfig", "status"},
     verb : {"create", "patch", "delete", "get"},
     user : Regions \cup {None},
     impersonated : {{}} \cup {{u} : u \in Regions \cup {None}},
     request : Regions \cup {Foreign, None}, response : {{}} \cup {{x} : x \in Regions \cup {Foreign, None}}]

ASSUME AuditAssumption ==
    /\ Audited \subseteq Regions /\ None \notin Regions \cup {Foreign}
    /\ Foreign \notin Regions /\ Samples \subseteq Event
    /\ BatchSize \in Nat /\ MaxAttempts \in Nat \ {0} /\ MaxFaults \in Nat

VARIABLES
    batch,     \* the events of each batch
    server,    \* the API server's view of each: [phase, the attempt it is at]
    handler,   \* each attempt at each batch: [pc, the index of the next event]
    recorded,  \* what auditors have been given: [batch, index, region]
    faults

vars == <<batch, server, handler, recorded, faults>>

Attempts == 1..MaxAttempts
NewHandler == [pc |-> "none", next |-> 1]

Init ==
    /\ batch \in [Batches -> UNION {[1..n -> Samples] : n \in 1..BatchSize}]
    /\ server = [b \in Batches |-> [phase |-> "ready", attempt |-> 1]]
    /\ handler = [b \in Batches |-> [a \in Attempts |-> NewHandler]]
    /\ recorded = {}
    /\ faults = 0

TypeOK ==
    /\ batch \in [Batches -> UNION {[1..n -> Samples] : n \in 1..BatchSize}]
    /\ server \in [Batches -> [phase : {"ready", "waiting", "delivered", "dropped"},
                               attempt : Attempts]]
    /\ handler \in [Batches -> [Attempts -> [pc : {"none", "running", "ok", "error", "gone"},
                                             next : 1..BatchSize + 1]]]
    /\ recorded \subseteq [batch : Batches, index : 1..BatchSize, region : Audited]
    /\ faults \in 0..MaxFaults

-----------------------------------------------------------------------------
(* The filter and the region of an event. *)

\* getEffectiveUserExtra: the impersonated user takes precedence.
EffectiveUser(e) == IF e.impersonated = {} THEN e.user ELSE CHOOSE u \in e.impersonated : TRUE

\* shouldProcessEvent.  "patch" is update and patch; "adminkubeconfig" stands for
\* both kubeconfig subresources, "status" for every other one.
ShouldProcess(e) ==
    /\ e.stage = "ResponseComplete" /\ e.resource = "shoots"
    /\ IF e.subresource = "" THEN e.verb \in {"create", "patch", "delete"}
                             ELSE e.subresource = "adminkubeconfig" /\ e.verb = "create"
    /\ EffectiveUser(e) # None

\* The region in the object that extractShootRegion looks at.
ShootObject(e) ==
    IF e.verb = "delete" /\ e.response # {} THEN CHOOSE x \in e.response : TRUE ELSE e.request

\* Mutant of RegionOf: kubeconfig requests are taken to hold a Shoot as well.
RegionOfObject(e) ==
    IF ShootObject(e) = None /\ e.subresource = "" THEN EffectiveUser(e) ELSE ShootObject(e)

\* Mutant of RegionOf: without a region the impersonating user's is taken.
RegionOfImpersonator(e) ==
    IF e.subresource # "" \/ ShootObject(e) = None THEN e.user ELSE ShootObject(e)

RegionOf(e) ==
    IF e.subresource # "" \/ ShootObject(e) = None THEN EffectiveUser(e) ELSE ShootObject(e)

\* GetAuditor finds one.
Routable(e) == ShouldProcess(e) => RegionOf(e) \in Audited

-----------------------------------------------------------------------------
(* The API server and the network. *)

Send(b) ==
    /\ server[b].phase = "ready"
    /\ server' = [server EXCEPT ![b].phase = "waiting"]
    /\ handler' = [handler EXCEPT ![b][server[b].attempt].pc = "running"]
    /\ UNCHANGED <<batch, recorded, faults>>

\* The attempt failed: the next one, or none.
Retried(b) ==
    IF server[b].attempt < MaxAttempts
    THEN [phase |-> "ready", attempt |-> server[b].attempt + 1]
    ELSE [server[b] EXCEPT !.phase = "dropped"]

GetAnswer(b) ==
    /\ server[b].phase = "waiting"
    /\ \/ /\ handler[b][server[b].attempt].pc = "ok"
          /\ server' = [server EXCEPT ![b].phase = "delivered"]
       \/ /\ handler[b][server[b].attempt].pc \in {"error", "gone"}
          /\ server' = [server EXCEPT ![b] = Retried(b)]
    /\ UNCHANGED <<batch, handler, recorded, faults>>

\* The API server stops waiting; the handler does not notice.
TimeOut(b) ==
    /\ server[b].phase = "waiting" /\ faults < MaxFaults
    /\ server' = [server EXCEPT ![b] = Retried(b)]
    /\ faults' = faults + 1
    /\ UNCHANGED <<batch, handler, recorded>>

Crash ==
    /\ faults < MaxFaults
    /\ handler' = [b \in Batches |-> [a \in Attempts |->
                      IF handler[b][a].pc = "running"
                      THEN [handler[b][a] EXCEPT !.pc = "gone"] ELSE handler[b][a]]]
    /\ faults' = faults + 1
    /\ UNCHANGED <<batch, server, recorded>>

-----------------------------------------------------------------------------
(* ServeHTTP, one step per event. *)

Running(b, a) == handler[b][a].pc = "running"
Position(b, a) == handler[b][a].next
Current(b, a) == batch[b][Position(b, a)]
Pending(b, a) == Running(b, a) /\ Position(b, a) <= Len(batch[b])

Filter(b, a) ==
    /\ Pending(b, a) /\ ~ShouldProcess(Current(b, a))
    /\ handler' = [handler EXCEPT ![b][a].next = @ + 1]
    /\ UNCHANGED <<batch, server, recorded, faults>>

Record(b, a) ==
    /\ Pending(b, a) /\ ShouldProcess(Current(b, a)) /\ Routable(Current(b, a))
    /\ recorded' = recorded \cup {[batch |-> b, index |-> Position(b, a),
                                   region |-> RegionOf(Current(b, a))]}
    /\ handler' = [handler EXCEPT ![b][a].next = @ + 1]
    /\ UNCHANGED <<batch, server, faults>>

\* Mutants of Reject: the event is skipped; the rest of the batch is.
RejectEvent(b, a) ==
    /\ Pending(b, a) /\ ~Routable(Current(b, a))
    /\ handler' = [handler EXCEPT ![b][a].next = @ + 1]
    /\ UNCHANGED <<batch, server, recorded, faults>>
RejectSilently(b, a) ==
    /\ Pending(b, a) /\ ~Routable(Current(b, a))
    /\ handler' = [handler EXCEPT ![b][a].pc = "ok"]
    /\ UNCHANGED <<batch, server, recorded, faults>>

\* The event has no region or its region has no auditor: HTTP 500.
Reject(b, a) ==
    /\ Pending(b, a) /\ ~Routable(Current(b, a))
    /\ handler' = [handler EXCEPT ![b][a].pc = "error"]
    /\ UNCHANGED <<batch, server, recorded, faults>>

Finish(b, a) ==
    /\ Running(b, a) /\ ~Pending(b, a)
    /\ handler' = [handler EXCEPT ![b][a].pc = "ok"]
    /\ UNCHANGED <<batch, server, recorded, faults>>

Handle(b, a) == Filter(b, a) \/ Record(b, a) \/ Reject(b, a) \/ Finish(b, a)

Next ==
    \/ Crash
    \/ \E b \in Batches : Send(b) \/ GetAnswer(b) \/ TimeOut(b)
    \/ \E b \in Batches, a \in Attempts : Handle(b, a)

Spec == Init /\ [][Next]_vars

\* Requests are served, and the API server keeps sending what it has not given up.
FairSpec ==
    /\ Spec
    /\ \A b \in Batches : WF_vars(Send(b)) /\ WF_vars(GetAnswer(b))
    /\ \A b \in Batches, a \in Attempts : WF_vars(Handle(b, a))

-----------------------------------------------------------------------------
(* Properties. *)

Auditable(b) == {i \in 1..Len(batch[b]) : ShouldProcess(batch[b][i])}
IsRecorded(b, i) == \E r \in recorded : r.batch = b /\ r.index = i

\* A batch the API server counts as delivered has had every event that is to be
\* audited recorded: ServeHTTP answers 200 only past the last of them.
DeliveredIsRecorded ==
    \A b \in Batches : server[b].phase = "delivered" =>
        \A i \in Auditable(b) : IsRecorded(b, i)

\* Whatever attempts overlap, time out or crash: an event is recorded only if all
\* that precede it in its batch are, so that an audit trail that breaks off has
\* no holes before its end (ServeHTTP stops at the first error).
NoHoles ==
    /\ TypeOK
    /\ \A r \in recorded : \A j \in Auditable(r.batch) :
          j < r.index => IsRecorded(r.batch, j)

\* A batch is lost only to an event in it that no attempt can handle, and then
\* with everything that follows it: while faults are fewer than attempts, one
\* whose events all have an auditor is delivered (GetAuditor, extractShootRegion
\* and processKubeconfigEvent answer alike on every attempt).
Deliverable(b) ==
    \A i \in DOMAIN batch[b] :
        ShouldProcess(batch[b][i]) =>
            LET e == batch[b][i] IN
            /\ EffectiveUser(e) \in Audited
            /\ {e.request} \cup e.response \subseteq Audited \cup {None}
GoodBatchDelivered ==
    \A b \in Batches : Deliverable(b) ~> (server[b].phase = "delivered")

\* The Shoot admission webhook puts a Shoot that an OpenStack user creates into
\* the user's region, whatever region its manifest names; it denies a region that
\* is not enabled.
CreatedIn(e) == IF EffectiveUser(e) \in Audited THEN EffectiveUser(e) ELSE None

RecordedAt(r, e) ==
    e.subresource = "" /\ e.verb = "create" /\ CreatedIn(e) # None => r.region = CreatedIn(e)

\* "should route events to correct regional auditor based on Shoot region"
\* (audithandler_test.go:735): the creation of a Shoot is recorded in its region.
\* The region the handler reads is the one of the request, before admission.
RecordedWhereShootIs == \A r \in recorded : RecordedAt(r, batch[r.batch][r.index])

\* Webhook and audit handler, which both derive the region from the request,
\* agree on it for everyone who creates a Shoot, himself or impersonated, unless
\* the manifest names another enabled region than the one the Shoot is put into.
RecordedWhereCreated ==
    \A r \in recorded :
        LET e == batch[r.batch][r.index] IN
        e.request \in {None, CreatedIn(e)} => RecordedAt(r, e)

\* What makes them inductive: an attempt has left behind only what is recorded,
\* by itself or by an earlier one, and answers 200 only at the end; what is
\* recorded is an event to be audited, in the region the handler finds for it.
AuditInv ==
    /\ NoHoles /\ DeliveredIsRecorded
    /\ \A b \in Batches, a \in Attempts :
         /\ \A i \in Auditable(b) : i < Position(b, a) => IsRecorded(b, i)
         /\ handler[b][a].pc = "ok" => Position(b, a) > Len(batch[b])
    /\ \A r \in recorded : r.index \in Auditable(r.batch) /\ r.region = RegionOf(batch[r.batch][r.index])
=============================================================================
