-------------------------- MODULE ClusterUserLogin --------------------------
(***************************************************************************)
(* internal/openstack: how several callers (admission requests of two      *)
(* webhook replicas, reconciles of several InternalSecrets) log in as the  *)
(* one cluster user of a Shoot.  Each looks the user up by name, creates   *)
(* it or resets its password, assigns its roles and polls the login with   *)
(* the password it has drawn; another caller may reset it meanwhile.       *)
(***************************************************************************)
EXTENDS Integers

CONSTANTS
    Callers,
    Roles,       \* the number of default service user roles
    MaxDeletes   \* bound: deletions of the user

ASSUME LoginAssumption == Roles \in Nat \ {0} /\ MaxDeletes \in Nat /\ "other" \notin Callers

VARIABLES
    exists,     \* Keystone has a user of the name
    password,   \* the caller whose latest password it has, or "other"
    assigned,   \* the roles it has
    caller,     \* [pc, the user ID it holds is the user's, next role]
    deletes

vars == <<exists, password, assigned, caller, deletes>>
keystoneVars == <<exists, password, assigned>>

Pc == {"idle", "get", "create", "update", "roles", "poll", "in"}
CallerRecord == [pc : Pc, current : BOOLEAN, next : 1..Roles + 1]
IdleCaller == [pc |-> "idle", current |-> FALSE, next |-> 1]

TypeOK ==
    /\ exists \in BOOLEAN
    /\ password \in Callers \cup {"other"}
    /\ assigned \subseteq 1..Roles
    /\ caller \in [Callers -> CallerRecord]
    /\ deletes \in 0..MaxDeletes

Init ==
    /\ exists = FALSE /\ password = "other" /\ assigned = {}
    /\ caller = [p \in Callers |-> IdleCaller]
    /\ deletes = 0

At(p, pc) == caller[p].pc = pc
Goto(p, pc) == caller' = [caller EXCEPT ![p].pc = pc]

Begin(p) ==
    /\ At(p, "idle")
    /\ Goto(p, "get")
    /\ UNCHANGED <<keystoneVars, deletes>>

\* GetUserByName; then a new random password is drawn, which makes the caller's
\* previous one just any password.
GetUser(p) ==
    /\ At(p, "get")
    /\ caller' = [caller EXCEPT ![p] = [pc |-> IF exists THEN "update" ELSE "create",
                                        current |-> exists, next |-> 1]]
    /\ password' = IF password = p THEN "other" ELSE password
    /\ UNCHANGED <<exists, assigned, deletes>>

\* Names are unique in a domain: a second creation is a conflict.
CreateUser(p) ==
    /\ At(p, "create") /\ ~exists
    /\ exists' = TRUE /\ password' = p /\ assigned' = {}
    /\ caller' = [caller EXCEPT ![p].pc = "roles", ![p].current = TRUE]
    /\ UNCHANGED deletes

\* Mutant of ResetPassword: a user that exists is taken to have its roles.
ResetPasswordOnly(p) ==
    /\ At(p, "update") /\ caller[p].current
    /\ password' = p
    /\ Goto(p, "poll")
    /\ UNCHANGED <<exists, assigned, deletes>>

ResetPassword(p) ==
    /\ At(p, "update") /\ caller[p].current
    /\ password' = p
    /\ Goto(p, "roles")
    /\ UNCHANGED <<exists, assigned, deletes>>

\* assignUserRoles, one role after the other, to the user with the ID it holds.
AssignRole(p) ==
    /\ At(p, "roles") /\ caller[p].current
    /\ assigned' = assigned \cup {caller[p].next}
    /\ caller' = [caller EXCEPT ![p].next = @ + 1,
                                ![p].pc = IF caller[p].next = Roles THEN "poll" ELSE "roles"]
    /\ UNCHANGED <<exists, password, deletes>>

\* Mutant of LogIn: the user is logged in with any password.
LogInAnyway(p) ==
    /\ At(p, "poll")
    /\ exists
    /\ Goto(p, "in")
    /\ UNCHANGED <<keystoneVars, deletes>>

\* One poll in which the login by name and password succeeds.  (The others
\* change nothing.)
LogIn(p) ==
    /\ At(p, "poll")
    /\ exists /\ password = p
    /\ Goto(p, "in")
    /\ UNCHANGED <<keystoneVars, deletes>>

\* The caller is through with its session.
Finish(p) ==
    /\ At(p, "in")
    /\ caller' = [caller EXCEPT ![p] = IdleCaller]
    /\ UNCHANGED <<keystoneVars, deletes>>

\* A call failed or the process stopped; the caller is run again.
Fail(p) ==
    /\ ~At(p, "idle") /\ ~At(p, "poll") /\ ~At(p, "in")
    /\ caller' = [caller EXCEPT ![p] = IdleCaller]
    /\ UNCHANGED <<keystoneVars, deletes>>

\* Mutant of GiveUp: the time is too short for another caller's roles and poll.
GiveUpEarly(p) ==
    /\ At(p, "poll")
    /\ caller' = [caller EXCEPT ![p] = IdleCaller]
    /\ UNCHANGED <<keystoneVars, deletes>>

\* The poll gives up after 5 min (10 s in the webhook): long enough for whoever
\* reset the password after this caller to assign the roles and to poll.
GiveUp(p) ==
    /\ At(p, "poll")
    /\ \A q \in Callers : password = q => ~At(q, "roles") /\ ~At(q, "poll")
    /\ caller' = [caller EXCEPT ![p] = IdleCaller]
    /\ UNCHANGED <<keystoneVars, deletes>>

\* DeleteClusterServiceUser, by the reconcile of a last InternalSecret.
DeleteUser ==
    /\ exists /\ deletes < MaxDeletes
    /\ deletes' = deletes + 1
    /\ exists' = FALSE /\ password' = "other" /\ assigned' = {}
    /\ caller' = [p \in Callers |->
                    [caller[p] EXCEPT !.current = FALSE,
                                      !.pc = IF @ = "in" THEN "idle" ELSE @]]

Call(p) == GetUser(p) \/ CreateUser(p) \/ ResetPassword(p) \/ AssignRole(p)

Next ==
    \/ \E p \in Callers : Begin(p) \/ Call(p) \/ LogIn(p) \/ Finish(p) \/ Fail(p) \/ GiveUp(p)
    \/ DeleteUser

Spec == Init /\ [][Next]_vars

-----------------------------------------------------------------------------
\* The abstract user: its roles are complete, the sessions are those of
\* callers that are through.
Session == {p \in Callers : At(p, "in")}

U == INSTANCE ClusterUser WITH equipped <- (assigned = 1..Roles), session <- Session

\* A session is one of the user of that name with all its roles, however the
\* creations, resets and deletions of others interleave with the login
\* (NewClusterUserClientSet, lines 162-216).
ImplementsClusterUser == U!Spec

\* Who knows the password has assigned the roles, or is about to: the roles
\* follow the password, never the other way round.  (As in the other modules, the
\* safety invariant has the types of the state as its first part.)
PasswordImpliesRoles ==
    /\ TypeOK
    /\ \A p \in Callers :
          password = p /\ At(p, "poll") => exists /\ assigned = 1..Roles

\* What makes PasswordImpliesRoles inductive: the caller whose password the user
\* has is as far with its roles as its counter says.
LoginInv ==
    /\ PasswordImpliesRoles
    /\ ~exists => password = "other" /\ assigned = {}
    /\ \A p \in Callers :
         /\ caller[p].current => exists
         /\ At(p, "in") => exists /\ assigned = 1..Roles
         /\ At(p, "create") \/ At(p, "update") => caller[p].next = 1
         /\ At(p, "roles") => caller[p].next =< Roles
         /\ At(p, "roles") /\ password = p => caller[p].current /\ 1..caller[p].next - 1 \subseteq assigned

\* A call that cannot succeed as things stand: a conflict, or a stale ID.
Impossible(p) ==
    \/ At(p, "create") /\ exists
    \/ At(p, "update") /\ ~caller[p].current
    \/ At(p, "roles") /\ ~caller[p].current

Fairness ==
    /\ <>[][\A p \in Callers : Fail(p) => Impossible(p)]_vars
    /\ \A p \in Callers :
         /\ WF_vars(Begin(p)) /\ WF_vars(Call(p)) /\ WF_vars(LogIn(p))
         /\ WF_vars(Fail(p)) /\ WF_vars(GiveUp(p))

FairSpec == Spec /\ Fairness

\* Callers that reset each other's password do not do so for ever: there is
\* always one that gets through, as the last reset is never in vain.
SomebodyGetsIn == []<>(Session # {})
=============================================================================
