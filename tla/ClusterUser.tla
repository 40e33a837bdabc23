---------------------------- MODULE ClusterUser ----------------------------
(***************************************************************************)
(* What NewClusterUserClientSet promises its callers, whatever they do at  *)
(* the same time: a session of the one user of that name, which has all    *)
(* its roles when the session begins.                                      *)
(***************************************************************************)
CONSTANT Callers

VARIABLES
    exists,    \* a user of the name exists
    equipped,  \* it has all roles
    session    \* the callers logged in as this user

vars == <<exists, equipped, session>>

Init == exists = FALSE /\ equipped = FALSE /\ session = {}

Create ==
    /\ ~exists /\ exists' = TRUE
    /\ UNCHANGED <<equipped, session>>

Equip ==
    /\ exists /\ equipped' = TRUE
    /\ UNCHANGED <<exists, session>>

LogIn(p) ==
    /\ exists /\ equipped
    /\ session' = session \cup {p}
    /\ UNCHANGED <<exists, equipped>>

LogOut(p) ==
    /\ session' = session \ {p}
    /\ UNCHANGED <<exists, equipped>>

\* The sessions end with the user.
Delete ==
    /\ exists' = FALSE /\ equipped' = FALSE /\ session' = {}

Next ==
    \/ Create \/ Equip \/ Delete
    \/ \E p \in Callers : LogIn(p) \/ LogOut(p)

Spec == Init /\ [][Next]_vars
=============================================================================
