--------------------------- MODULE CredentialLease ---------------------------
(***************************************************************************)
(* What persephone promises a Shoot and Gardener about the Shoot's         *)
(* OpenStack credentials: a lease is one application credential of the     *)
(* Shoot's account.                                                        *)
(***************************************************************************)
EXTENDS Integers

CONSTANT Leases

VARIABLES
    phase,    \* "inUse" while Gardener needs the credentials, else "free"
    held,     \* the lease the Shoot uses, 0 for none
    issued,   \* the leases made so far
    valid,    \* those that Keystone accepts
    lapsed,   \* those past their term, which their holder must have replaced
    account   \* the cluster service user exists

vars == <<phase, held, issued, valid, lapsed, account>>

Init ==
    /\ phase = "free" /\ held = 0
    /\ issued = {} /\ valid = {} /\ lapsed = {} /\ account = FALSE

OpenAccount ==
    /\ ~account /\ account' = TRUE
    /\ UNCHANGED <<phase, held, issued, valid, lapsed>>

\* While the Shoot needs credentials, a new one is a working one.
Issue(l) ==
    /\ l \notin issued /\ l \in issued' /\ \A k \in issued : k < l
    /\ issued' = issued \cup {l}
    /\ valid' \in {valid, valid \cup {l}}
    /\ phase = "inUse" => l \in valid'
    /\ l \in valid' => account
    /\ UNCHANGED <<phase, held, lapsed, account>>

\* A workerless Shoot has no lease.
Begin(l) ==
    /\ phase = "free" /\ phase' = "inUse"
    /\ l \in valid \cup {0} /\ held' = l
    /\ UNCHANGED <<issued, valid, lapsed, account>>

\* To a lease that works unless its term is over, and back only within its term.
Switch(l) ==
    /\ phase = "inUse" /\ l # held
    /\ held' = l
    /\ l \in valid \cup lapsed
    /\ held < l \/ l \notin lapsed
    /\ UNCHANGED <<phase, issued, valid, lapsed, account>>

\* Terms end, perhaps of several leases at once.
Lapse ==
    /\ \E l \in Leases : l \notin lapsed /\ l \in lapsed'
    /\ lapsed \subseteq lapsed' /\ lapsed' \subseteq issued
    /\ UNCHANGED <<phase, held, issued, valid, account>>

\* Never the one in use before its term.
Revoke(l) ==
    /\ l \in valid
    /\ valid' = valid \ {l}
    /\ l # held \/ l \in lapsed
    /\ UNCHANGED <<phase, held, issued, lapsed, account>>

End ==
    /\ phase = "inUse"
    /\ phase' = "free" /\ held' = 0
    /\ UNCHANGED <<issued, valid, lapsed, account>>

\* With the account all its leases become invalid.
CloseAccount ==
    /\ phase # "inUse" /\ account
    /\ account' = FALSE /\ valid' = {}
    /\ UNCHANGED <<phase, held, issued, lapsed>>

Next ==
    \/ OpenAccount \/ End \/ CloseAccount
    \/ \E l \in Leases : Issue(l) \/ Switch(l) \/ Revoke(l)
    \/ \E l \in Leases \cup {0} : Begin(l)
    \/ Lapse

Spec == Init /\ [][Next]_vars

-----------------------------------------------------------------------------
\* What the Shoot gets out of it: within its term the credential it uses works.
Honoured ==
    phase = "inUse" /\ held # 0 /\ held \notin lapsed => held \in valid /\ account
=============================================================================
