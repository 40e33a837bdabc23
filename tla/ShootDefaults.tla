---------------------------- MODULE ShootDefaults ----------------------------
(***************************************************************************)
(* What the Shoot admission webhook writes into a Shoot                    *)
(* (webhook/shootadmission/handler.go, handle).  A field is absent, the    *)
(* user's or a default; the networks' pods, services and type are          *)
(* defaulted alike and are one field here.                                 *)
(***************************************************************************)
EXTENDS Naturals

Absent == "absent"
Given == {Absent, "user"}                \* what a manifest may say of a field
Value == {Absent, "user", "default"}

\* What users write themselves.  A manifest without infrastructureConfig is one
\* whose pool and worker network are absent.
Manifest == [workerless : BOOLEAN, pool : Given, workers : Given, controlPlane : Given,
             pods : Given, nodes : Given]

Default(value) == IF value = Absent THEN "default" ELSE value

\* Mutant of Infrastructure: a worker network of its own.
InfrastructureOwnRange(s) ==
    [s EXCEPT !.pool = Default(@), !.workers = Default(@), !.controlPlane = Default(@)]

\* The worker network is that of the nodes, which gets its default only later.
Infrastructure(s) ==
    [s EXCEPT !.pool = Default(@),
              !.workers = IF @ = Absent THEN Default(s.nodes) ELSE @,
              !.controlPlane = Default(@)]

Networking(s) == [s EXCEPT !.pods = Default(@), !.nodes = Default(@)]

\* And everything a user may not choose.  The webhook is registered for Create
\* only (webhook/add.go:68), so what the handler has for Update is left out.  The
\* binding is the matter of module ShootAdmission.
Admit(s, region) ==
    LET filled == IF s.workerless THEN s ELSE Networking(Infrastructure(s))
    IN  [filled EXCEPT !.region = region, !.seed = region]

\* A manifest as it arrives.
Submitted(m) ==
    [workerless |-> m.workerless, pool |-> m.pool, workers |-> m.workers,
     controlPlane |-> m.controlPlane, pods |-> m.pods, nodes |-> m.nodes,
     region |-> Absent, seed |-> Absent]
=============================================================================
