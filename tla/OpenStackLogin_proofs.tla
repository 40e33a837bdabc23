------------------------ MODULE OpenStackLogin_proofs ------------------------
(***************************************************************************)
(* Who logs in to OpenStack.  First the callers that log in as the cluster *)
(* user of a Shoot, however many: who knows the password has assigned the  *)
(* roles, and a session is one of a user with all its roles.  Then the     *)
(* runs of the scikube plugin that share one cache file, however many.     *)
(* The two have no state in common.                                        *)
(***************************************************************************)
EXTENDS ClusterUserLogin, ScikubeAuth, TLAPS

\* A step of one caller leaves the others where they are.
Alone(p) == \A q \in Callers \ {p} : caller'[q] = caller[q]

\* What a step of a caller does to itself.
LEMMA Moves ==
    ASSUME TypeOK, NEW p \in Callers
    PROVE  /\ \A pc \in Pc : Goto(p, pc) => /\ Alone(p) /\ caller'[p].pc = pc
                                            /\ caller'[p].current = caller[p].current
                                            /\ caller'[p].next = caller[p].next
                                            /\ caller' \in [Callers -> CallerRecord]
           /\ \A r \in CallerRecord : caller' = [caller EXCEPT ![p] = r]
                => Alone(p) /\ caller'[p] = r /\ caller' \in [Callers -> CallerRecord]
           /\ IdleCaller \in CallerRecord
<1>1. caller \in [Callers -> CallerRecord] /\ caller[p] \in CallerRecord
  BY DEF TypeOK
<1>2. IdleCaller \in CallerRecord
  BY LoginAssumption DEF IdleCaller, CallerRecord, Pc
<1>3. ASSUME NEW pc \in Pc, Goto(p, pc)
      PROVE  /\ Alone(p) /\ caller'[p].pc = pc
             /\ caller'[p].current = caller[p].current /\ caller'[p].next = caller[p].next
             /\ caller' \in [Callers -> CallerRecord]
  <2>1. [caller[p] EXCEPT !.pc = pc] \in CallerRecord
    BY <1>1 DEF CallerRecord
  <2> QED
    BY <1>1, <1>3, <2>1 DEF Goto, Alone, CallerRecord
<1>4. ASSUME NEW r \in CallerRecord, caller' = [caller EXCEPT ![p] = r]
      PROVE  Alone(p) /\ caller'[p] = r /\ caller' \in [Callers -> CallerRecord]
  BY <1>1, <1>4 DEF Alone
<1> QED
  BY <1>2, <1>3, <1>4

\* LoginInv, caller by caller.
CallerInv(p) ==
    /\ caller[p].current => exists
    /\ At(p, "in") => exists /\ assigned = 1..Roles
    /\ At(p, "create") \/ At(p, "update") => caller[p].next = 1
    /\ At(p, "roles") => caller[p].next =< Roles
    /\ At(p, "roles") /\ password = p => caller[p].current /\ 1..caller[p].next - 1 \subseteq assigned
    /\ At(p, "poll") /\ password = p => exists /\ assigned = 1..Roles

UserInv == ~exists => password = "other" /\ assigned = {}
Each == TypeOK /\ UserInv /\ \A p \in Callers : CallerInv(p)

LEMMA EachCaller == LoginInv <=> Each
BY DEF LoginInv, PasswordImpliesRoles, CallerInv, Each, UserInv

\* A step that takes no role and no password from others does not disturb them.
LEMMA OthersKeep ==
    ASSUME TypeOK, NEW p \in Callers, Alone(p), exists => exists', assigned \subseteq assigned', assigned' \subseteq 1..Roles,
           NEW q \in Callers \ {p}, password' = q => password = q, CallerInv(q)
    PROVE  CallerInv(q)'
BY DEF Alone, CallerInv, At, TypeOK

\* The steps of one caller.
LEMMA CallerStep ==
    ASSUME Each, NEW p \in Callers,
           Begin(p) \/ Call(p) \/ LogIn(p) \/ Finish(p) \/ Fail(p) \/ GiveUp(p)
    PROVE  Each'
<1> USE LoginAssumption
<1>1. TypeOK /\ UserInv /\ \A q \in Callers : CallerInv(q)
  BY DEF Each
<1>2. caller[p] \in CallerRecord /\ p # "other"
  BY <1>1 DEF TypeOK
<1> SUFFICES TypeOK' /\ UserInv' /\ CallerInv(p)' /\ \A q \in Callers \ {p} : CallerInv(q)'
  BY DEF Each
<1>3. CASE Begin(p)
  <2>1. Alone(p) /\ caller'[p].pc = "get" /\ caller'[p].current = caller[p].current /\ caller' \in [Callers -> CallerRecord]
    BY <1>1, <1>3, Moves DEF Begin, Pc
  <2>2. UNCHANGED <<exists, password, assigned, deletes>>
    BY <1>3 DEF Begin, keystoneVars
  <2>3. TypeOK' /\ UserInv'
    BY <1>1, <2>1, <2>2 DEF TypeOK, UserInv
  <2>4. CallerInv(p)'
    BY <1>1, <2>1, <2>2 DEF CallerInv, At
  <2>5. \A q \in Callers \ {p} : CallerInv(q)'
    BY <1>1, <2>1, <2>2, OthersKeep DEF TypeOK
  <2> QED
    BY <2>3, <2>4, <2>5
<1>4. CASE GetUser(p)
  <2> DEFINE r == [pc |-> IF exists THEN "update" ELSE "create", current |-> exists, next |-> 1]
  <2>1. r \in CallerRecord
    BY <1>1 DEF CallerRecord, Pc, TypeOK
  <2>2. caller' = [caller EXCEPT ![p] = r]
    BY <1>4 DEF GetUser
  <2>3. Alone(p) /\ caller'[p] = r /\ caller' \in [Callers -> CallerRecord]
    BY <1>1, <2>1, <2>2, Moves
  <2>4. /\ UNCHANGED <<exists, assigned, deletes>>
        /\ password' = IF password = p THEN "other" ELSE password
    BY <1>4 DEF GetUser
  <2>5. TypeOK' /\ UserInv'
    BY <1>1, <2>3, <2>4 DEF TypeOK, UserInv
  <2>6. /\ caller'[p].pc \in {"update", "create"} /\ caller'[p].next = 1
        /\ caller'[p].current = exists /\ password' # p
    BY <1>2, <2>3, <2>4
  <2>7. CallerInv(p)'
    BY <1>1, <2>4, <2>6 DEF CallerInv, At
  <2>8. \A q \in Callers \ {p} : password' = q => password = q
    BY <2>4
  <2>9. \A q \in Callers \ {p} : CallerInv(q)'
    BY <1>1, <2>3, <2>4, <2>8, OthersKeep DEF TypeOK
  <2> QED
    BY <2>5, <2>7, <2>9
<1>5. CASE CreateUser(p)
  <2> DEFINE r == [caller[p] EXCEPT !.pc = "roles", !.current = TRUE]
  <2>1. r \in CallerRecord /\ r.pc = "roles" /\ r.current /\ r.next = caller[p].next
    BY <1>2 DEF CallerRecord, Pc
  <2>2. caller' = [caller EXCEPT ![p] = r]
    BY <1>1, <1>5 DEF CreateUser, TypeOK
  <2>3. Alone(p) /\ caller'[p] = r /\ caller' \in [Callers -> CallerRecord]
    BY <1>1, <2>1, <2>2, Moves
  <2>4. /\ exists' = TRUE /\ password' = p /\ assigned' = {} /\ UNCHANGED deletes
        /\ ~exists /\ At(p, "create")
    BY <1>5 DEF CreateUser
  <2>5. TypeOK' /\ UserInv'
    BY <1>1, <2>3, <2>4 DEF TypeOK, UserInv
  <2>6. caller[p].next = 1
    BY <1>1, <2>4 DEF CallerInv
  <2>7. CallerInv(p)'
    BY <2>1, <2>3, <2>4, <2>6 DEF CallerInv, At
  <2>8. \A q \in Callers \ {p} : CallerInv(q)'
    BY <1>1, <2>3, <2>4 DEF CallerInv, At, Alone
  <2> QED
    BY <2>5, <2>7, <2>8
<1>6. CASE ResetPassword(p)
  <2>1. /\ Alone(p) /\ caller'[p].pc = "roles" /\ caller'[p].current = caller[p].current
        /\ caller'[p].next = caller[p].next /\ caller' \in [Callers -> CallerRecord]
    BY <1>1, <1>6, Moves DEF ResetPassword, Pc
  <2>2. /\ password' = p /\ UNCHANGED <<exists, assigned, deletes>>
        /\ At(p, "update") /\ caller[p].current
    BY <1>6 DEF ResetPassword
  <2>3. caller[p].next = 1 /\ exists
    BY <1>1, <2>2 DEF CallerInv
  <2>4. TypeOK' /\ UserInv'
    BY <1>1, <2>1, <2>2, <2>3 DEF TypeOK, UserInv
  <2>5. CallerInv(p)'
    BY <2>1, <2>2, <2>3 DEF CallerInv, At
  <2>6. \A q \in Callers \ {p} : CallerInv(q)'
    BY <1>1, <2>1, <2>2, OthersKeep DEF TypeOK
  <2> QED
    BY <2>4, <2>5, <2>6
<1>7. CASE AssignRole(p)
  <2> DEFINE r == [caller[p] EXCEPT !.next = caller[p].next + 1,
                                    !.pc = IF caller[p].next = Roles THEN "poll" ELSE "roles"]
  <2>1. /\ At(p, "roles") /\ caller[p].current /\ UNCHANGED <<exists, password, deletes>>
        /\ assigned' = assigned \cup {caller[p].next}
        /\ caller' = [caller EXCEPT ![p] = r]
    <3>1. p \in DOMAIN caller
      BY <1>1 DEF TypeOK
    <3> QED
      BY <1>7, <3>1 DEF AssignRole
  <2>2. caller[p].next \in 1..Roles /\ exists
    BY <1>1, <1>2, <2>1 DEF CallerInv, CallerRecord
  <2>3. /\ r \in CallerRecord /\ r.next = caller[p].next + 1 /\ r.current = caller[p].current
        /\ r.pc = IF caller[p].next = Roles THEN "poll" ELSE "roles"
    <3>1. PICK pc \in Pc : pc = IF caller[p].next = Roles THEN "poll" ELSE "roles"
      BY DEF Pc
    <3>2. PICK next \in 1..Roles + 1 : next = caller[p].next + 1
      BY <2>2
    <3>3. PICK c \in CallerRecord : c = caller[p]
      BY <1>2
    <3>4. r = [c EXCEPT !.next = next, !.pc = pc]
      BY <3>1, <3>2, <3>3
    <3> HIDE DEF r
    <3>5. r \in CallerRecord /\ r.next = next /\ r.current = c.current /\ r.pc = pc
      BY <3>4 DEF CallerRecord
    <3> QED
      BY <3>1, <3>2, <3>3, <3>5
  <2>4. Alone(p) /\ caller'[p] = r /\ caller' \in [Callers -> CallerRecord]
    BY <1>1, <2>1, <2>3, Moves
  <2>5. assigned' \subseteq 1..Roles /\ assigned \subseteq assigned'
    BY <1>1, <2>1, <2>2 DEF TypeOK
  <2>6. TypeOK' /\ UserInv'
    BY <1>1, <2>1, <2>2, <2>4, <2>5 DEF TypeOK, UserInv
  <2>7. password = p => 1..caller[p].next \subseteq assigned'
    BY <1>1, <2>1, <2>2 DEF CallerInv
  <2> HIDE DEF r
  <2>8. CallerInv(p)'
    <3>1. CASE caller[p].next = Roles
      <4>1. caller'[p].pc = "poll"
        BY <2>3, <2>4, <3>1
      <4>2. password = p => assigned' = 1..Roles
        BY <2>5, <2>7, <3>1
      <4> QED
        BY <2>1, <2>2, <4>1, <4>2 DEF CallerInv, At
    <3>2. CASE caller[p].next # Roles
      <4>1. caller'[p].pc = "roles" /\ caller'[p].next = caller[p].next + 1 /\ caller'[p].current
        BY <2>1, <2>3, <2>4, <3>2
      <4>2. caller'[p].next =< Roles /\ 1..caller'[p].next - 1 = 1..caller[p].next
        BY <2>2, <3>2, <4>1
      <4> QED
        BY <2>1, <2>2, <2>7, <4>1, <4>2 DEF CallerInv, At
    <3> QED
      BY <3>1, <3>2
  <2>9. \A q \in Callers \ {p} : CallerInv(q)'
    BY <1>1, <2>1, <2>4, <2>5, OthersKeep
  <2> QED
    BY <2>6, <2>8, <2>9
<1>8. CASE LogIn(p)
  <2>1. /\ Alone(p) /\ caller'[p].pc = "in" /\ caller'[p].current = caller[p].current
        /\ caller' \in [Callers -> CallerRecord]
    BY <1>1, <1>8, Moves DEF LogIn, Pc
  <2>2. /\ UNCHANGED <<exists, password, assigned, deletes>>
        /\ At(p, "poll") /\ password = p
    BY <1>8 DEF LogIn, keystoneVars
  <2>3. TypeOK' /\ UserInv'
    BY <1>1, <2>1, <2>2 DEF TypeOK, UserInv
  <2>4. CallerInv(p)'
    BY <1>1, <2>1, <2>2 DEF CallerInv, At
  <2>5. \A q \in Callers \ {p} : CallerInv(q)'
    BY <1>1, <2>1, <2>2, OthersKeep DEF TypeOK
  <2> QED
    BY <2>3, <2>4, <2>5
<1>9. CASE Finish(p) \/ Fail(p) \/ GiveUp(p)
  <2>1. caller' = [caller EXCEPT ![p] = IdleCaller] /\ UNCHANGED <<exists, password, assigned, deletes>>
    BY <1>9 DEF Finish, Fail, GiveUp, keystoneVars
  <2>2. Alone(p) /\ caller'[p] = IdleCaller /\ caller' \in [Callers -> CallerRecord]
    BY <1>1, <2>1, Moves
  <2>3. TypeOK' /\ UserInv'
    BY <1>1, <2>1, <2>2 DEF TypeOK, UserInv
  <2>4. CallerInv(p)'
    BY <2>2 DEF CallerInv, At, IdleCaller
  <2>5. \A q \in Callers \ {p} : CallerInv(q)'
    BY <1>1, <2>1, <2>2, OthersKeep DEF TypeOK
  <2> QED
    BY <2>3, <2>4, <2>5
<1> QED
  BY <1>3, <1>4, <1>5, <1>6, <1>7, <1>8, <1>9 DEF Call

\* The deletion takes the user, its roles, its password and the sessions.
LEMMA Deletion ==
    ASSUME TypeOK, DeleteUser
    PROVE  /\ exists' = FALSE /\ password' = "other" /\ assigned' = {} /\ deletes' \in 0..MaxDeletes
           /\ caller' \in [Callers -> CallerRecord]
           /\ \A q \in Callers : /\ caller'[q].pc # "in" /\ caller'[q].pc \in {caller[q].pc, "idle"}
                                 /\ caller'[q].current = FALSE /\ caller'[q].next = caller[q].next
<1>1. /\ exists' = FALSE /\ password' = "other" /\ assigned' = {}
      /\ deletes < MaxDeletes /\ deletes' = deletes + 1
  BY DEF DeleteUser
<1>2. deletes' \in 0..MaxDeletes
  BY <1>1, LoginAssumption DEF TypeOK
<1>3. ASSUME NEW q \in Callers
      PROVE  /\ caller'[q] \in CallerRecord
             /\ caller'[q].pc # "in" /\ caller'[q].pc \in {caller[q].pc, "idle"}
             /\ caller'[q].current = FALSE /\ caller'[q].next = caller[q].next
  <2>1. caller[q] \in CallerRecord
    BY DEF TypeOK
  <2>2. PICK pc \in Pc : pc = IF caller[q].pc = "in" THEN "idle" ELSE caller[q].pc
    BY <2>1 DEF Pc, CallerRecord
  <2>3. PICK c \in CallerRecord : c = caller[q]
    BY <2>1
  <2>4. caller'[q] = [c EXCEPT !.current = FALSE, !.pc = pc]
    BY <2>2, <2>3 DEF DeleteUser
  <2>5. /\ caller'[q] \in CallerRecord /\ caller'[q].pc = pc
        /\ caller'[q].current = FALSE /\ caller'[q].next = c.next
    BY <2>4 DEF CallerRecord
  <2> QED
    BY <2>2, <2>3, <2>5
<1>4. caller' = [q \in Callers |-> caller'[q]]
  BY DEF DeleteUser
<1> QED
  BY <1>1, <1>2, <1>3, <1>4

LEMMA DeleteStep ==
    ASSUME Each, DeleteUser
    PROVE  Each'
<1>1. TypeOK /\ \A q \in Callers : CallerInv(q)
  BY DEF Each
<1>2. TypeOK' /\ UserInv'
  BY <1>1, Deletion DEF TypeOK, UserInv
<1>3. ASSUME NEW q \in Callers PROVE CallerInv(q)'
  BY <1>1, Deletion, LoginAssumption DEF CallerInv, At
<1> QED
  BY <1>2, <1>3 DEF Each

LEMMA LoginInit == Init => Each
<1> SUFFICES ASSUME Init PROVE Each
  OBVIOUS
<1>1. TypeOK
  <2>1. IdleCaller \in CallerRecord
    BY LoginAssumption DEF IdleCaller, CallerRecord, Pc
  <2>2. caller \in [Callers -> CallerRecord]
    BY <2>1 DEF Init
  <2>3. exists = FALSE /\ password = "other" /\ assigned = {} /\ deletes = 0
    BY DEF Init
  <2>4. 0 \in 0..MaxDeletes
    BY LoginAssumption
  <2> QED
    BY <2>2, <2>3, <2>4 DEF TypeOK
<1>2. ASSUME NEW q \in Callers PROVE CallerInv(q)
  BY DEF Init, IdleCaller, CallerInv, At
<1> QED
  BY <1>1, <1>2 DEF Init, Each, UserInv

LEMMA Step == Each /\ [Next]_vars => Each'
<1> SUFFICES ASSUME Each, [Next]_vars PROVE Each'
  OBVIOUS
<1>1. CASE UNCHANGED vars
  BY <1>1 DEF Each, TypeOK, UserInv, CallerInv, At, vars
<1> QED
  BY <1>1, CallerStep, DeleteStep DEF Next

LEMMA Always == Spec => []Each
BY LoginInit, Step, PTL DEF Spec

\* However many callers create the user, reset its password, assign its roles,
\* give up and delete it: whose password the user has when it polls the login has
\* given it all its roles (NewClusterUserClientSet).
THEOREM PasswordFollowsRoles == Spec => []PasswordImpliesRoles
<1>1. Each => PasswordImpliesRoles
  BY EachCaller DEF LoginInv
<1> QED
  BY <1>1, Always, PTL

-----------------------------------------------------------------------------
(* The refinement. *)

\* A step of a caller that is not logged in before or after leaves the sessions.
LEMMA SessionsKept ==
    ASSUME NEW p \in Callers, Alone(p), ~At(p, "in"), caller'[p].pc # "in"
    PROVE  Session' = Session
BY DEF Alone, Session, At

LEMMA CallerRefines ==
    ASSUME Each, NEW p \in Callers,
           Begin(p) \/ Call(p) \/ LogIn(p) \/ Finish(p) \/ Fail(p) \/ GiveUp(p)
    PROVE  [U!Next]_(U!vars)
<1> USE LoginAssumption
<1>1. TypeOK /\ UserInv /\ \A q \in Callers : CallerInv(q)
  BY DEF Each
<1>2. CASE Begin(p) \/ GetUser(p) \/ ResetPassword(p) \/ Fail(p) \/ GiveUp(p)
  <2>1. UNCHANGED <<exists, assigned>> /\ ~At(p, "in")
    BY <1>2 DEF Begin, GetUser, ResetPassword, Fail, GiveUp, keystoneVars, At
  <2>2. Alone(p) /\ caller'[p].pc # "in"
    <3>1. CASE Begin(p)
      BY <1>1, <3>1, Moves DEF Begin, Pc
    <3>2. CASE ResetPassword(p)
      BY <1>1, <3>2, Moves DEF ResetPassword, Pc
    <3>3. CASE GetUser(p)
      BY <1>1, <3>3 DEF GetUser, Alone, TypeOK
    <3>4. CASE Fail(p) \/ GiveUp(p)
      BY <1>1, <3>4 DEF Fail, GiveUp, Alone, TypeOK, IdleCaller
    <3> QED
      BY <1>2, <3>1, <3>2, <3>3, <3>4
  <2>3. Session' = Session
    BY <2>1, <2>2, SessionsKept
  <2> QED
    BY <2>1, <2>3 DEF U!vars
<1>3. CASE CreateUser(p)
  <2>1. ~exists /\ exists' = TRUE /\ assigned' = {} /\ ~At(p, "in")
    BY <1>3 DEF CreateUser, At
  <2>2. assigned = {} /\ 1 \in 1..Roles
    BY <1>1, <2>1 DEF UserInv
  <2>3. Alone(p) /\ caller'[p].pc = "roles"
    BY <1>1, <1>3 DEF CreateUser, Alone, TypeOK, CallerRecord
  <2>4. Session' = Session
    BY <2>1, <2>3, SessionsKept
  <2>5. U!Create
    BY <2>1, <2>2, <2>4 DEF U!Create
  <2> QED
    BY <2>5 DEF U!Next
<1>4. CASE AssignRole(p)
  <2>1. /\ UNCHANGED exists /\ ~At(p, "in") /\ exists
        /\ assigned' = assigned \cup {caller[p].next}
    BY <1>1, <1>4 DEF AssignRole, At, CallerInv
  <2>2. caller[p].next \in 1..Roles
    BY <1>1, <1>4 DEF AssignRole, CallerInv, CallerRecord, TypeOK, At
  <2>3. Alone(p) /\ caller'[p].pc # "in"
    BY <1>1, <1>4 DEF AssignRole, Alone, TypeOK, CallerRecord
  <2>4. Session' = Session
    BY <2>1, <2>3, SessionsKept
  <2>5. assigned = 1..Roles => assigned' = assigned
    BY <2>1, <2>2
  <2>6. CASE assigned' = 1..Roles
    BY <2>1, <2>4, <2>6 DEF U!Equip, U!Next
  <2>7. CASE assigned' # 1..Roles
    BY <2>1, <2>4, <2>5, <2>7 DEF U!vars
  <2> QED
    BY <2>6, <2>7
<1>5. CASE LogIn(p)
  <2>1. UNCHANGED <<exists, assigned>> /\ exists /\ assigned = 1..Roles
    BY <1>1, <1>5 DEF LogIn, keystoneVars, CallerInv
  <2>2. Alone(p) /\ caller'[p].pc = "in"
    BY <1>1, <1>5, Moves DEF LogIn, Pc
  <2>3. Session' = Session \cup {p}
    BY <2>2 DEF Alone, Session, At
  <2>4. U!LogIn(p)
    BY <2>1, <2>3 DEF U!LogIn
  <2> QED
    BY <2>4 DEF U!Next
<1>6. CASE Finish(p)
  <2>1. UNCHANGED <<exists, assigned>>
    BY <1>6 DEF Finish, keystoneVars
  <2>2. Alone(p) /\ caller'[p].pc = "idle"
    BY <1>1, <1>6 DEF Finish, Alone, TypeOK, IdleCaller
  <2>3. Session' = Session \ {p}
    BY <2>2 DEF Alone, Session, At
  <2>4. U!LogOut(p)
    BY <2>1, <2>3 DEF U!LogOut
  <2> QED
    BY <2>4 DEF U!Next
<1> QED
  BY <1>2, <1>3, <1>4, <1>5, <1>6 DEF Call

LEMMA DeleteRefines ==
    ASSUME Each, DeleteUser
    PROVE  U!Delete
<1>1. exists' = FALSE /\ assigned' = {}
  BY Deletion DEF Each
<1>2. Session' = {}
  BY Deletion DEF Session, At, Each
<1>3. 1 \in 1..Roles
  BY LoginAssumption
<1> QED
  BY <1>1, <1>2, <1>3 DEF U!Delete

\* Whatever the other callers do to the user between the calls of one: who is
\* logged in is logged in as a user that exists and has all its roles
\* (NewClusterUserClientSet, assignUserRoles, DeleteClusterServiceUser).
THEOREM Implementation == Spec => ImplementsClusterUser
<1>1. Init => U!Init
  <2> SUFFICES ASSUME Init PROVE U!Init
    OBVIOUS
  <2>1. Session = {}
    BY DEF Init, Session, At, IdleCaller
  <2>2. assigned = {} /\ exists = FALSE /\ 1 \in 1..Roles
    BY LoginAssumption DEF Init
  <2> QED
    BY <2>1, <2>2 DEF U!Init
<1>2. Each /\ [Next]_vars => [U!Next]_(U!vars)
  <2> SUFFICES ASSUME Each, [Next]_vars PROVE [U!Next]_(U!vars)
    OBVIOUS
  <2>1. CASE UNCHANGED vars
    BY <2>1 DEF vars, U!vars, Session, At
  <2>2. CASE DeleteUser
    BY <2>2, DeleteRefines DEF U!Next
  <2> QED
    BY <2>1, <2>2, CallerRefines DEF Next
<1> QED
  BY <1>1, <1>2, Always, PTL DEF Spec, ImplementsClusterUser, U!Spec

-----------------------------------------------------------------------------
(* The runs of the scikube plugin on one cache file.                       *)

\* What is in the cache is a credential.
LEMMA Kinds ==
    /\ \A c \in Credential :
          /\ Holding(c) \in Files /\ Holding(c) # Empty
          /\ Holding(c).credential = c
    /\ {Absent, Empty} \subseteq Files
    /\ \A f \in Files : f.kind = "credential" => f.credential \in Credential
<1>1. Empty.kind = "empty" /\ Absent.kind = "absent"
  BY DEF Empty, Absent
<1>2. \A c \in Credential :
        Holding(c).credential = c /\ Holding(c).kind = "credential"
  BY DEF Holding
<1> QED
  BY <1>1, <1>2 DEF Files

LEMMA AuthStep ==
    ASSUME AuthInv, [PluginNext]_pluginVars
    PROVE  AuthInv'
<1> DEFINE Live(q) == HasCredential(q) => \A c \in run[q].printed : c.expires > run[q].since
           Written == file = Empty => broken \/ \E q \in Runs : RunAt(q, "write")
<1>1. /\ PluginTypeOK /\ Written /\ \A q \in Runs : Live(q)
      /\ now \in Nat /\ now =< MaxTime /\ MaxTime \in Nat /\ Lifetime \in Nat /\ Lifetime >= 1
      /\ file \in Files /\ broken \in BOOLEAN
      /\ run \in [Runs -> Run] /\ \A q \in Runs : run[q] \in Run /\ run[q].since =< now
  BY ScikubeAssumption DEF AuthInv, EmptyOnlyWhileWritten, PluginTypeOK, RunAt
<1>2. ASSUME now' \in 0..MaxTime, file' \in Files, broken' \in BOOLEAN, run' \in [Runs -> Run],
             \A q \in Runs : run'[q].since =< now',
             \A q \in Runs : HasCredential(q)' =>
                                  \A c \in run'[q].printed : c.expires > run'[q].since,
             file' = Empty => broken' \/ \E q \in Runs : run'[q].pc = "write"
      PROVE  AuthInv'
  BY <1>2 DEF AuthInv, EmptyOnlyWhileWritten, PluginTypeOK, RunAt
<1>3. ASSUME NEW p \in Runs, NEW r \in Run, run' = [run EXCEPT ![p] = r], r.since =< now,
             now' = now, file' \in Files, broken' \in BOOLEAN,
             r.pc \in {"open", "write", "done"} => \A c \in r.printed : c.expires > r.since,
             \/ file' = file /\ broken' = broken /\ (run[p].pc = "write" => r.pc = "write")
             \/ file' # Empty \/ broken' \/ r.pc = "write"
      PROVE  AuthInv'
  <2>1. /\ run' \in [Runs -> Run] /\ run'[p] = r /\ \A q \in Runs \ {p} : run'[q] = run[q]
        /\ \A q \in Runs : run'[q].since =< now'
    BY <1>1, <1>3
  <2>2. \A q \in Runs : HasCredential(q)' => \A c \in run'[q].printed : c.expires > run'[q].since
    BY <1>1, <1>3, <2>1 DEF HasCredential
  <2>3. file' = Empty => broken' \/ \E q \in Runs : run'[q].pc = "write"
    BY <1>1, <1>3, <2>1 DEF RunAt
  <2> QED
    BY <1>1, <1>2, <1>3, <2>1, <2>2, <2>3
<1>5. ASSUME NEW p \in Runs, Start(p)
      PROVE  AuthInv'
  <2>1. PICK flag \in BOOLEAN : run' = [run EXCEPT ![p] = NewRun(flag)]
    BY <1>5 DEF Start
  <2>2. PICK r : r = NewRun(flag)
    OBVIOUS
  <2>3. r \in Run /\ r.since = now /\ r.pc = "read"
    BY <1>1, <2>2 DEF NewRun, Run
  <2>4. UNCHANGED <<now, file, broken>> /\ run[p].pc \in {"idle", "done"}
    BY <1>5 DEF Start
  <2>5. run' = [run EXCEPT ![p] = r] /\ r.since =< now
    BY <1>1, <2>1, <2>2, <2>3
  <2>6. now' = now /\ file' = file /\ broken' = broken /\ run[p].pc # "write"
    BY <2>4
  <2> QED
    BY <1>1, <1>3, <2>3, <2>5, <2>6
<1>6. ASSUME NEW p \in Runs, UseCached(p)
      PROVE  AuthInv'
  <2>1. PICK c \in Credential : c = file.credential /\ c.expires > now
    <3>1. file.credential \in Credential /\ ~(file.credential.expires =< now)
      BY <1>1, <1>6, Kinds DEF UseCached, Expired
    <3>2. file.credential.expires \in Nat
      BY <1>1, <3>1 DEF Credential
    <3> QED
      BY <1>1, <3>1, <3>2
  <2>2. PICK old \in Run : old = run[p] /\ old.since =< now
    BY <1>1
  <2>3. PICK r : r = [old EXCEPT !.pc = "done", !.printed = {c}]
    OBVIOUS
  <2>4. r \in Run /\ r.since = old.since /\ r.pc = "done" /\ r.printed = {c}
    BY <2>2, <2>3 DEF Run
  <2>5. run' = [run EXCEPT ![p] = r]
    BY <1>1, <1>6, <2>1, <2>2, <2>3 DEF UseCached
  <2>6. UNCHANGED <<now, file, broken>> /\ run[p].pc = "read"
    BY <1>6 DEF UseCached, RunAt
  <2>7. c.expires \in Nat /\ r.since \in Nat /\ c.expires > r.since
    BY <1>1, <2>1, <2>2, <2>4 DEF Run, Credential
  <2> QED
    BY <1>1, <1>3, <2>2, <2>4, <2>5, <2>6, <2>7
<1>7. ASSUME NEW p \in Runs, MissCache(p)
      PROVE  AuthInv'
  <2>1. PICK old \in Run : old = run[p] /\ old.since =< now
    BY <1>1
  <2>2. PICK r : r = [old EXCEPT !.pc = "login", !.useCache = (file.kind # "empty")]
    OBVIOUS
  <2>3. r \in Run /\ r.since = old.since /\ r.pc = "login"
    BY <2>1, <2>2 DEF Run
  <2>4. run' = [run EXCEPT ![p] = r]
    BY <1>1, <1>7, <2>1, <2>2 DEF MissCache
  <2>5. UNCHANGED <<now, file, broken>> /\ run[p].pc = "read"
    BY <1>7 DEF MissCache, RunAt
  <2> QED
    BY <1>1, <1>3, <2>1, <2>3, <2>4, <2>5
<1>8. ASSUME NEW p \in Runs, Login(p)
      PROVE  AuthInv'
  <2>1. PICK old \in Run : old = run[p] /\ old.since =< now
    BY <1>1
  <2>2. PICK c : c = [prefixed |-> ~run[p].noRegionPrefix, expires |-> now + Lifetime]
    OBVIOUS
  <2>3. c \in Credential /\ c.expires = now + Lifetime
    BY <1>1, <2>2 DEF Credential
  <2>4. PICK pc \in {"open", "done"} : pc = IF run[p].useCache THEN "open" ELSE "done"
    OBVIOUS
  <2>5. PICK r : r = [old EXCEPT !.pc = pc, !.printed = {c}]
    OBVIOUS
  <2>6. r \in Run /\ r.since = old.since /\ r.pc = pc /\ r.printed = {c}
    BY <2>1, <2>3, <2>4, <2>5 DEF Run
  <2>7. run' = [run EXCEPT ![p] = r]
    BY <1>1, <1>8, <2>1, <2>2, <2>4, <2>5 DEF Login
  <2>8. UNCHANGED <<now, file, broken>> /\ run[p].pc = "login"
    BY <1>8 DEF Login, RunAt
  <2>9. r.since \in Nat /\ c.expires > r.since
    BY <1>1, <2>1, <2>3, <2>6 DEF Run
  <2> QED
    BY <1>1, <1>3, <2>1, <2>6, <2>7, <2>8, <2>9
<1>9. ASSUME NEW p \in Runs, NEW pc \in {"write", "done"}, run' = [run EXCEPT ![p].pc = pc],
             run[p].pc \in {"open", "write"}, UNCHANGED <<now, broken>>, file' \in Files,
             pc = "done" => file' # Empty
      PROVE  AuthInv'
  <2>1. PICK old \in Run : old = run[p] /\ old.since =< now
    BY <1>1
  <2>2. PICK r : r = [old EXCEPT !.pc = pc]
    OBVIOUS
  <2>3. r \in Run /\ r.since = old.since /\ r.pc = pc /\ r.printed = old.printed
    BY <1>9, <2>1, <2>2 DEF Run
  <2>4. run' = [run EXCEPT ![p] = r]
    BY <1>1, <1>9, <2>1, <2>2
  <2>5. \A c \in r.printed : c.expires > r.since
    BY <1>1, <1>9, <2>1, <2>3 DEF HasCredential
  <2> QED
    BY <1>1, <1>3, <1>9, <2>1, <2>3, <2>4, <2>5
<1>10. ASSUME NEW p \in Runs, OpenCache(p)
       PROVE  AuthInv'
  BY <1>9, <1>10, Kinds DEF OpenCache, RunAt
<1>11. ASSUME NEW p \in Runs, WriteCache(p)
       PROVE  AuthInv'
  <2>1. PICK c \in run[p].printed : file' = Holding(c)
    BY <1>11 DEF WriteCache
  <2>2. c \in Credential
    BY <1>1 DEF Run
  <2> QED
    BY <1>9, <1>11, <2>1, <2>2, Kinds DEF WriteCache, RunAt
<1>12. ASSUME NEW p \in Runs, Abort(p)
       PROVE  AuthInv'
  <2>1. PICK r : r = IdleRun
    OBVIOUS
  <2>2. r \in Run /\ r.since = 0 /\ r.pc = "idle"
    BY <1>1, <2>1 DEF IdleRun, Run
  <2>3. run' = [run EXCEPT ![p] = r] /\ UNCHANGED <<now, file>>
    BY <1>12, <2>1 DEF Abort
  <2>4. broken' \in BOOLEAN /\ ((broken' = broken /\ run[p].pc # "write") \/ broken')
    <3>1. broken' = (broken \/ RunAt(p, "write"))
      BY <1>12 DEF Abort
    <3> QED
      BY <1>1, <3>1 DEF RunAt
  <2>5. now' = now /\ file' = file /\ r.since =< now
    BY <1>1, <2>2, <2>3
  <2> QED
    BY <1>1, <1>3, <2>2, <2>3, <2>4, <2>5
<1>13. CASE Tick
  <2>1. now' = now + 1 /\ now < MaxTime /\ UNCHANGED <<file, broken, run>>
    BY <1>13 DEF Tick
  <2>2. \A q \in Runs : run[q].since \in Nat
    BY <1>1 DEF Run
  <2> QED
    BY <1>1, <1>2, <2>1, <2>2 DEF HasCredential, RunAt
<1>14. CASE UNCHANGED pluginVars
  BY <1>1, <1>2, <1>14 DEF pluginVars, HasCredential, RunAt
<1> QED
  BY <1>5, <1>6, <1>7, <1>8, <1>10, <1>11, <1>12, <1>13, <1>14 DEF PluginNext, Act

LEMMA AuthInit == PluginInit => AuthInv
<1> SUFFICES ASSUME PluginInit
             PROVE  AuthInv
  OBVIOUS
<1>1. /\ now = 0 /\ file = Absent /\ broken = FALSE
      /\ run = [p \in Runs |-> IdleRun] /\ MaxTime \in Nat /\ 0 \in 0..MaxTime
  BY ScikubeAssumption DEF PluginInit
<1>2. PICK r : r = IdleRun
  OBVIOUS
<1>3. r \in Run /\ r.since = 0 /\ r.pc = "idle"
  BY <1>1, <1>2 DEF IdleRun, Run
<1>4. run \in [Runs -> Run] /\ \A p \in Runs : run[p] = r
  BY <1>1, <1>2, <1>3
<1>5. PluginTypeOK
  <2>1. file \in Files /\ now \in 0..MaxTime /\ broken \in BOOLEAN
    BY <1>1, Kinds
  <2>2. \A p \in Runs : run[p].since =< now
    BY <1>1, <1>3, <1>4
  <2> QED
    BY <1>4, <2>1, <2>2 DEF PluginTypeOK
<1>6. file # Empty
  BY <1>1 DEF Absent, Empty
<1> QED
  BY <1>3, <1>4, <1>5, <1>6 DEF AuthInv, EmptyOnlyWhileWritten, HasCredential

\* Whoever prints or writes has a credential that was live when its run started,
\* and an empty cache file has a writer or one that was killed.
THEOREM PluginInvariance == PluginSpec => []AuthInv
<1>1. PluginInit => AuthInv
  BY AuthInit
<1>2. AuthInv /\ [PluginNext]_pluginVars => AuthInv'
  BY AuthStep
<1> QED
  BY <1>1, <1>2, PTL DEF PluginSpec

\* What kubectl is given had not expired when the plugin was called, from whichever
\* run it came through the cache (the strict check of Read in the cache storage).
THEOREM NothingExpiredIsPrinted == PluginSpec => []PrintedIsLive
<1>1. AuthInv => PrintedIsLive
  BY DEF AuthInv, PrintedIsLive, HasCredential, RunAt
<1> QED
  BY <1>1, PluginInvariance, PTL

\* Concurrent writers of the cache file leave no empty one behind, only a run that is
\* killed does (os.WriteFile truncates, then writes).
THEOREM WritersFinish == PluginSpec => []EmptyOnlyWhileWritten
<1>1. AuthInv => EmptyOnlyWhileWritten
  BY DEF AuthInv
<1> QED
  BY <1>1, PluginInvariance, PTL
=============================================================================
