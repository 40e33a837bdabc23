------------------------ MODULE GardenAccess_proofs ------------------------
(***************************************************************************)
(* The way into a garden, for any regions, Keystones, catalogues, names    *)
(* and lengths of labels: what the webhooks and the operator make of a     *)
(* project's name the API server accepts and all agree on, and a Shoot and *)
(* its Secrets are of the region and the project whose namespace it is in. *)
(***************************************************************************)
EXTENDS GardenAccess, SequenceTheorems, WellFoundedInduction, TLAPS

-----------------------------------------------------------------------------
(* sanitizeLabelValue, for every name and every maximal length. *)

LEMMA LeastElement ==
    ASSUME NEW T, T \subseteq Nat, T # {}
    PROVE  \E m \in T : \A x \in T : m =< x
<1>1. PICK m \in T : \A y \in T : ~ (<<y, m>> \in OpToRel(<, Nat))
  BY NatLessThanWellFounded, WFMin, Zenon
<1>2. \A y \in T : ~ (y < m)
  BY <1>1 DEF OpToRel
<1> QED
  BY <1>2

\* Min and Max of positions.
LEMMA Extremes ==
    ASSUME NEW n \in Nat, NEW S, S \subseteq 1..n, S # {}
    PROVE  /\ Min(S) \in S /\ \A x \in S : Min(S) =< x
           /\ Max(S) \in S /\ \A x \in S : x =< Max(S)
<1>1. \E m \in S : \A x \in S : m =< x
  <2>1. S \subseteq Nat
    OBVIOUS
  <2> QED
    BY <2>1, LeastElement
<1>2. \E m \in S : \A x \in S : m >= x
  <2> DEFINE T == {n - x : x \in S}
  <2>1. \A x \in S : x \in Nat /\ n - x \in Nat
    OBVIOUS
  <2>2. T \subseteq Nat /\ T # {}
    BY <2>1
  <2>3. PICK k \in T : \A y \in T : k =< y
    <3> HIDE DEF T
    <3> QED
      BY <2>2, LeastElement
  <2>4. PICK m \in S : k = n - m
    BY <2>3
  <2>5. ASSUME NEW x \in S
        PROVE  m >= x
    <3>1. k =< n - x
      BY <2>3
    <3> QED
      BY <2>1, <2>4, <3>1
  <2> QED
    BY <2>5
<1> QED
  BY <1>1, <1>2 DEF Min, Max

Clean(s) == \A i \in DOMAIN s : s[i] # " "

\* Names and labels are sequences.
LEMMA NamesAreSequences ==
    /\ Name \subseteq Seq(Char) /\ Label \subseteq Seq(Char)
    /\ \A s \in Seq(Char) : Len(s) =< MaxLength => s \in Label
<1> USE NamesAssumption
<1>1. Name \subseteq Seq(Char)
  BY SeqDef DEF Name
<1>2. Label \subseteq Seq(Char)
  BY SeqDef DEF Label
<1>3. ASSUME NEW s \in Seq(Char), Len(s) =< MaxLength
      PROVE  s \in Label
  <2>1. Len(s) \in Nat /\ s \in [1..Len(s) -> Char]
    BY LenProperties
  <2>2. Len(s) \in 0..MaxLength
    BY <1>3, <2>1
  <2> QED
    BY <2>1, <2>2 DEF Label
<1> QED
  BY <1>1, <1>2, <1>3

LEMMA ReplacedIsClean ==
    ASSUME NEW s \in Seq(Char)
    PROVE  /\ Replaced(s) \in Seq(Char) /\ Len(Replaced(s)) = Len(s) /\ Clean(Replaced(s))
           /\ Clean(s) => Replaced(s) = s
<1>1. Len(s) \in Nat /\ DOMAIN s = 1..Len(s) /\ s \in [1..Len(s) -> Char]
  BY LenProperties
<1>2. PICK t : t = Replaced(s)
  OBVIOUS
<1>3. t \in [1..Len(s) -> Char] /\ \A i \in 1..Len(s) : t[i] = IF s[i] = " " THEN "_" ELSE s[i]
  BY <1>1, <1>2 DEF Replaced, Char
<1>4. t \in Seq(Char) /\ Len(t) = Len(s)
  <2>1. t \in Seq(Char)
    BY <1>1, <1>3, SeqDef
  <2>2. 1..Len(t) = 1..Len(s) /\ Len(t) \in Nat
    BY <1>3, <2>1, LenProperties
  <2>3. (Len(t) # 0 => Len(t) \in 1..Len(s)) /\ (Len(s) # 0 => Len(s) \in 1..Len(t))
    BY <1>1, <2>2
  <2> QED
    BY <1>1, <2>1, <2>2, <2>3
<1>5. Clean(t)
  BY <1>3 DEF Clean
<1>6. ASSUME Clean(s)
      PROVE  t = s
  <2>1. \A i \in 1..Len(s) : t[i] = s[i]
    BY <1>1, <1>3, <1>6 DEF Clean
  <2> QED
    BY <1>4, <2>1, SeqEqual
<1> QED
  BY <1>2, <1>4, <1>5, <1>6

\* Part of a text that ends, or that begins and ends, with a letter.
LEMMA PartOfText ==
    ASSUME NEW s \in Seq(Char), Clean(s), NEW m \in 1..Len(s), NEW n \in m..Len(s)
    PROVE  /\ SubSeq(s, m, n) \in Seq(Char) /\ Clean(SubSeq(s, m, n))
           /\ Len(SubSeq(s, m, n)) = n - m + 1 /\ SubSeq(s, m, n) # <<>>
           /\ SubSeq(s, m, n)[1] = s[m] /\ SubSeq(s, m, n)[Len(SubSeq(s, m, n))] = s[n]
<1>1. Len(s) \in Nat /\ DOMAIN s = 1..Len(s) /\ \A i \in m..n : s[i] \in Char
  BY LenProperties, ElementOfSeq
<1>2. PICK t : t = SubSeq(s, m, n)
  OBVIOUS
<1>3. m \in Int /\ n \in Int /\ m =< n
  BY <1>1
<1>4. /\ t \in Seq(Char) /\ Len(t) = n - m + 1
      /\ \A i \in 1..n - m + 1 : t[i] = s[m + i - 1]
  BY <1>1, <1>2, <1>3, SubSeqProperties
<1>5. DOMAIN t = 1..n - m + 1
  BY <1>4, LenProperties
<1>6. Clean(t)
  <2>1. ASSUME NEW i \in 1..n - m + 1
        PROVE  t[i] # " "
    <3>1. m + i - 1 \in 1..Len(s)
      BY <1>1
    <3> QED
      BY <1>1, <1>4, <3>1 DEF Clean
  <2> QED
    BY <1>5, <2>1 DEF Clean
<1>7. t # <<>> /\ t[1] = s[m] /\ t[Len(t)] = s[n]
  BY <1>1, <1>3, <1>4, <1>5, EmptySeq
<1> QED
  BY <1>2, <1>4, <1>6, <1>7

LEMMA EmptyTextIsValid ==
    <<>> \in Seq(Char) /\ Len(<<>>) = 0 /\ Clean(<<>>) /\ Valid(<<>>)
<1>1. <<>> \in Seq(Char) /\ Len(<<>>) = 0
  BY EmptySeq
<1>2. DOMAIN <<>> = {}
  BY <1>1, LenProperties
<1> QED
  BY <1>1, <1>2, NamesAssumption DEF Clean, Valid

\* The trimmed texts.
LEMMA Trimming ==
    ASSUME NEW s \in Seq(Char), Clean(s)
    PROVE  /\ TrimBoth(s) \in Seq(Char) /\ Clean(TrimBoth(s)) /\ Len(TrimBoth(s)) =< Len(s)
           /\ TrimBoth(s) # <<>> => TrimBoth(s)[1] = "a" /\ TrimBoth(s)[Len(TrimBoth(s))] = "a"
           /\ TrimRight(s) \in Seq(Char) /\ Clean(TrimRight(s)) /\ Len(TrimRight(s)) =< Len(s)
           /\ TrimRight(s) # <<>> =>
                TrimRight(s)[1] = s[1] /\ TrimRight(s)[Len(TrimRight(s))] = "a"
           /\ s # <<>> /\ s[1] = "a" /\ s[Len(s)] = "a" => TrimBoth(s) = s
<1>1. Len(s) \in Nat /\ DOMAIN s = 1..Len(s)
  BY LenProperties
<1>2. PICK A : A = Alphanumeric(s)
  OBVIOUS
<1>3. A \subseteq 1..Len(s) /\ (\A i \in A : s[i] = "a") /\ \A i \in 1..Len(s) : s[i] = "a" => i \in A
  BY <1>1, <1>2 DEF Alphanumeric
<1>4. CASE A = {}
  <2>1. TrimBoth(s) = <<>> /\ TrimRight(s) = <<>>
    BY <1>2, <1>4 DEF TrimBoth, TrimRight
  <2>2. ~ (s # <<>> /\ s[1] = "a")
    <3>1. s # <<>> => 1 \in 1..Len(s)
      BY <1>1, EmptySeq
    <3> QED
      BY <1>3, <1>4, <3>1
  <2> QED
    BY <1>1, <2>1, <2>2, EmptyTextIsValid
<1>5. CASE A # {}
  <2>1. PICK m, n : m = Min(A) /\ n = Max(A)
    OBVIOUS
  <2>2. /\ m \in A /\ n \in A /\ \A i \in A : m =< i /\ i =< n
    BY <1>1, <1>3, <1>5, <2>1, Extremes
  <2>3. m \in 1..Len(s) /\ n \in m..Len(s) /\ 1 \in 1..Len(s) /\ n \in 1..Len(s) /\ s[m] = "a" /\ s[n] = "a"
    BY <1>1, <1>3, <2>2
  <2>4. TrimBoth(s) = SubSeq(s, m, n) /\ TrimRight(s) = SubSeq(s, 1, n)
    BY <1>2, <1>5, <2>1 DEF TrimBoth, TrimRight
  <2>5. s[1] = "a" /\ s[Len(s)] = "a" => TrimBoth(s) = s
    <3>1. ASSUME s[1] = "a", s[Len(s)] = "a"
          PROVE  m = 1 /\ n = Len(s)
      <4>1. 1 \in A /\ Len(s) \in A
        BY <1>1, <1>3, <2>3, <3>1
      <4>2. m =< 1 /\ Len(s) =< n
        BY <2>2, <4>1
      <4>3. m \in Int /\ n \in Int /\ 1 =< m /\ n =< Len(s)
        BY <1>1, <2>3
      <4>4. m = 1
        BY <4>2, <4>3
      <4>5. n = Len(s)
        <5>1. PICK k : k = Len(s)
          OBVIOUS
        <5>2. k \in Int /\ k =< n /\ n =< k /\ n \in Int
          BY <1>1, <4>2, <4>3, <5>1
        <5>3. k = n
          BY <5>2
        <5> QED
          BY <5>1, <5>3
      <4> QED
        BY <4>4, <4>5
    <3> QED
      BY <2>4, <3>1, SubSeqFull
  <2>6. n - m + 1 =< Len(s) /\ n - 1 + 1 =< Len(s)
    BY <1>1, <2>3
  <2>7. /\ SubSeq(s, m, n) \in Seq(Char) /\ Clean(SubSeq(s, m, n))
        /\ Len(SubSeq(s, m, n)) = n - m + 1
        /\ SubSeq(s, m, n)[1] = s[m] /\ SubSeq(s, m, n)[Len(SubSeq(s, m, n))] = s[n]
    BY <2>3, PartOfText
  <2>8. /\ SubSeq(s, 1, n) \in Seq(Char) /\ Clean(SubSeq(s, 1, n))
        /\ Len(SubSeq(s, 1, n)) = n - 1 + 1
        /\ SubSeq(s, 1, n)[1] = s[1] /\ SubSeq(s, 1, n)[Len(SubSeq(s, 1, n))] = s[n]
    BY <2>3, PartOfText
  <2> QED
    BY <2>3, <2>4, <2>5, <2>6, <2>7, <2>8
<1> QED
  BY <1>4, <1>5

\* Whatever the name: a label that the API server accepts.
LEMMA LabelIsAccepted ==
    ASSUME NEW s \in Seq(Char)
    PROVE  Sanitize(s) \in Label /\ Valid(Sanitize(s))
<1> USE NamesAssumption
<1>1. PICK t : t = TrimBoth(Replaced(s))
  OBVIOUS
<1>2. /\ t \in Seq(Char) /\ Clean(t)
      /\ t # <<>> => t[1] = "a" /\ t[Len(t)] = "a"
  BY <1>1, ReplacedIsClean, Trimming
<1>3. PICK u : u = Sanitize(s)
  OBVIOUS
<1>4. u \in Seq(Char) /\ Clean(u) /\ Len(u) =< MaxLength /\ (u # <<>> => u[1] = "a" /\ u[Len(u)] = "a")
  <2>1. CASE Len(t) > MaxLength
    <3>1. MaxLength \in 1..Len(t) /\ 1 \in 1..Len(t) /\ t # <<>> /\ MaxLength - 1 + 1 = MaxLength
      BY <1>2, <2>1, LenProperties, EmptyTextIsValid
    <3>2. PICK v : v = SubSeq(t, 1, MaxLength)
      OBVIOUS
    <3>3. v \in Seq(Char) /\ Clean(v) /\ Len(v) = MaxLength /\ v[1] = "a"
      BY <1>2, <3>1, <3>2, PartOfText
    <3>4. u = TrimRight(v)
      BY <1>1, <1>3, <2>1, <3>2 DEF Sanitize
    <3> QED
      BY <3>3, <3>4, Trimming
  <2>2. CASE ~ (Len(t) > MaxLength)
    <3>1. u = t
      BY <1>1, <1>3, <2>2 DEF Sanitize
    <3>2. Len(t) \in Nat
      BY <1>2, LenProperties
    <3> QED
      BY <1>2, <2>2, <3>1, <3>2
  <2> QED
    BY <2>1, <2>2
<1> QED
  BY <1>3, <1>4, NamesAreSequences DEF Valid, Clean

\* A valid name is its own label, and so is a label.
LEMMA ValidStays ==
    ASSUME NEW s \in Seq(Char), Valid(s)
    PROVE  Sanitize(s) = s
<1> USE NamesAssumption
<1>1. /\ Clean(s) /\ Len(s) =< MaxLength /\ Len(s) \in Nat
      /\ s # <<>> => s[1] = "a" /\ s[Len(s)] = "a"
  BY LenProperties DEF Valid, Clean
<1>2. Replaced(s) = s
  BY <1>1, ReplacedIsClean
<1>3. TrimBoth(s) = s
  <2>1. CASE s = <<>>
    BY <2>1, EmptyTextIsValid DEF TrimBoth, Alphanumeric
  <2>2. CASE s # <<>>
    BY <1>1, <2>2, Trimming
  <2> QED
    BY <2>1, <2>2
<1>4. ~ (Len(s) > MaxLength)
  BY <1>1
<1> QED
  BY <1>2, <1>3, <1>4 DEF Sanitize

LEMMA LabelStays ==
    ASSUME NEW s \in Seq(Char)
    PROVE  Sanitize(Sanitize(s)) = Sanitize(s)
BY LabelIsAccepted, NamesAreSequences, ValidStays

LEMMA LabelIsNotMissing == \A s \in Seq(Char) : s # NoLabel
<1> SUFFICES ASSUME NEW s \in Seq(Char), s = NoLabel
             PROVE  FALSE
  OBVIOUS
<1>1. Len(s) = 1 /\ s[1] = "none"
  BY DEF NoLabel
<1>2. s[1] \in Char
  BY <1>1, ElementOfSeq
<1> QED
  BY <1>1, <1>2 DEF Char

-----------------------------------------------------------------------------
(* The records. *)

\* What the operator takes over from an InternalSecret, and what it makes of it.
SecretOf(name) == [region : Region, project : Project, label : {Sanitize(name)},
                   data : {name, Sanitize(name)}]

LEMMA NewSecretOfName ==
    ASSUME NEW name \in Seq(Char), NEW info \in [region : Region, project : Project,
                                                 name : {name, Sanitize(name)}]
    PROVE  /\ NewSecret(info) \in SecretOf(name)
           /\ NewSecret(info).region = info.region /\ NewSecret(info).project = info.project
<1>1. info.name \in {name, Sanitize(name)} /\ info.region \in Region /\ info.project \in Project
  OBVIOUS
<1>2. Sanitize(info.name) = Sanitize(name)
  BY <1>1, LabelStays
<1> QED
  BY <1>1, <1>2 DEF NewSecret, SecretOf

\* What a Shoot is created with: the bearer's region twice, and the workers'
\* range is that of the nodes unless the manifest has one.
LEMMA Admission ==
    ASSUME NEW m \in Manifest, NEW region
    PROVE  LET spec == Admit(Submitted(m), region) IN
           /\ spec.region = region /\ spec.seed = region /\ spec.workerless = m.workerless
           /\ \A field \in {"pool", "workers", "controlPlane", "pods", "nodes"} :
                 spec[field] \in IF spec.workerless THEN Given ELSE {"user", "default"}
           /\ ~spec.workerless /\ m.workers = Absent => spec.workers = spec.nodes
<1>1. PICK s : s = Submitted(m)
  OBVIOUS
<1>2. PICK t : t = IF s.workerless THEN s ELSE Networking(Infrastructure(s))
  OBVIOUS
<1>3. PICK u : u = [t EXCEPT !.region = region, !.seed = region]
  OBVIOUS
<1>4. u = Admit(Submitted(m), region)
  BY <1>1, <1>2, <1>3 DEF Admit
<1>5. /\ s = [workerless |-> m.workerless, pool |-> m.pool, workers |-> m.workers,
               controlPlane |-> m.controlPlane, pods |-> m.pods, nodes |-> m.nodes,
               region |-> Absent, seed |-> Absent]
      /\ m.workerless \in BOOLEAN /\ m.pool \in Given /\ m.workers \in Given
      /\ m.controlPlane \in Given /\ m.pods \in Given /\ m.nodes \in Given
  BY <1>1 DEF Submitted, Manifest
<1>6. CASE m.workerless
  <2>1. t = s
    BY <1>2, <1>5, <1>6
  <2>2. /\ u.region = region /\ u.seed = region /\ u.workerless = m.workerless
        /\ u.pool = m.pool /\ u.workers = m.workers /\ u.controlPlane = m.controlPlane
        /\ u.pods = m.pods /\ u.nodes = m.nodes
    BY <1>3, <1>5, <2>1
  <2> QED
    BY <1>4, <1>5, <1>6, <2>2
<1>7. CASE ~m.workerless
  <2>1. PICK v : v = Infrastructure(s)
    OBVIOUS
  <2>2. v = [workerless |-> m.workerless, pool |-> Default(m.pool),
             workers |-> IF m.workers = Absent THEN Default(m.nodes) ELSE m.workers,
             controlPlane |-> Default(m.controlPlane), pods |-> m.pods, nodes |-> m.nodes,
             region |-> Absent, seed |-> Absent]
    BY <1>5, <2>1 DEF Infrastructure
  <2>3. t = Networking(v)
    BY <1>2, <1>5, <1>7, <2>1
  <2>4. t = [workerless |-> m.workerless, pool |-> Default(m.pool),
             workers |-> IF m.workers = Absent THEN Default(m.nodes) ELSE m.workers,
             controlPlane |-> Default(m.controlPlane), pods |-> Default(m.pods),
             nodes |-> Default(m.nodes), region |-> Absent, seed |-> Absent]
    BY <2>2, <2>3 DEF Networking
  <2>5. /\ u.region = region /\ u.seed = region /\ u.workerless = m.workerless
        /\ u.pool = Default(m.pool) /\ u.controlPlane = Default(m.controlPlane)
        /\ u.workers = IF m.workers = Absent THEN Default(m.nodes) ELSE m.workers
        /\ u.pods = Default(m.pods) /\ u.nodes = Default(m.nodes)
    BY <1>3, <2>4
  <2>6. \A value \in Given : Default(value) \in {"user", "default"}
    BY DEF Default, Given, Absent
  <2>7. u.workers \in {"user", "default"}
    BY <1>5, <2>5, <2>6 DEF Given, Absent
  <2> QED
    BY <1>4, <1>5, <1>7, <2>5, <2>6, <2>7
<1> QED
  BY <1>6, <1>7

-----------------------------------------------------------------------------
(* The steps. *)

LEMMA AccessInit == Init => AccessInv
<1> SUFFICES ASSUME Init
             PROVE  AccessInv
  OBVIOUS
<1> USE AccessAssumption
<1>1. /\ account.keystone \in Keystone /\ account.name \in Name \ {<<>>}
      /\ account.foreign \in BOOLEAN
  BY DEF Init
<1>2. /\ kubeconfig = {} /\ token = {} /\ user = {} /\ manifest = {} /\ shoot = {}
      /\ secrets = <<>> /\ clusterUsers = {}
      /\ namespaces = [n \in Region \X Project |-> NoLabel]
  BY DEF Init
<1>3. DOMAIN secrets = {} /\ secrets \in Seq(SecretOf(account.name))
  BY <1>2, EmptySeq, LenProperties
<1>4. TypeOK
  BY <1>1, <1>2, <1>3 DEF TypeOK
<1>5. AccountInv
  BY <1>1, <1>2 DEF AccountInv
<1>6. ShootInv /\ WorkersAmongNodes
  BY <1>2 DEF ShootInv, WorkersAmongNodes
<1>7. LabelInv
  BY <1>2, <1>3 DEF LabelInv, SecretOf
<1> QED
  BY <1>4, <1>5, <1>6, <1>7 DEF AccessInv

\* What holds of the account's project and of what the Shoot is made of.
LEMMA AccessFacts ==
    ASSUME AccessInv
    PROVE  /\ account.name \in Seq(Char) /\ Sanitize(account.name) \in Label
           /\ ProjectIn("user") \in Project /\ ProjectIn("project") = "own"
           /\ namespaces \in [Region \X Project -> Label \cup {NoLabel}]
           /\ secrets \in Seq(SecretOf(account.name))
           /\ Len(secrets) \in Nat /\ DOMAIN secrets = 1..Len(secrets)
           /\ \A i \in DOMAIN secrets :
                secrets[i] \in SecretOf(account.name) /\ secrets[i].label = Sanitize(account.name)
<1>1. account.name \in Seq(Char)
  BY NamesAreSequences DEF AccessInv, TypeOK
<1>2. Sanitize(account.name) \in Label
  BY <1>1, LabelIsAccepted
<1>3. ProjectIn("user") \in Project /\ ProjectIn("project") = "own"
  BY DEF ProjectIn, Project
<1>4. secrets \in Seq(SecretOf(account.name)) /\ namespaces \in [Region \X Project -> Label \cup {NoLabel}]
  BY DEF AccessInv, LabelInv, SecretOf, TypeOK
<1>5. Len(secrets) \in Nat /\ DOMAIN secrets = 1..Len(secrets)
  BY <1>4, LenProperties
<1>6. ASSUME NEW i \in DOMAIN secrets
      PROVE  secrets[i] \in SecretOf(account.name) /\ secrets[i].label = Sanitize(account.name)
  <2>1. secrets[i] \in SecretOf(account.name)
    BY <1>4, <1>5, ElementOfSeq
  <2> QED
    BY <2>1 DEF SecretOf
<1> QED
  BY <1>1, <1>2, <1>3, <1>4, <1>5, <1>6

\* scikube writes its kubeconfig: from the catalogue of the account's Keystone.
LEMMA KubeconfigStep ==
    ASSUME AccessInv, NEW region \in Region \cup {NoRegion},
           NEW endpoints \in SUBSET PersephoneEndpoint(account.keystone),
           \/ KubeconfigFromCatalog(endpoints, region)
           \/ \E server \in PersephoneEndpoint(account.keystone), r \in Region :
                 KubeconfigByHand(server, r)
    PROVE  AccessInv'
<1>1. UNCHANGED <<account, token, user, namespaces, manifest, shoot, secrets, clusterUsers>>
  BY DEF KubeconfigFromCatalog, KubeconfigByHand
<1>2. \A k \in kubeconfig' :
         /\ k.region \in Region /\ k.project = "own" /\ k.domain = "user"
         /\ ~k.manual => /\ k.server.landscape = "asked" /\ k.server.public
                         /\ k.server.region = k.region /\ Home(k.region)
  <2>1. CASE KubeconfigFromCatalog(endpoints, region)
    <3>1. PICK e \in PersephoneEndpoints(endpoints, region) :
             kubeconfig' = {Kubeconfig(e, e.region, ProjectIn("project"), FALSE)}
      BY <2>1 DEF KubeconfigFromCatalog
    <3>2. e \in endpoints /\ e.landscape = "asked" /\ e.public
      BY <3>1 DEF PersephoneEndpoints, Matching
    <3>3. e.region \in Region /\ KeystoneOf[e.region] = account.keystone
      BY <3>2 DEF PersephoneEndpoint, RegionsOf
    <3> QED
      BY <3>1, <3>2, <3>3, AccessFacts DEF Kubeconfig, Home
  <2>2. ASSUME NEW server \in PersephoneEndpoint(account.keystone), NEW r \in Region,
               KubeconfigByHand(server, r)
        PROVE  \A k \in kubeconfig' :
                  k.region \in Region /\ k.project = "own" /\ k.domain = "user" /\ k.manual
    BY <2>2 DEF KubeconfigByHand, Kubeconfig
  <2> QED
    BY <2>1, <2>2
<1>3. TypeOK'
  BY <1>1, <1>2 DEF AccessInv, TypeOK, Project
<1>4. AccountInv'
  BY <1>1, <1>2 DEF AccessInv, AccountInv, Home, ProjectIn
<1>5. ShootInv' /\ LabelInv' /\ WorkersAmongNodes'
  BY <1>1 DEF AccessInv, ShootInv, LabelInv, WorkersAmongNodes, Home
<1> QED
  BY <1>3, <1>4, <1>5 DEF AccessInv

\* The region of the first public endpoint, if there is one.
LEMMA CatalogRegion ==
    ASSUME NEW keystone, NEW catalog \in IdentityCatalog(keystone)
    PROVE  RegionPrefix(catalog) \in Region \cup {NoRegion}
<1>1. PICK public : public = {i \in DOMAIN catalog : catalog[i].public}
  OBVIOUS
<1>2. \E n \in Nat : DOMAIN catalog = 1..n
  <2>1. DOMAIN <<>> = 1..0 /\ \A e : DOMAIN <<e>> = 1..1
    OBVIOUS
  <2>2. \A e, f : DOMAIN <<e, f>> = 1..2
    OBVIOUS
  <2> QED
    BY <2>1, <2>2 DEF IdentityCatalog
<1>3. \A i \in DOMAIN catalog : catalog[i].region \in Region
  BY DEF IdentityCatalog, IdentityEndpoint, RegionsOf
<1>4. public # {} => Min(public) \in public
  BY <1>1, <1>2, Extremes
<1> QED
  BY <1>1, <1>3, <1>4 DEF RegionPrefix

\* scikube auth: the region of the token is whatever its catalogue says first.
LEMMA TokenStep ==
    ASSUME AccessInv, NEW noPrefix \in BOOLEAN, NEW catalog \in IdentityCatalog(account.keystone),
           GetToken(catalog, noPrefix)
    PROVE  AccessInv'
<1>1. PICK k \in kubeconfig :
         token' = {[prefix |-> IF noPrefix THEN NoRegion ELSE RegionPrefix(catalog),
                    keystone |-> account.keystone, project |-> ProjectIn(k.domain)]}
  BY DEF GetToken
<1>2. UNCHANGED <<account, kubeconfig, user, namespaces, manifest, shoot, secrets, clusterUsers>>
  BY DEF GetToken
<1>3. k.domain = "user"
  BY DEF AccessInv, AccountInv
<1>4. RegionPrefix(catalog) \in Region \cup {NoRegion}
  BY CatalogRegion
<1>5. \A t \in token' : /\ t.prefix \in Region \cup {NoRegion} /\ t.project = ProjectIn("user")
                        /\ t.keystone = account.keystone
  BY <1>1, <1>3, <1>4
<1>6. TypeOK'
  BY <1>2, <1>5, AccessFacts DEF AccessInv, TypeOK
<1>7. AccountInv'
  BY <1>2, <1>5 DEF AccessInv, AccountInv, Home, ProjectIn
<1>8. ShootInv' /\ LabelInv' /\ WorkersAmongNodes'
  BY <1>2 DEF AccessInv, ShootInv, LabelInv, WorkersAmongNodes, Home
<1> QED
  BY <1>6, <1>7, <1>8 DEF AccessInv

\* The token webhook: the region of the token's prefix is one of its Keystone,
\* and the namespace's label is made of the project's name.
LEMMA ReviewStep ==
    ASSUME AccessInv, ReviewToken
    PROVE  AccessInv'
<1>1. PICK t \in token : \E region \in RegionOfToken(t) :
         /\ user' = {[region |-> region, project |-> t.project, name |-> account.name]}
         /\ namespaces' = [namespaces EXCEPT ![<<region, t.project>>] = Sanitize(account.name)]
  BY DEF ReviewToken
<1>2. PICK region \in RegionOfToken(t) :
         /\ user' = {[region |-> region, project |-> t.project, name |-> account.name]}
         /\ namespaces' = [namespaces EXCEPT ![<<region, t.project>>] = Sanitize(account.name)]
  BY <1>1
<1>3. UNCHANGED <<account, kubeconfig, token, manifest, shoot, secrets, clusterUsers>>
  BY DEF ReviewToken
<1>4. region \in Region /\ Home(region) /\ t.project = ProjectIn("user") /\ t.project \in Project
  BY AccessAssumption, AccessFacts DEF AccessInv, AccountInv, RegionOfToken, Home
<1>5. /\ <<region, t.project>> \in Region \X Project
      /\ namespaces' \in [Region \X Project -> Label \cup {NoLabel}]
      /\ \A n \in Region \X Project :
            namespaces'[n] = IF n = <<region, t.project>> THEN Sanitize(account.name) ELSE namespaces[n]
  BY <1>2, <1>4, AccessFacts
<1>6. Sanitize(account.name) # NoLabel
  BY AccessFacts, LabelIsAccepted, LabelIsNotMissing, NamesAreSequences
<1>7. TypeOK'
  <2>1. user' \subseteq Info
    BY <1>2, <1>4 DEF Info, AccessInv, TypeOK
  <2> QED
    BY <1>3, <1>5, <2>1 DEF AccessInv, TypeOK
<1>8. AccountInv'
  <2>1. \A u \in user' : Home(u.region) /\ u.project = ProjectIn("user") /\ u.name = account.name
    BY <1>2, <1>4
  <2> QED
    BY <1>3, <2>1 DEF AccessInv, AccountInv, Home, ProjectIn
<1>9. ShootInv'
  BY <1>3, <1>5, <1>6 DEF AccessInv, ShootInv, Home
<1>10. LabelInv'
  <2>1. \A n \in Region \X Project :
           namespaces'[n] # NoLabel => namespaces'[n] = Sanitize(account.name) /\ Home(n[1])
    BY <1>4, <1>5 DEF AccessInv, LabelInv
  <2> QED
    BY <1>3, <2>1 DEF AccessInv, LabelInv, Home
<1> QED
  BY <1>3, <1>7, <1>8, <1>9, <1>10 DEF AccessInv, WorkersAmongNodes

\* The project controller writes the label it reads.
LEMMA ReconcileStep ==
    ASSUME AccessInv, NEW n \in Region \X Project, ReconcileProject(n)
    PROVE  AccessInv'
<1>1. namespaces[n] # NoLabel /\ namespaces' = [namespaces EXCEPT ![n] = Sanitize(namespaces[n])]
  BY DEF ReconcileProject, Readable
<1>2. UNCHANGED <<account, kubeconfig, token, user, manifest, shoot, secrets, clusterUsers>>
  BY DEF ReconcileProject
<1>3. namespaces[n] = Sanitize(account.name)
  BY <1>1 DEF AccessInv, LabelInv
<1>4. Sanitize(namespaces[n]) = namespaces[n]
  BY <1>3, AccessFacts, LabelStays
<1>5. namespaces' = namespaces
  BY <1>1, <1>4, AccessFacts
<1> QED
  BY <1>2, <1>5
     DEF AccessInv, TypeOK, AccountInv, ShootInv, LabelInv, WorkersAmongNodes, Home, ProjectIn

\* The Shoot webhook: region and project are the bearer's, the namespace is that
\* of the kubeconfig.
LEMMA ShootStep ==
    ASSUME AccessInv, NEW m \in Manifest, CreateShoot(m)
    PROVE  AccessInv'
<1>1. PICK u \in user, k \in kubeconfig :
         /\ shoot = {} /\ Allowed(u, k) /\ manifest' = {m}
         /\ shoot' = {[namespace |-> <<k.region, k.project>>,
                       spec |-> Admit(Submitted(m), u.region)]}
         /\ secrets' = IF m.workerless THEN <<>> ELSE <<NewSecret(u)>>
         /\ clusterUsers' = clusterUsers \cup {<<u.region, u.project>>}
  BY DEF CreateShoot
<1>2. UNCHANGED <<account, kubeconfig, token, user, namespaces>>
  BY DEF CreateShoot
<1>3. /\ u \in Info /\ u.region \in Region /\ Home(u.region) /\ u.project \in Project
      /\ u.name = account.name
  BY DEF AccessInv, TypeOK, AccountInv, Info
<1>4. /\ <<k.region, k.project>> \in Region \X Project /\ u.project = k.project
      /\ namespaces[<<k.region, k.project>>] # NoLabel
  BY <1>1 DEF AccessInv, TypeOK, Allowed
<1>5. /\ NewSecret(u) \in SecretOf(account.name)
      /\ NewSecret(u).region = u.region /\ NewSecret(u).project = u.project
  <2>1. u \in [region : Region, project : Project, name : {account.name, Sanitize(account.name)}]
    BY <1>3 DEF Info
  <2> QED
    BY <2>1, AccessFacts, NewSecretOfName
<1>6. PICK spec : spec = Admit(Submitted(m), u.region)
  OBVIOUS
<1>7. /\ spec.region = u.region /\ spec.seed = u.region /\ spec.workerless = m.workerless
      /\ \A field \in {"pool", "workers", "controlPlane", "pods", "nodes"} :
            spec[field] \in IF spec.workerless THEN Given ELSE {"user", "default"}
      /\ ~spec.workerless /\ m.workers = Absent => spec.workers = spec.nodes
  BY <1>6, Admission
<1>8. /\ shoot' = {[namespace |-> <<k.region, k.project>>, spec |-> spec]}
      /\ clusterUsers = {}
  BY <1>1, <1>6 DEF AccessInv, ShootInv
<1>9. /\ secrets' \in Seq(SecretOf(account.name))
      /\ \A i \in DOMAIN secrets' :
            /\ secrets'[i] \in SecretOf(account.name)
            /\ secrets'[i].region = u.region /\ secrets'[i].project = u.project
  <2>1. CASE secrets' = <<>>
    BY <2>1, EmptySeq, LenProperties
  <2>2. CASE secrets' = <<NewSecret(u)>>
    <3>1. secrets' \in Seq(SecretOf(account.name)) /\ Len(secrets') = 1 /\ secrets'[1] = NewSecret(u)
      BY <1>5, <2>2
    <3>2. DOMAIN secrets' = 1..1
      BY <3>1, LenProperties
    <3>3. \A i \in 1..1 : i = 1
      OBVIOUS
    <3> QED
      BY <1>5, <3>1, <3>2, <3>3
  <2> QED
    BY <1>1, <2>1, <2>2
<1>10. TypeOK'
  <2>1. \A i \in DOMAIN secrets' : secrets'[i].label \in Label /\ secrets'[i].data \in Name \cup Label
    BY <1>9, AccessFacts DEF SecretOf, AccessInv, TypeOK
  <2>2. \A s \in shoot' : s.spec = spec
    BY <1>8
  <2>3. clusterUsers' \subseteq Region \X Project
    BY <1>1, <1>3, <1>8
  <2> QED
    BY <1>1, <1>2, <1>7, <2>1, <2>2, <2>3 DEF AccessInv, TypeOK
<1>11. AccountInv'
  BY <1>2 DEF AccessInv, AccountInv, Home, ProjectIn
<1>12. ShootInv'
  <2>1. \A s \in shoot' : s.namespace = <<k.region, k.project>> /\ s.spec = spec
    BY <1>8
  <2>2. <<k.region, k.project>>[2] = u.project
    BY <1>4
  <2>3. clusterUsers' = {<<u.region, u.project>>} /\ shoot' # {}
    BY <1>1, <1>8
  <2> QED
    BY <1>2, <1>3, <1>4, <1>7, <1>9, <2>1, <2>2, <2>3 DEF ShootInv, Home
<1>13. LabelInv'
  BY <1>2, <1>9 DEF AccessInv, LabelInv, SecretOf, Home
<1>14. WorkersAmongNodes'
  BY <1>1, <1>7, <1>8 DEF WorkersAmongNodes
<1> QED
  BY <1>10, <1>11, <1>12, <1>13, <1>14 DEF AccessInv

\* The operator makes a Secret of the labels of another.
LEMMA RenewStep ==
    ASSUME AccessInv, NEW i \in DOMAIN secrets, Renew(i)
    PROVE  AccessInv'
<1>1. PICK old, new : old = secrets[i] /\ new = NewSecret(InfoFromLabels(secrets[i]))
  OBVIOUS
<1>2. old \in SecretOf(account.name) /\ old.region \in Region /\ old.project \in Project
  BY <1>1, AccessFacts DEF SecretOf
<1>3. new \in SecretOf(account.name) /\ new.region = old.region /\ new.project = old.project
  <2>1. PICK info : info = InfoFromLabels(old)
    OBVIOUS
  <2>2. /\ info \in [region : Region, project : Project, name : {account.name, Sanitize(account.name)}]
        /\ info.region = old.region /\ info.project = old.project
    BY <1>2, <2>1 DEF InfoFromLabels, SecretOf
  <2>3. new = NewSecret(info)
    BY <1>1, <2>1
  <2> QED
    BY <2>2, <2>3, AccessFacts, NewSecretOfName
<1>4. /\ secrets' = Append(secrets, new)
      /\ clusterUsers' = clusterUsers \cup {<<old.region, old.project>>}
      /\ UNCHANGED <<account, kubeconfig, token, user, namespaces, manifest, shoot>>
  BY <1>1 DEF Renew
<1>5. /\ secrets' \in Seq(SecretOf(account.name))
      /\ \A j \in DOMAIN secrets' : (j \in DOMAIN secrets /\ secrets'[j] = secrets[j]) \/ secrets'[j] = new
      /\ DOMAIN secrets \subseteq DOMAIN secrets'
  <2>1. /\ secrets' \in Seq(SecretOf(account.name)) /\ Len(secrets') = Len(secrets) + 1
        /\ \A j \in 1..Len(secrets) : secrets'[j] = secrets[j]
        /\ secrets'[Len(secrets) + 1] = new
    BY <1>3, <1>4, AccessFacts, AppendProperties
  <2>2. DOMAIN secrets' = 1..(Len(secrets) + 1)
    BY <2>1, LenProperties
  <2> QED
    BY <2>1, <2>2, AccessFacts
<1>6. TypeOK'
  <2>1. \A j \in DOMAIN secrets' : secrets'[j].label \in Label /\ secrets'[j].data \in Name \cup Label
    BY <1>3, <1>5, AccessFacts DEF SecretOf, AccessInv, TypeOK
  <2> QED
    BY <1>2, <1>4, <2>1 DEF AccessInv, TypeOK
<1>7. AccountInv' /\ WorkersAmongNodes'
  BY <1>4 DEF AccessInv, AccountInv, WorkersAmongNodes, Home, ProjectIn
<1>8. ShootInv'
  <2>1. shoot # {}
    BY AccessFacts, EmptySeq DEF AccessInv, ShootInv
  <2>2. \A s \in shoot : /\ old.region = s.spec.region /\ old.project = s.namespace[2]
                         /\ clusterUsers' = clusterUsers
    BY <1>1, <1>4 DEF AccessInv, ShootInv
  <2> QED
    BY <1>3, <1>4, <1>5, <2>1, <2>2 DEF AccessInv, ShootInv, Home
<1>9. LabelInv'
  BY <1>4, <1>5 DEF AccessInv, LabelInv, SecretOf, Home
<1> QED
  BY <1>6, <1>7, <1>8, <1>9 DEF AccessInv

-----------------------------------------------------------------------------
(* The theorems. *)

LEMMA AccessStep == AccessInv /\ [Next]_vars => AccessInv'
<1> SUFFICES ASSUME AccessInv, [Next]_vars
             PROVE  AccessInv'
  OBVIOUS
<1>1. ASSUME NEW endpoints \in SUBSET PersephoneEndpoint(account.keystone),
             NEW region \in Region \cup {NoRegion}, KubeconfigFromCatalog(endpoints, region)
      PROVE  AccessInv'
  BY <1>1, KubeconfigStep
<1>2. ASSUME NEW server \in PersephoneEndpoint(account.keystone), NEW region \in Region,
             KubeconfigByHand(server, region)
      PROVE  AccessInv'
  <2>1. {} \in SUBSET PersephoneEndpoint(account.keystone)
    OBVIOUS
  <2> QED
    BY <1>2, <2>1, KubeconfigStep
<1>3. ASSUME NEW catalog \in IdentityCatalog(account.keystone), NEW noPrefix \in BOOLEAN,
             GetToken(catalog, noPrefix)
      PROVE  AccessInv'
  BY <1>3, TokenStep
<1>4. CASE ReviewToken
  BY <1>4, ReviewStep
<1>5. ASSUME NEW n \in Region \X Project, ReconcileProject(n)
      PROVE  AccessInv'
  BY <1>5, ReconcileStep
<1>6. ASSUME NEW m \in Manifest, CreateShoot(m)
      PROVE  AccessInv'
  BY <1>6, ShootStep
<1>7. ASSUME NEW i \in DOMAIN secrets, Renew(i)
      PROVE  AccessInv'
  BY <1>7, RenewStep
<1>8. CASE UNCHANGED vars
  BY <1>8
     DEF vars, AccessInv, TypeOK, AccountInv, ShootInv, LabelInv, WorkersAmongNodes, Home, ProjectIn
<1> QED
  BY <1>1, <1>2, <1>3, <1>4, <1>5, <1>6, <1>7, <1>8 DEF Next

\* The account's Keystone decides of every region, and the project's name of
\* every label; the Shoot webhook leaves no range of the workers outside.
THEOREM AccessInvariance == Spec => []AccessInv
<1>1. Init => AccessInv
  BY AccessInit
<1>2. AccessInv /\ [Next]_vars => AccessInv'
  BY AccessStep
<1> QED
  BY <1>1, <1>2, PTL DEF Spec

\* Workers are among the nodes unless their user said otherwise, although the
\* worker network is defaulted before that of the nodes (handler.go:193, :216).
THEOREM WorkersFit == Spec => []WorkersAmongNodes
<1>1. AccessInv => WorkersAmongNodes
  BY DEF AccessInv
<1> QED
  BY <1>1, AccessInvariance, PTL

\* The API server takes every label that sanitizeLabelValue makes.
THEOREM EveryNameHasItsLabel == Spec => []LabelsAccepted
<1>1. AccessInv => LabelsAccepted
  <2> SUFFICES ASSUME AccessInv
               PROVE  LabelsAccepted
    OBVIOUS
  <2>1. Valid(Sanitize(account.name))
    BY AccessFacts, LabelIsAccepted
  <2>2. TypeOK /\ DOMAIN namespaces = Region \X Project
    BY AccessFacts DEF AccessInv
  <2>3. \A n \in DOMAIN namespaces : namespaces[n] # NoLabel => Valid(namespaces[n])
    BY <2>1, <2>2 DEF AccessInv, LabelInv
  <2>4. \A i \in DOMAIN secrets : Valid(secrets[i].label)
    BY <2>1, AccessFacts
  <2> QED
    BY <2>2, <2>3, <2>4 DEF LabelsAccepted
<1> QED
  BY <1>1, AccessInvariance, PTL

\* The labels of the namespace and of all generations of Secrets are one.
THEOREM OneLabel == Spec => []LabelsAgree
<1>1. AccessInv => LabelsAgree
  <2> SUFFICES ASSUME AccessInv, NEW s \in shoot, NEW i \in DOMAIN secrets
               PROVE  secrets[i].label = namespaces[s.namespace]
    BY DEF LabelsAgree
  <2>1. namespaces[s.namespace] = Sanitize(account.name)
    BY DEF AccessInv, ShootInv, LabelInv
  <2> QED
    BY <2>1, AccessFacts
<1> QED
  BY <1>1, AccessInvariance, PTL

\* A name that is a label is kept, and can be read back from each Secret.
THEOREM PlainNameKept == Spec => []PlainNamesKept
<1>1. AccessInv => PlainNamesKept
  <2> SUFFICES ASSUME AccessInv, Valid(account.name), NEW i \in DOMAIN secrets
               PROVE  secrets[i].data = account.name /\ Readable(secrets[i].label)
    BY DEF PlainNamesKept
  <2>1. Sanitize(account.name) = account.name
    BY AccessFacts, ValidStays
  <2>2. account.name \notin {NoLabel, <<>>}
    BY AccessFacts, LabelIsNotMissing DEF AccessInv, AccountInv
  <2> QED
    BY <2>1, <2>2, AccessFacts DEF SecretOf, Readable
<1> QED
  BY <1>1, AccessInvariance, PTL

\* Where each region has a Keystone of its own, what scikube, the token webhook
\* and the Shoot webhook each found out about the region is the same.
THEOREM OneRegion ==
    ASSUME \A r, s \in Region : KeystoneOf[r] = KeystoneOf[s] => r = s
    PROVE  Spec => []RegionsAgree
<1>1. AccessInv => RegionsAgree
  <2> SUFFICES ASSUME AccessInv, NEW s \in shoot
               PROVE  /\ s.spec.region = s.namespace[1] /\ s.spec.seed = s.namespace[1]
                      /\ \A i \in DOMAIN secrets :
                            <<secrets[i].region, secrets[i].project>> = s.namespace
                      /\ clusterUsers = {s.namespace}
    BY DEF RegionsAgree
  <2>1. /\ s.namespace \in Region \X Project /\ s.spec.region \in Region
        /\ Home(s.spec.region) /\ Home(s.namespace[1]) /\ s.spec.seed = s.spec.region
        /\ \A i \in DOMAIN secrets :
              secrets[i].region = s.spec.region /\ secrets[i].project = s.namespace[2]
        /\ clusterUsers = {<<s.spec.region, s.namespace[2]>>}
    BY DEF AccessInv, ShootInv, LabelInv
  <2>2. s.spec.region = s.namespace[1]
    BY <2>1 DEF Home
  <2>3. s.namespace = <<s.namespace[1], s.namespace[2]>>
    BY <2>1
  <2> QED
    BY <2>1, <2>2, <2>3
<1> QED
  BY <1>1, AccessInvariance, PTL

\* Nor can a kubeconfig from the catalogue name another region than the token
\* webhook sees, and the projects agree exactly if the account's user and project
\* are in one domain (kubeconfig.go:81).
THEOREM LeadsHome ==
    ASSUME \A r, s \in Region : KeystoneOf[r] = KeystoneOf[s] => r = s
    PROVE  Spec => []KubeconfigLeadsHome
<1>1. AccessInv => KubeconfigLeadsHome
  <2> SUFFICES ASSUME AccessInv, NEW k \in kubeconfig, ~k.manual
               PROVE  /\ k.server.landscape = "asked" /\ k.server.public
                      /\ k.server.region = k.region
                      /\ \A u \in user : u.region = k.region /\ (u.project = k.project <=> ~account.foreign)
    BY Zenon DEF KubeconfigLeadsHome
  <2>1. /\ k.server.landscape = "asked" /\ k.server.public /\ k.server.region = k.region
        /\ k.region \in Region /\ Home(k.region) /\ k.project = "own"
    BY DEF AccessInv, AccountInv, TypeOK
  <2>2. \A u \in user : u.region \in Region /\ Home(u.region) /\ u.project = ProjectIn("user")
    BY <2>1 DEF AccessInv, AccountInv, TypeOK, Info
  <2>3. ProjectIn("user") = "own" <=> ~account.foreign
    BY DEF ProjectIn
  <2>4. ASSUME NEW u \in user
        PROVE  u.region = k.region /\ (u.project = k.project <=> ~account.foreign)
    <3>1. u.region = k.region
      BY <2>1, <2>2 DEF Home
    <3>2. u.project = ProjectIn("user") /\ k.project = "own"
      BY <2>1, <2>2
    <3> QED
      BY <3>1, <3>2, <2>3
  <2> QED
    BY <2>1, <2>4
<1> QED
  BY <1>1, AccessInvariance, PTL
=============================================================================
