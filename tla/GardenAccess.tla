---------------------------- MODULE GardenAccess ----------------------------
(***************************************************************************)
(* The way of one OpenStack account into a garden: scikube finds the       *)
(* garden in the service catalogue and writes a kubeconfig, kubectl runs   *)
(* scikube auth for a token, the token webhook has Keystone tell whose it  *)
(* is and provisions the project, the Shoot webhook makes a Shoot, a       *)
(* cluster user and a Secret of what the token webhook said, and the       *)
(* operator makes further Secrets of the labels of the first.  Each of     *)
(* them finds out about region and project on its own.                     *)
(***************************************************************************)
EXTENDS ProjectNames, ShootDefaults

CONSTANTS
    Region,
    Configured,     \* regions of the garden's configuration with an identity endpoint
    Keystone,
    KeystoneOf,     \* the Keystone behind the identity endpoint of each region
    MaxSecrets      \* bound: InternalSecrets of the Shoot

ASSUME AccessAssumption ==
    /\ Configured \subseteq Region /\ KeystoneOf \in [Region -> Keystone]
    /\ MaxSecrets \in Nat

VARIABLES
    account,      \* [keystone, name, foreign]: the project's name, and if it is in another domain
    kubeconfig,   \* at most one [server, region, project, domain, manual]
    token,        \* at most one [prefix, keystone, project]
    user,         \* as whom the garden knows the bearer: at most one [region, project, name]
    namespaces,   \* the label with the project's name, or NoLabel, of garden-<region>-<project>
    manifest,     \* what the Shoot was created from
    shoot,        \* at most one [namespace, spec]
    secrets,      \* [region, project, label, data] of the Shoot's InternalSecrets, oldest first
    clusterUsers  \* <<region, project>> of each cluster user of the Shoot's name

vars == <<account, kubeconfig, token, user, namespaces, manifest, shoot, secrets, clusterUsers>>

\* The account's project, and one of the same name in the user's domain if that is another.
Project == {"own", "namesake"}

NoRegion == "none"
Info == [region : Region, project : Project, name : Name \cup Label]

TypeOK ==
    /\ account.keystone \in Keystone /\ account.name \in Name /\ account.foreign \in BOOLEAN
    /\ \A k \in kubeconfig : k.region \in Region /\ k.project \in Project
    /\ \A t \in token : t.prefix \in Region \cup {NoRegion} /\ t.project \in Project
    /\ user \subseteq Info
    /\ namespaces \in [Region \X Project -> Label \cup {NoLabel}]
    /\ manifest \subseteq Manifest
    /\ \A s \in shoot : \A field \in {"pool", "workers", "controlPlane", "pods", "nodes"} :
          s.spec[field] \in IF s.spec.workerless THEN Given ELSE {"user", "default"}
    /\ \A i \in DOMAIN secrets : secrets[i].label \in Label /\ secrets[i].data \in Name \cup Label
    /\ clusterUsers \subseteq Region \X Project

Init ==
    /\ account \in [keystone : Keystone, name : Name \ {<<>>}, foreign : BOOLEAN]
    /\ namespaces = [n \in Region \X Project |-> NoLabel]
    /\ kubeconfig = {} /\ token = {} /\ user = {} /\ manifest = {} /\ shoot = {}
    /\ secrets = <<>> /\ clusterUsers = {}

-----------------------------------------------------------------------------
(* scikube.                                                                *)

\* What a Keystone's catalogue may list: endpoints of persephone in the regions
\* it serves, for the landscape asked for and others, and identity endpoints.
RegionsOf(k) == {r \in Region : KeystoneOf[r] = k}
PersephoneEndpoint(k) == [landscape : {"asked", "other"}, public : BOOLEAN, region : RegionsOf(k)]
IdentityEndpoint(k) == [public : BOOLEAN, region : RegionsOf(k)]
IdentityCatalog(k) == {<<>>} \cup {<<e>> : e \in IdentityEndpoint(k)}
                      \cup (IdentityEndpoint(k) \X IdentityEndpoint(k))

\* Mutant of Matching: endpoints of any interface.
MatchingAnyInterface(endpoints) == {e \in endpoints : e.landscape = "asked"}

Matching(endpoints) == {e \in endpoints : e.landscape = "asked" /\ e.public}

\* GetPersephoneEndpoint: the one of the region, or without region the only one.
PersephoneEndpoints(endpoints, region) ==
    IF region # NoRegion
    THEN {e \in Matching(endpoints) : e.region = region}
    ELSE IF Cardinality(Matching(endpoints)) = 1 THEN Matching(endpoints) ELSE {}

\* The project that Keystone finds by its name in the domain of the user or the project.
ProjectIn(domain) == IF domain = "user" /\ account.foreign THEN "namesake" ELSE "own"

\* GetKubeconfigForGarden: the context's namespace, and the environment of the plugin,
\* whose OS_PROJECT_DOMAIN_NAME is the domain of the user; it fails if anything is missing.
Kubeconfig(server, region, project, manual) ==
    [server |-> server, region |-> region, project |-> project, domain |-> "user", manual |-> manual]

\* kubeconfig-for-garden without --url, which asks Keystone for the project first.
KubeconfigFromCatalog(endpoints, region) ==
    \E e \in PersephoneEndpoints(endpoints, region) :
       /\ kubeconfig' = {Kubeconfig(e, e.region, ProjectIn("project"), FALSE)}
       /\ UNCHANGED <<account, token, user, namespaces, manifest, shoot, secrets, clusterUsers>>

\* kubeconfig-for-garden with --url and --project-id: a region is needed, and
\* nobody checks that the three fit.
KubeconfigByHand(server, region) ==
    /\ kubeconfig' = {Kubeconfig(server, region, "own", TRUE)}
    /\ UNCHANGED <<account, token, user, namespaces, manifest, shoot, secrets, clusterUsers>>

\* getRegion: of the first public identity endpoint.
RegionPrefix(catalog) ==
    LET public == {i \in DOMAIN catalog : catalog[i].public}
    IN  IF public = {} THEN NoRegion ELSE catalog[Min(public)].region

\* scikube auth with the environment of the kubeconfig and a password: the project is
\* looked up by its name in the domain of the user.
GetToken(catalog, noPrefix) ==
    \E k \in kubeconfig :
       /\ token' = {[prefix |-> IF noPrefix THEN NoRegion ELSE RegionPrefix(catalog),
                     keystone |-> account.keystone,
                     project |-> ProjectIn(k.domain)]}
       /\ UNCHANGED <<account, kubeconfig, user, namespaces, manifest, shoot, secrets, clusterUsers>>

-----------------------------------------------------------------------------
(* The token webhook and the project controller.                           *)

\* Mutant of RegionOfToken: the default region for a token without one.
RegionOfTokenOrDefault(t) ==
    IF t.prefix = NoRegion THEN Configured
    ELSE {r \in Configured : r = t.prefix /\ KeystoneOf[r] = t.keystone}

\* getRegionalIdentityEndpoint, and the Keystone there knows the token.
RegionOfToken(t) == {r \in Configured : r = t.prefix /\ KeystoneOf[r] = t.keystone}

ReviewToken ==
    \E t \in token : \E region \in RegionOfToken(t) :
       /\ user' = {[region |-> region, project |-> t.project, name |-> account.name]}
       /\ namespaces' = [namespaces EXCEPT ![<<region, t.project>>] = Sanitize(account.name)]
       /\ UNCHANGED <<account, kubeconfig, token, manifest, shoot, secrets, clusterUsers>>

\* The namespace again, from its labels.
ReconcileProject(n) ==
    /\ Readable(namespaces[n])
    /\ namespaces' = [namespaces EXCEPT ![n] = Sanitize(@)]
    /\ UNCHANGED <<account, kubeconfig, token, user, manifest, shoot, secrets, clusterUsers>>

-----------------------------------------------------------------------------
(* The Shoot webhook and the internalsecret controller.                    *)

\* The group of the RoleBinding names the project, not the region.
Allowed(u, k) == namespaces[<<k.region, k.project>>] # NoLabel /\ u.project = k.project

\* ApplicationCredentialsInternalSecret
NewSecret(info) ==
    [region |-> info.region, project |-> info.project,
     label |-> Sanitize(info.name), data |-> info.name]

CreateShoot(m) ==
    \E u \in user, k \in kubeconfig :
       /\ shoot = {} /\ Allowed(u, k)
       /\ manifest' = {m}
       /\ shoot' = {[namespace |-> <<k.region, k.project>>, spec |-> Admit(Submitted(m), u.region)]}
       /\ secrets' = IF m.workerless THEN <<>> ELSE <<NewSecret(u)>>
       /\ clusterUsers' = clusterUsers \cup {<<u.region, u.project>>}
       /\ UNCHANGED <<account, kubeconfig, token, user, namespaces>>

\* OpenStackUserInfoFromLabels
InfoFromLabels(s) == [region |-> s.region, project |-> s.project, name |-> s.label]

Renew(i) ==
    /\ Readable(secrets[i].label) /\ Len(secrets) < MaxSecrets
    /\ secrets' = Append(secrets, NewSecret(InfoFromLabels(secrets[i])))
    /\ clusterUsers' = clusterUsers \cup {<<secrets[i].region, secrets[i].project>>}
    /\ UNCHANGED <<account, kubeconfig, token, user, namespaces, manifest, shoot>>

Next ==
    \/ \E endpoints \in SUBSET PersephoneEndpoint(account.keystone), region \in Region \cup {NoRegion} :
          KubeconfigFromCatalog(endpoints, region)
    \/ \E server \in PersephoneEndpoint(account.keystone), region \in Region :
          KubeconfigByHand(server, region)
    \/ \E catalog \in IdentityCatalog(account.keystone), noPrefix \in BOOLEAN :
          GetToken(catalog, noPrefix)
    \/ ReviewToken \/ \E n \in Region \X Project : ReconcileProject(n)
    \/ \E m \in Manifest : CreateShoot(m)
    \/ \E i \in DOMAIN secrets : Renew(i)

Spec == Init /\ [][Next]_vars

-----------------------------------------------------------------------------
(* Properties.                                                             *)

\* The kubeconfig names persephone's public endpoint for the landscape and has
\* kubectl work in a namespace of the region that the token webhook sees for its
\* bearer, although one comes from the service catalogue (catalog.go), the other
\* from the identity catalogue (getRegion).  The project is the bearer's, too, if
\* the user is in the project's domain, and only then: the plugin is told the
\* domain of the user for that of the project (kubeconfig.go:81).
KubeconfigLeadsHome ==
    \A k \in kubeconfig : ~k.manual =>
        /\ k.server.landscape = "asked" /\ k.server.public /\ k.server.region = k.region
        /\ \A u \in user : u.region = k.region /\ (u.project = k.project <=> ~account.foreign)

\* What a kubeconfig has kubectl work in is the bearer's project.
KubeconfigKeepsProject ==
    \A k \in kubeconfig, u \in user : ~k.manual => u.project = k.project

\* A Shoot, its Secrets through all renewals, and the one cluster user made for it
\* are of the region and the project whose namespace it is in, whatever the
\* kubeconfig, and whoever with a role in the project created it.
RegionsAgree ==
    \A s \in shoot :
        /\ s.spec.region = s.namespace[1] /\ s.spec.seed = s.namespace[1]
        /\ \A i \in DOMAIN secrets : <<secrets[i].region, secrets[i].project>> = s.namespace
        /\ clusterUsers = {s.namespace}

\* The workers of a Shoot are in the range of its nodes, unless its user set a
\* range for the workers; handler.go:193 sets the one before :216 sets the other.
WorkersAmongNodes ==
    \A s \in shoot, m \in manifest :
        ~s.spec.workerless /\ m.workers = Absent => s.spec.workers = s.spec.nodes

\* No project is left without namespace, no Shoot without Secret, because the
\* API server refuses what sanitizeLabelValue (lines 224-243) made of a name.
LabelsAccepted ==
    /\ TypeOK
    /\ \A n \in DOMAIN namespaces : namespaces[n] # NoLabel => Valid(namespaces[n])
    /\ \A i \in DOMAIN secrets : Valid(secrets[i].label)

\* A label made from a label is that label, however often Secrets are renewed
\* and the namespace is reconciled: the token webhook and the operator do not
\* fight over it, and a generation of Secrets does not drift from the last.
LabelsAgree ==
    \A s \in shoot : \A i \in DOMAIN secrets : secrets[i].label = namespaces[s.namespace]

\* A name that fits into a label is that of all generations of Secrets, and each
\* can be renewed.
PlainNamesKept ==
    Valid(account.name) =>
        \A i \in DOMAIN secrets :
            secrets[i].data = account.name /\ Readable(secrets[i].label)

\* Every InternalSecret carries the project's name.
SecretsNameProject == \A i \in DOMAIN secrets : secrets[i].data = account.name

\* Every InternalSecret can be renewed.
SecretsRenewable == \A i \in DOMAIN secrets : Readable(secrets[i].label)

-----------------------------------------------------------------------------
\* Why they hold: what each part finds out about region and project comes from
\* the account's Keystone, and every label from its project's name.
Home(region) == KeystoneOf[region] = account.keystone

AccountInv ==
    /\ account.name # <<>>
    /\ \A k \in kubeconfig : ~k.manual =>
          /\ k.server.landscape = "asked" /\ k.server.public /\ k.server.region = k.region
          /\ Home(k.region) /\ k.project = "own"
    /\ \A k \in kubeconfig : k.domain = "user"
    /\ \A t \in token : t.keystone = account.keystone /\ t.project = ProjectIn("user")
    /\ \A u \in user : Home(u.region) /\ u.project = ProjectIn("user") /\ u.name = account.name

ShootInv ==
    /\ \A s \in shoot :
          /\ s.namespace \in Region \X Project /\ namespaces[s.namespace] # NoLabel
          /\ s.spec.region \in Region /\ Home(s.spec.region) /\ s.spec.seed = s.spec.region
          /\ \A i \in DOMAIN secrets :
                secrets[i].region = s.spec.region /\ secrets[i].project = s.namespace[2]
          /\ clusterUsers = {<<s.spec.region, s.namespace[2]>>}
    /\ shoot = {} => secrets = <<>> /\ clusterUsers = {}

LabelInv ==
    /\ \A n \in Region \X Project :
          namespaces[n] # NoLabel => namespaces[n] = Sanitize(account.name) /\ Home(n[1])
    /\ secrets \in Seq([region : Region, project : Project, label : {Sanitize(account.name)},
                        data : {account.name, Sanitize(account.name)}])

AccessInv == TypeOK /\ AccountInv /\ ShootInv /\ LabelInv /\ WorkersAmongNodes
=============================================================================
