------------------------ MODULE CertificateInvariant ------------------------
(***************************************************************************)
(* The inductive invariants of AuditCertificates, for any number of        *)
(* replicas, generations, lost responses and deletions: AcceptInv for      *)
(* whom a replica accepts, RotationInv for what the rotations start from,  *)
(* CertificateInv for what a replica serves with which CAs.                *)
(***************************************************************************)
EXTENDS AuditCertificates

\* The Secret has the last generation; the forwarder has had every generation
\* that is past its half-life.
Newest ==
    /\ secret # Empty => secret.gen = made
    /\ client =< made /\ roots \subseteq 1..made
    /\ \A g \in aged : g =< made /\ g =< client

\* What any copy of the Secret tells, on whichever disk or in whichever memory:
\* it bundles the CA of a generation that was due, and whatever lies between
\* the two is known to be dropped.
Sound ==
    {copy \in Copy :
       /\ copy.gen =< made /\ (copy.gen = 0 => copy = Empty)
       /\ copy.gen = made /\ secret # Empty => copy = secret
       /\ copy.prev # 0 => copy.prev \in aged /\ copy.prev < copy.gen
       /\ \A g \in 1..made : copy.prev < g /\ g < copy.gen => g \in Dropped(copy)}

\* Wherever a copy of the Secret is kept, it is one of those.
CopiesIn(Kind) ==
    /\ secret \in Kind /\ rotator.base \in Kind
    /\ cache \in [Replicas -> Kind] /\ pool \in [Replicas -> Kind]
    /\ writer \in [Replicas -> [at : 0..3, data : Kind]]
    /\ files \in [Replicas -> [{"ca", "crt", "key"} -> Kind]]

\* What was replaced has been in use for half its lifetime, is known to be
\* skipped, or has gone with a Secret.
Replaced ==
    secret # Empty =>
      \A g \in 1..made :
        g = made \/ g \in skipped \/ g \in aged \/ \E first \in roots : g < first

\* A running replica knows of every generation that was due.
KnowsAged ==
    /\ \A r \in Replicas : Running(r) /\ cache[r] # Empty => \A g \in aged : g =< cache[r].gen
    /\ rotator.pc = "patch" =>
         rotator.base.gen \in aged /\ \A g \in aged : g =< rotator.base.gen

AcceptInv == TypeOK /\ Newest /\ CopiesIn(Sound) /\ Replaced /\ KnowsAged

\* Without a fault the rotator's copy is the Secret, which bundles the
\* generation before its own.
FaultFree ==
    /\ secret.gen = made /\ (secret # Empty => secret.prev = made - 1)
    /\ skipped = {} /\ rotator.pc # "create"
    /\ rotator.again \/ rotator.pc = "patch" => cache[leader] = secret
    /\ rotator.pc = "patch" => rotator.base = secret
    /\ \A r \in Replicas : Running(r) => secret # Empty /\ cache[r] # Empty

RotationInv ==
    /\ AcceptInv
    /\ rotator.again \/ rotator.pc # "idle" => Running(leader)
    /\ losses + deletions = 0 => FaultFree

\* A replica's disk: written is what tls.key holds, a write in progress brings
\* a newer generation and has replaced the files before its own.
DiskInv(r) ==
    LET data == writer[r].data IN
    /\ writer[r].at = 0 => data = Empty
    /\ writer[r].at # 0 =>
         data # Empty /\ data.gen > written[r] /\ (cache[r] # Empty => data.gen =< cache[r].gen)
    /\ cache[r] # Empty => written[r] =< cache[r].gen
    /\ files[r]["key"].gen = written[r]
    /\ writer[r].at \in {2, 3} => files[r]["ca"] = data
    /\ writer[r].at = 3 => files[r]["crt"] = data
    /\ written[r] = made => files[r]["ca"].gen = made /\ files[r]["crt"].gen = made

\* Its memory, once it serves the last generation.
MemoryInv(r) ==
    /\ serving[r] # 0 /\ serving[r] =< made
    /\ serving[r] = made => written[r] = made /\ (~notify[r] => pool[r].gen = made)

\* Without a fault it is at most one generation behind.
Lag(r) ==
    /\ written[r] >= made - 1 /\ serving[r] >= made - 1 /\ pool[r].gen >= made - 1
    /\ files[r]["ca"] # Empty => files[r]["ca"].gen >= made - 1

ReplicaInv(r) ==
    /\ ~Running(r) => writer[r] = IdleWriter /\ ~notify[r]
    /\ Running(r) => DiskInv(r) /\ MemoryInv(r) /\ (losses + deletions = 0 => Lag(r))
    /\ Running(r) /\ secret # Empty /\ secret.gen \in aged => UpToDate(r)

CertificateInv == RotationInv /\ \A r \in Replicas : ReplicaInv(r)
=============================================================================
