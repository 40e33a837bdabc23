---------------------------- MODULE ScikubeAuth -----------------------------
(***************************************************************************)
(* scikube auth, the kubectl credential plugin (cmd/scikube/cmd/auth.go    *)
(* and internal/auth): every kubectl command runs it, so several runs with *)
(* the same OpenStack account share one cache file, which they read,       *)
(* truncate and write without a lock, and which a killed run leaves as it  *)
(* is.  A credential is the token's expiry and whether the region precedes *)
(* it; all runs have the same options but --no-region-prefix, so they have *)
(* the same cache key.                                                     *)
(***************************************************************************)
EXTENDS Naturals

CONSTANTS
    Runs,
    Lifetime,    \* of a token
    MaxTime      \* bound

ASSUME ScikubeAssumption == Lifetime \in Nat \ {0} /\ MaxTime \in Nat

VARIABLES
    now,
    file,     \* the cache file: absent, empty or a credential, as a set
    broken,   \* a run was killed, or failed, with the cache file truncated
    run       \* [pc, noRegionPrefix, useCache, the credential: none or one, since]

pluginVars == <<now, file, broken, run>>

Credential == [prefixed : BOOLEAN, expires : 1..(MaxTime + Lifetime)]
Absent == [kind |-> "absent"]
Empty == [kind |-> "empty"]
Holding(c) == [kind |-> "credential", credential |-> c]
Files == {Absent, Empty} \cup {Holding(c) : c \in Credential}

Run == [pc : {"idle", "read", "login", "open", "write", "done"}, noRegionPrefix : BOOLEAN,
        useCache : BOOLEAN, printed : SUBSET Credential, since : 0..MaxTime]
NewRun(flag) ==
    [pc |-> "read", noRegionPrefix |-> flag, useCache |-> TRUE, printed |-> {}, since |-> now]
IdleRun == [pc |-> "idle", noRegionPrefix |-> FALSE, useCache |-> TRUE,
            printed |-> {}, since |-> 0]

PluginInit ==
    /\ now = 0 /\ file = Absent /\ broken = FALSE
    /\ run = [p \in Runs |-> IdleRun]

PluginTypeOK ==
    /\ now \in 0..MaxTime /\ file \in Files /\ broken \in BOOLEAN
    /\ run \in [Runs -> Run] /\ \A p \in Runs : run[p].since =< now

RunAt(p, pc) == run[p].pc = pc

Start(p) ==
    /\ run[p].pc \in {"idle", "done"}
    /\ \E flag \in BOOLEAN : run' = [run EXCEPT ![p] = NewRun(flag)]
    /\ UNCHANGED <<now, file, broken>>

\* Mutant of Expired: valid up to and including its expiry.
ExpiredAfter(c) == c.expires < now

Expired(c) == c.expires <= now

\* Read: a live credential is printed and the run is over.
UseCached(p) ==
    /\ RunAt(p, "read") /\ file.kind = "credential" /\ ~Expired(file.credential)
    /\ run' = [run EXCEPT ![p].pc = "done", ![p].printed = {file.credential}]
    /\ UNCHANGED <<now, file, broken>>

\* Mutant of MissCache: the file to be rewritten is opened right away.
MissCacheAndOpen(p) ==
    /\ RunAt(p, "read")
    /\ file.kind = "credential" => Expired(file.credential)
    /\ file' = Empty
    /\ run' = [run EXCEPT ![p].pc = "login", ![p].useCache = file.kind # "empty"]
    /\ UNCHANGED <<now, broken>>

\* Read: with no file or an expired credential the file will be rewritten, with
\* one that does not parse (an empty one) the cache is off for this run.
MissCache(p) ==
    /\ RunAt(p, "read")
    /\ file.kind = "credential" => Expired(file.credential)
    /\ run' = [run EXCEPT ![p].pc = "login", ![p].useCache = file.kind # "empty"]
    /\ UNCHANGED <<now, file, broken>>

\* Do, and the credential is printed.
Login(p) ==
    /\ RunAt(p, "login")
    /\ run' = [run EXCEPT ![p].pc = IF run[p].useCache THEN "open" ELSE "done",
                          ![p].printed = {[prefixed |-> ~run[p].noRegionPrefix,
                                           expires |-> now + Lifetime]}]
    /\ UNCHANGED <<now, file, broken>>

\* Write is os.WriteFile: it opens the file truncating it, then writes.
OpenCache(p) ==
    /\ RunAt(p, "open")
    /\ file' = Empty
    /\ run' = [run EXCEPT ![p].pc = "write"]
    /\ UNCHANGED <<now, broken>>

WriteCache(p) ==
    /\ RunAt(p, "write")
    /\ \E c \in run[p].printed : file' = Holding(c)
    /\ run' = [run EXCEPT ![p].pc = "done"]
    /\ UNCHANGED <<now, broken>>

\* The run is killed, or an error ends it.
Abort(p) ==
    /\ run[p].pc \notin {"idle", "done"}
    /\ broken' = (broken \/ RunAt(p, "write"))
    /\ run' = [run EXCEPT ![p] = IdleRun]
    /\ UNCHANGED <<now, file>>

Tick ==
    /\ now < MaxTime
    /\ now' = now + 1
    /\ UNCHANGED <<file, broken, run>>

Act(p) == UseCached(p) \/ MissCache(p) \/ Login(p) \/ OpenCache(p) \/ WriteCache(p)

PluginNext ==
    \/ Tick
    \/ \E p \in Runs : Start(p) \/ Act(p) \/ Abort(p)

PluginSpec == PluginInit /\ [][PluginNext]_pluginVars

-----------------------------------------------------------------------------
(* Properties. *)

\* What kubectl is given has not expired when the plugin is called, whichever run
\* wrote it into the cache and when (the check of Read is strict).
PrintedIsLive ==
    \A p \in Runs : RunAt(p, "done") =>
        \A c \in run[p].printed : c.expires > run[p].since

\* A file that does not parse, which turns the cache off for all later runs, is
\* seen only while a run writes it, unless a run was killed just then: concurrent
\* writers by themselves never leave one behind.
EmptyOnlyWhileWritten ==
    /\ PluginTypeOK
    /\ file = Empty => broken \/ \E p \in Runs : RunAt(p, "write")

\* Why PrintedIsLive holds: a run has its credential when it is done or still has
\* the file to write, and it may be killed in between.
HasCredential(p) == run[p].pc \in {"open", "write", "done"}
AuthInv ==
    /\ EmptyOnlyWhileWritten
    /\ \A p \in Runs : HasCredential(p) =>
          \A c \in run[p].printed : c.expires > run[p].since

\* "Disable region prefix in bearer token" (auth.go:40): what a run with the flag
\* prints has no prefix.  A cached credential is printed as it is.
HonoursFlag ==
    \A p \in Runs : RunAt(p, "done") =>
        \A c \in run[p].printed : run[p].noRegionPrefix => ~c.prefixed
=============================================================================
