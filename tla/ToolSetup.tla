------------------------------ MODULE ToolSetup ------------------------------
(***************************************************************************)
(* `imoogi-toolchain setup` beside fetch: runs of setup read the manifest  *)
(* and the lock, verify the vendored artifacts, take the flock, reuse or   *)
(* install the bundle of the lock, probe it and move the .local/bin link.  *)
(* The files setup reads are not guarded by the flock: an edit, a fetch or *)
(* a rollback may replace them between two reads.                          *)
(***************************************************************************)
EXTENDS ToolFetch

CONSTANTS Setups, Nobody

ASSUME NobodyAssumption == Nobody \notin Setups

VARIABLES
    setup,     \* setup -> the run: where it is and what it has read
    holder,    \* who holds the flock on .local/setup.lock
    bundle,    \* release -> the installed bundle, or NoBundle
    link       \* the release .local/bin leads to

setupVars == <<setup, holder, bundle, link>>
vars == <<fetchVars, setupVars>>

NoBundle == [lock |-> NoLock]
NoSetup  == [pc |-> "idle"]
Unlinked == "none"

Init ==
    /\ FetchInit
    /\ setup = [s \in Setups |-> NoSetup]
    /\ holder = Nobody
    /\ bundle = [r \in Releases |-> NoBundle]
    /\ link = Unlinked

\* A run ends, with an error or not: its flock and its staging directory go.
Ends(s) ==
    /\ setup' = [setup EXCEPT ![s] = NoSetup]
    /\ holder' = IF holder = s THEN Nobody ELSE holder

At(s, pc) == setup[s].pc = pc
Goes(s, pc) == setup' = [setup EXCEPT ![s].pc = pc]

\* LoadDesired, LoadLock and ValidateLock (a change between the two reads only
\* makes the validation fail).
SetupStart(s) ==
    /\ At(s, "idle")
    /\ lock # NoLock
    /\ lock.release = manifest
    /\ setup' = [setup EXCEPT ![s] = [pc |-> "lock", lock |-> lock, digest |-> NoLock]]
    /\ UNCHANGED <<fetchVars, holder, bundle, link>>

\* fileSHA256 opens the lock a second time.
ReadDigest(s) ==
    /\ At(s, "lock")
    /\ setup' = [setup EXCEPT ![s].digest = lock, ![s].pc = "digest"]
    /\ UNCHANGED <<fetchVars, holder, bundle, link>>

Verified(l) == \A c \in Names : file[Artifact(c, VersionOf[l.release][c])] = l.resolved[c].bytes

\* verifyArtifacts, then the flock, which does not wait: a second run ends as busy.
AcquireLock(s) ==
    /\ At(s, "digest")
    /\ IF Verified(setup[s].lock) /\ holder = Nobody THEN holder' = s /\ Goes(s, "holding") ELSE Ends(s)
    /\ UNCHANGED <<fetchVars, bundle, link>>

Target(s) == setup[s].lock.release
Installed(s) == bundle[Target(s)] # NoBundle
Matches(s) == bundle[Target(s)].lock = setup[s].digest

\* Mutant: a bundle that is already there is always an error.
InspectRefuses(s) ==
    /\ At(s, "holding")
    /\ \/ ~Installed(s) /\ Goes(s, "materialize") /\ UNCHANGED holder
       \/ Installed(s) /\ Ends(s)
    /\ UNCHANGED <<fetchVars, bundle, link>>

\* installedMatches: the bundle is absent, is the one of this digest, or conflicts.
Inspect(s) ==
    /\ At(s, "holding")
    /\ \/ ~Installed(s) /\ Goes(s, "materialize") /\ UNCHANGED holder
       \/ Installed(s) /\ Matches(s) /\ Goes(s, "reprobe") /\ UNCHANGED holder
       \/ Installed(s) /\ ~Matches(s) /\ Ends(s)
    /\ UNCHANGED <<fetchVars, bundle, link>>

\* Mutant: the link moves before the bundle is published.
MaterializeActivates(s) ==
    /\ At(s, "materialize")
    /\ Goes(s, "activate")
    /\ UNCHANGED <<fetchVars, holder, bundle, link>>

\* The providers verify each artifact again and unpack it into a staging
\* directory, metadata is written there, and the staged bundle is probed; only
\* this run sees any of it.
Materialize(s) ==
    /\ At(s, "materialize")
    /\ IF Verified(setup[s].lock) THEN Goes(s, "probed") /\ UNCHANGED holder ELSE Ends(s)
    /\ UNCHANGED <<fetchVars, bundle, link>>

\* runLockProbes on a bundle that is reused.
Reprobe(s) ==
    /\ At(s, "reprobe")
    /\ Goes(s, "activate")
    /\ UNCHANGED <<fetchVars, holder, bundle, link>>

\* An extraction or a probe fails.
SetupFails(s) ==
    /\ Disturb
    /\ setup[s].pc \in {"reprobe", "materialize"}
    /\ Ends(s)
    /\ UNCHANGED <<manifest, upstream, licenseText, file, tmp, lock, committed, fetch, edits, bundle, link>>

\* publish looks at the target again before it renames; install.json carries
\* the digest, the tree what the lock listed.
Publish(s) ==
    /\ At(s, "probed")
    /\ IF Installed(s)
       THEN /\ IF Matches(s) THEN Goes(s, "activate") /\ UNCHANGED holder ELSE Ends(s)
            /\ UNCHANGED bundle
       ELSE /\ bundle' = [bundle EXCEPT ![Target(s)] = [lock |-> setup[s].digest, holds |-> setup[s].lock]]
            /\ Goes(s, "activate")
            /\ UNCHANGED holder
    /\ UNCHANGED <<fetchVars, link>>

Activate(s) ==
    /\ At(s, "activate")
    /\ link' = Target(s)
    /\ Ends(s)
    /\ UNCHANGED <<fetchVars, bundle>>

\* Killed: the kernel releases the flock; a staging directory it leaves is never looked at again.
SetupKilled(s) ==
    /\ Disturb
    /\ ~At(s, "idle")
    /\ Ends(s)
    /\ UNCHANGED <<manifest, upstream, licenseText, file, tmp, lock, committed, fetch, edits, bundle, link>>

SetupStep(s) == \/ SetupStart(s) \/ ReadDigest(s) \/ AcquireLock(s)
                \/ Inspect(s) \/ Materialize(s) \/ Reprobe(s) \/ Publish(s) \/ Activate(s)

Next == \/ FetchStep /\ UNCHANGED setupVars
        \/ FetchWorld /\ UNCHANGED setupVars
        \/ \E s \in Setups : SetupStep(s) \/ SetupFails(s) \/ SetupKilled(s)

\* The person runs both commands again until they succeed.
Spec == /\ Init /\ [][Next]_vars
        /\ WF_vars(FetchStep /\ UNCHANGED setupVars)
        /\ \A s \in Setups : WF_vars(SetupStep(s))

-----------------------------------------------------------------------------
(* Properties *)

\* Types, and the runs that look at the bundles and install them are the ones,
\* one at most, that hold the flock.
SetupTypeOK ==
    /\ manifest \in Releases
    /\ file \in [Paths -> Bytes \cup Versions \cup {Missing}]
    /\ holder \in Setups \cup {Nobody}
    /\ link \in Releases \cup {Unlinked}
    /\ \A s \in Setups : (holder = s) <=>
          setup[s].pc \in {"holding", "materialize", "reprobe", "probed", "activate"}

\* .local/bin leads to an installed bundle of that release, built from the
\* artifacts of a lock there has been, whatever failed, was killed or ran at
\* the same time (staging, publish by rename, link moved last).
ActiveSound ==
    link # Unlinked => /\ bundle[link] # NoBundle
                       /\ bundle[link].holds \in committed
                       /\ bundle[link].holds.release = link

\* What stops fetch and setup for good, until a person removes a file.
Needed == {Artifact(c, VersionOf[manifest][c]) : c \in Names} \cup {License(c) : c \in Licensed}
          \cup {Binary, Provenance, LockFile}
Locked(c) == /\ lock # NoLock
             /\ VersionOf[lock.release][c] = VersionOf[manifest][c]
             /\ lock.resolved[c].bytes = file[Artifact(c, VersionOf[manifest][c])]
LeftOver == \E p \in Needed : p \in tmp
HalfBootstrap == (file[Binary] = Missing) # (file[Provenance] = Missing)
ForeignBytes ==
    \E c \in Names : LET v == VersionOf[manifest][c] IN
        \/ file[Artifact(c, v)] \notin {Missing, upstream[c][v]} /\ ~Locked(c)
        \/ c \in Licensed /\ file[License(c)] \notin {Missing, licenseText[c][v]}
BundleConflict == bundle[manifest] # NoBundle /\ bundle[manifest].lock # lock
Stuck == LeftOver \/ HalfBootstrap \/ ForeignBytes \/ BundleConflict

\* Running fetch and setup again installs what the manifest asks for, unless
\* one of the four stuck states was reached.
Settles == <>[](link = manifest \/ Stuck)
=============================================================================
