------------------------------ MODULE ToolFetch ------------------------------
(***************************************************************************)
(* `imoogi-toolchain fetch`: it reads the manifest of a release, takes     *)
(* every component from the previous lock or from its upstream, publishes  *)
(* the artifacts under vendor/toolchains and replaces the lock.  It may be *)
(* killed between any two file operations.  Nothing locks out a second     *)
(* fetch; one at a time is assumed here.                                   *)
(***************************************************************************)
EXTENDS Naturals, Sequences

CONSTANTS
    Releases,      \* the releases the manifest may ask for; each has its own bundle
    First,         \* the one it asks for at first
    Components,    \* the components, in the order of the manifest
    VersionOf,     \* release -> component -> upstream version
    Versions,
    Licensed,      \* the components whose licence path carries no version
    MaxDisturbances  \* bound: edits by a person, kills, failures, changed upstream bytes

Names == {Components[i] : i \in DOMAIN Components}

ASSUME ReleasesHaveVersions ==
    /\ First \in Releases
    /\ Components \in Seq(Names) /\ Components # <<>>
    /\ VersionOf \in [Releases -> [Names -> Versions]]

Bytes   == 1 .. 2        \* what an upstream serves: the first bytes, or changed ones
Missing == 0
NoLock  == [release |-> "none"]

\* Where things lie below vendor/toolchains.
Artifact(c, v) == <<"artifact", c, v>>
License(c)     == <<"license", c>>
Binary         == <<"cli", "imoogi-toolchain">>
Provenance     == <<"cli", "imoogi-toolchain.provenance.json">>
LockFile       == <<"toolchains.lock.json">>
Paths == {Artifact(c, v) : c \in Names, v \in Versions} \cup {License(c) : c \in Licensed}
         \cup {Binary, Provenance}

VARIABLES
    manifest,     \* the release toolchains.json asks for
    upstream,     \* component -> version -> the bytes served now
    licenseText,  \* component -> version -> its licence
    file,         \* path -> its bytes, or Missing
    tmp,          \* the paths whose ".tmp" exists
    lock,         \* toolchains.lock.json
    committed,    \* every lock there has been: what a rollback may restore
    fetch,        \* the running fetch
    edits, faults

fetchVars == <<manifest, upstream, licenseText, file, tmp, lock, committed, fetch, edits, faults>>

NoFetch == [pc |-> "idle"]

FetchInit ==
    /\ manifest = First
    /\ upstream = [c \in Names |-> [v \in Versions |-> 1]]
    /\ licenseText \in {[c \in Licensed |-> t] : t \in {[v \in Versions |-> 1], [v \in Versions |-> v]}}
    /\ file = [p \in Paths |-> Missing]
    /\ tmp = {}
    /\ lock = NoLock
    /\ committed = {}
    /\ fetch = NoFetch
    /\ edits = 0
    /\ faults = 0

\* Edits and faults share one budget.
Budget == edits + faults < MaxDisturbances
Disturb == Budget /\ faults' = faults + 1

-----------------------------------------------------------------------------
FetchStart ==
    /\ fetch = NoFetch
    /\ fetch' = [pc |-> "component", release |-> manifest, previous |-> lock, at |-> 1, staged |-> <<>>,
                 resolved |-> [c \in Names |-> [bytes |-> Missing, stamp |-> 0]]]
    /\ UNCHANGED <<manifest, upstream, licenseText, file, tmp, lock, committed, edits, faults>>

\* An error at any point: the staging directory goes, published files stay.
FetchEnds == fetch' = NoFetch

\* The artifact of the previous lock serves again: same identity, and the
\* vendored file still has the recorded bytes.
Reusable(c, v) ==
    /\ fetch.previous # NoLock
    /\ VersionOf[fetch.previous.release][c] = v
    /\ file[Artifact(c, v)] = fetch.previous.resolved[c].bytes

\* The licence is staged from the archive whether or not the archive is reused.
LicenseOf(c, v) ==
    IF c \in Licensed THEN <<[path |-> License(c), bytes |-> licenseText[c][v]]>> ELSE <<>>

\* retrieved_at of a download; no two downloads into a lock happen between two edits.
Stamp == edits

FetchComponent ==
    /\ fetch.pc = "component"
    /\ LET c == Components[fetch.at]
           v == VersionOf[fetch.release][c]
           fresh == [bytes |-> upstream[c][v], stamp |-> Stamp]
           got == IF Reusable(c, v) THEN fetch.previous.resolved[c] ELSE fresh
           download == IF Reusable(c, v) THEN <<>>
                       ELSE <<[path |-> Artifact(c, v), bytes |-> fresh.bytes]>>
       IN fetch' = [fetch EXCEPT !.resolved[c] = got,
                                 !.staged = @ \o download \o LicenseOf(c, v),
                                 !.at = @ + 1,
                                 !.pc = IF fetch.at = Len(Components) THEN "bootstrap" ELSE "component"]
    /\ UNCHANGED <<manifest, upstream, licenseText, file, tmp, lock, committed, edits, faults>>

\* config.DetectDrift: one identity, two digests.
Drifts ==
    /\ fetch.previous # NoLock
    /\ \E c \in Names : /\ VersionOf[fetch.previous.release][c] = VersionOf[fetch.release][c]
                        /\ fetch.previous.resolved[c].bytes # fetch.resolved[c].bytes

\* buildBootstrap wants both files of the CLI or neither, and builds them when
\* there is none; then the drift check.  No other process writes these files.
FetchBootstrap ==
    /\ fetch.pc = "bootstrap"
    /\ LET has(p) == file[p] # Missing
           built == IF has(Binary) THEN <<>>
                    ELSE <<[path |-> Binary, bytes |-> 1], [path |-> Provenance, bytes |-> 1]>>
       IN IF has(Binary) # has(Provenance) \/ Drifts
          THEN FetchEnds
          ELSE fetch' = [fetch EXCEPT !.pc = "publish", !.staged = @ \o built]
    /\ UNCHANGED <<manifest, upstream, licenseText, file, tmp, lock, committed, edits, faults>>

\* Mutant: any file already there is good enough.
PublishOpenTrusting ==
    /\ fetch.pc = "publish"
    /\ fetch.staged # <<>>
    /\ LET a == Head(fetch.staged) IN
       IF file[a.path] # Missing
       THEN fetch' = [fetch EXCEPT !.staged = Tail(@)] /\ UNCHANGED tmp
       ELSE IF a.path \in tmp
            THEN FetchEnds /\ UNCHANGED tmp
            ELSE tmp' = tmp \cup {a.path} /\ fetch' = [fetch EXCEPT !.pc = "rename"]
    /\ UNCHANGED <<manifest, upstream, licenseText, file, lock, committed, edits, faults>>

\* Mutant: newer bytes replace the published ones.
PublishOpenOverwrites ==
    /\ fetch.pc = "publish"
    /\ fetch.staged # <<>>
    /\ LET a == Head(fetch.staged) IN
       IF file[a.path] = a.bytes
       THEN fetch' = [fetch EXCEPT !.staged = Tail(@)] /\ UNCHANGED tmp
       ELSE IF a.path \in tmp
            THEN FetchEnds /\ UNCHANGED tmp
            ELSE tmp' = tmp \cup {a.path} /\ fetch' = [fetch EXCEPT !.pc = "rename"]
    /\ UNCHANGED <<manifest, upstream, licenseText, file, lock, committed, edits, faults>>

\* publishArtifact, up to the exclusive creation of the temporary file.
PublishOpen ==
    /\ fetch.pc = "publish"
    /\ fetch.staged # <<>>
    /\ LET a == Head(fetch.staged) IN
       \/ /\ file[a.path] = a.bytes
          /\ fetch' = [fetch EXCEPT !.staged = Tail(@)]
          /\ UNCHANGED tmp
       \/ /\ \/ file[a.path] \notin {Missing, a.bytes}
             \/ file[a.path] = Missing /\ a.path \in tmp
          /\ FetchEnds
          /\ UNCHANGED tmp
       \/ /\ file[a.path] = Missing
          /\ a.path \notin tmp
          /\ tmp' = tmp \cup {a.path}
          /\ fetch' = [fetch EXCEPT !.pc = "rename"]
    /\ UNCHANGED <<manifest, upstream, licenseText, file, lock, committed, edits, faults>>

PublishRename ==
    /\ fetch.pc = "rename"
    /\ LET a == Head(fetch.staged) IN
       /\ file' = [file EXCEPT ![a.path] = a.bytes]
       /\ tmp' = tmp \ {a.path}
    /\ fetch' = [fetch EXCEPT !.pc = "publish", !.staged = Tail(@)]
    /\ UNCHANGED <<manifest, upstream, licenseText, lock, committed, edits, faults>>

LockOpen ==
    /\ fetch.pc = "publish"
    /\ fetch.staged = <<>>
    /\ IF LockFile \in tmp
       THEN FetchEnds /\ UNCHANGED tmp
       ELSE tmp' = tmp \cup {LockFile} /\ fetch' = [fetch EXCEPT !.pc = "lock"]
    /\ UNCHANGED <<manifest, upstream, licenseText, file, lock, committed, edits, faults>>

LockRename ==
    /\ fetch.pc = "lock"
    /\ lock' = [release |-> fetch.release, resolved |-> fetch.resolved]
    /\ committed' = committed \cup {lock'}
    /\ tmp' = tmp \ {LockFile}
    /\ FetchEnds
    /\ UNCHANGED <<manifest, upstream, licenseText, file, edits, faults>>

\* A download, a build or an extraction fails: the deferred removal runs.
FetchFails ==
    /\ Disturb
    /\ fetch.pc \in {"component", "bootstrap"}
    /\ FetchEnds
    /\ UNCHANGED <<manifest, upstream, licenseText, file, tmp, lock, committed, edits>>

\* The process is killed: a temporary file it had created stays.
FetchKilled ==
    /\ Disturb
    /\ fetch # NoFetch
    /\ FetchEnds
    /\ UNCHANGED <<manifest, upstream, licenseText, file, tmp, lock, committed, edits>>

-----------------------------------------------------------------------------
\* An upstream serves other bytes for a version it has already released.
Republish(c, v) ==
    /\ Disturb
    /\ upstream[c][v] = 1
    /\ upstream' = [upstream EXCEPT ![c][v] = 2]
    /\ UNCHANGED <<manifest, licenseText, file, tmp, lock, committed, fetch, edits>>

\* The person edits the manifest and bumps the bundle with it.
EditManifest(r) ==
    /\ Budget
    /\ edits' = edits + 1
    /\ r # manifest
    /\ manifest' = r
    /\ UNCHANGED <<upstream, licenseText, file, tmp, lock, committed, fetch, faults>>

\* The documented rollback: an earlier revision of the manifest, the lock and
\* vendor/toolchains (whose files are never removed) is checked out.
Rollback(l) ==
    /\ Budget
    /\ edits' = edits + 1
    /\ l \in committed
    /\ fetch = NoFetch
    /\ l # lock
    /\ manifest' = l.release
    /\ lock' = l
    /\ UNCHANGED <<upstream, licenseText, file, tmp, committed, fetch, faults>>

FetchStep == \/ FetchStart \/ FetchComponent \/ FetchBootstrap
             \/ PublishOpen \/ PublishRename \/ LockOpen \/ LockRename

FetchWorld == \/ FetchFails
              \/ FetchKilled
              \/ \E c \in Names, v \in Versions : Republish(c, v)
              \/ \E r \in Releases : EditManifest(r)
              \/ \E l \in committed : Rollback(l)

-----------------------------------------------------------------------------
(* Properties *)

\* Every lock there has been can be installed from what is vendored: each of
\* its artifacts is there with the recorded bytes, although an interrupted
\* fetch leaves files no lock lists and an upstream may change its bytes
\* (DetectDrift, publishArtifact, and the lock replaced last).
LockedArtifactsPresent ==
    \A l \in committed : \A c \in Names :
        file[Artifact(c, VersionOf[l.release][c])] = l.resolved[c].bytes

\* A published file is never changed, so an earlier revision of the lock keeps
\* its artifacts (publishArtifact refuses to overwrite).
PublishedStays ==
    [][\A p \in Paths : file[p] # Missing => file'[p] = file[p]]_fetchVars
=============================================================================
