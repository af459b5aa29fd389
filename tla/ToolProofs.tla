----------------------------- MODULE ToolProofs -----------------------------
(***************************************************************************)
(* What fetch and setup keep true for any releases, components and number  *)
(* of setups: published files stay, every lock there has been can be       *)
(* installed, and the link leads to an installed bundle of such a lock.    *)
(* Whatever they read and unpack, the pure parts do as they should         *)
(* (ToolDataProofs).                                                       *)
(***************************************************************************)
EXTENDS ToolMC, ToolDataProofs

AllBytes == Bytes \cup Versions \cup {Missing}
StagedFiles == [path : Paths, bytes : AllBytes]
Locks == [release : Releases, resolved : [Names -> [bytes : Bytes, stamp : Nat]]]
FetchRecords == [pc : {"component", "bootstrap", "publish", "rename", "lock"},
                 release : Releases, previous : committed \cup {NoLock}, at : Nat \ {0},
                 staged : Seq(StagedFiles), resolved : [Names -> [bytes : Bytes \cup {Missing}, stamp : Nat]]]

FetchTypeOK ==
    /\ manifest \in Releases
    /\ upstream \in [Names -> [Versions -> Bytes]]
    /\ licenseText \in [Licensed -> [Versions -> AllBytes]]
    /\ file \in [Paths -> AllBytes]
    /\ committed \subseteq Locks
    /\ lock \in committed \cup {NoLock}
    /\ fetch \in FetchRecords \cup {NoFetch}
    /\ edits \in Nat

(* A component the running fetch is through with: its artifact is published or
   waits in the staging directory. *)
Covered(c) ==
    LET bytes == fetch.resolved[c].bytes
        path == Artifact(c, VersionOf[fetch.release][c])
    IN  /\ bytes \in Bytes
        /\ file[path] = bytes \/ [path |-> path, bytes |-> bytes] \in Range(fetch.staged)

FetchOK ==
    fetch # NoFetch =>
        /\ IF fetch.pc = "component" THEN fetch.at \in 1 .. Len(Components) ELSE fetch.at = Len(Components) + 1
        /\ \A i \in 1 .. fetch.at - 1 : Covered(Components[i])
        /\ fetch.pc = "rename" => fetch.staged # <<>> /\ file[Head(fetch.staged).path] = Missing
        /\ fetch.pc = "lock" => fetch.staged = <<>>

FetchInv == FetchTypeOK /\ FetchOK /\ LockedArtifactsPresent
-----------------------------------------------------------------------------
(* Paths and staged files. *)

LEMMA PathFacts ==
    /\ \A c \in Names, r \in Releases : VersionOf[r][c] \in Versions /\ Artifact(c, VersionOf[r][c]) \in Paths
    /\ \A c \in Licensed : License(c) \in Paths
    /\ Binary \in Paths /\ Provenance \in Paths
    /\ \A i \in 1 .. Len(Components) : Components[i] \in Names
    /\ \A c \in Names : \E i \in 1 .. Len(Components) : c = Components[i]
    /\ Len(Components) \in Nat \ {0}
<1>1. Components \in Seq(Names) /\ Components # <<>> BY ReleasesHaveVersions
<1>2. DOMAIN Components = 1 .. Len(Components) /\ Len(Components) \in Nat \ {0} BY <1>1
<1>3. \A c \in Names : \E i \in 1 .. Len(Components) : c = Components[i] BY <1>2 DEF Names
<1>4. \A c \in Names, r \in Releases : VersionOf[r][c] \in Versions BY ReleasesHaveVersions
<1>5. \A c \in Names, v \in Versions : Artifact(c, v) \in Paths BY DEF Paths
<1>6. \A c \in Licensed : License(c) \in Paths BY DEF Paths
<1>7. Binary \in Paths /\ Provenance \in Paths BY DEF Paths
<1>8. \A i \in 1 .. Len(Components) : Components[i] \in Names BY <1>1, <1>2
<1> QED BY <1>2, <1>3, <1>4, <1>5, <1>6, <1>7, <1>8

LEMMA OneStaged ==
    ASSUME NEW S, NEW x \in S
    PROVE  <<x>> \in Seq(S) /\ Range(<<x>>) = {x}
<1>1. <<x>> \in Seq(S) /\ Len(<<x>>) = 1 /\ <<x>>[1] = x OBVIOUS
<1>2. Range(<<x>>) = {<<x>>[i] : i \in 1 .. 1} BY <1>1, RangeEquality
<1> QED BY <1>1, <1>2

LEMMA StagedTail ==
    ASSUME NEW S, NEW s \in Seq(S), s # <<>>
    PROVE  /\ Head(s) \in S /\ Tail(s) \in Seq(S)
           /\ Range(s) = {Head(s)} \cup Range(Tail(s))
<1>1. /\ Head(s) \in S /\ Tail(s) \in Seq(S) /\ Len(Tail(s)) = Len(s) - 1
      /\ \A i \in 1 .. Len(Tail(s)) : Tail(s)[i] = s[i + 1]
  BY HeadTailProperties
<1>2. Range(s) = {s[i] : i \in 1 .. Len(s)} /\ Range(Tail(s)) = {Tail(s)[i] : i \in 1 .. Len(Tail(s))}
  BY <1>1, RangeEquality
<1>3. Len(s) \in Nat \ {0} /\ Head(s) = s[1] BY <1>1
<1>4. \A i \in 1 .. Len(s) : i = 1 \/ (i - 1 \in 1 .. Len(Tail(s)) /\ Tail(s)[i - 1] = s[i])
  BY <1>1, <1>3
<1>5. ASSUME NEW x \in Range(s) PROVE x \in {Head(s)} \cup Range(Tail(s))
  BY <1>2, <1>3, <1>4, <1>5
<1>6. ASSUME NEW x \in Range(Tail(s)) PROVE x \in Range(s)
  <2>1. PICK i \in 1 .. Len(Tail(s)) : x = Tail(s)[i] BY <1>2, <1>6
  <2>2. i + 1 \in 1 .. Len(s) /\ x = s[i + 1] BY <1>1, <1>3, <2>1
  <2> QED BY <1>2, <2>2
<1>7. Head(s) \in Range(s) BY <1>2, <1>3
<1> QED BY <1>1, <1>5, <1>6, <1>7
-----------------------------------------------------------------------------
(* Each step of fetch and of the world keeps FetchInv, and none changes a
   published file. *)

LEMMA FetchInit_Inv == FetchInit => FetchInv
<1> SUFFICES ASSUME FetchInit PROVE FetchInv OBVIOUS
<1>1. FetchTypeOK
  <2>1. \A v \in Versions : v \in AllBytes BY DEF AllBytes
  <2>2. 1 \in Bytes /\ 1 \in AllBytes /\ Missing \in AllBytes BY DEF AllBytes, Bytes
  <2>3. licenseText \in [Licensed -> [Versions -> AllBytes]] BY <2>1, <2>2 DEF FetchInit
  <2>4. manifest \in Releases BY ReleasesHaveVersions DEF FetchInit
  <2> QED BY <2>2, <2>3, <2>4 DEF FetchInit, FetchTypeOK
<1>2. FetchOK BY DEF FetchInit, FetchOK
<1>3. LockedArtifactsPresent BY DEF FetchInit, LockedArtifactsPresent
<1> QED BY <1>1, <1>2, <1>3 DEF FetchInv

LEMMA FetchIdle ==
    ASSUME FetchInv, fetch # NoFetch
    PROVE  fetch \in FetchRecords
BY DEF FetchInv, FetchTypeOK

(* A fetch that ends, and steps that touch neither the files nor the locks. *)
LEMMA FetchEnds_Inv ==
    ASSUME FetchInv, fetch' = NoFetch,
           UNCHANGED <<manifest, upstream, licenseText, file, lock, committed, edits>>
    PROVE  FetchInv'
<1>1. FetchTypeOK' BY DEF FetchInv, FetchTypeOK, FetchRecords
<1>2. FetchOK' BY DEF FetchOK
<1>3. LockedArtifactsPresent' BY DEF FetchInv, LockedArtifactsPresent
<1> QED BY <1>1, <1>2, <1>3 DEF FetchInv

LEMMA FetchStart_Inv == FetchInv /\ FetchStart => FetchInv'
<1> SUFFICES ASSUME FetchInv, FetchStart PROVE FetchInv' OBVIOUS
<1> DEFINE none == [c \in Names |-> [bytes |-> Missing, stamp |-> 0]]
<1>1. fetch' \in FetchRecords'
  <2>1. none \in [Names -> [bytes : Bytes \cup {Missing}, stamp : Nat]] OBVIOUS
  <2>2. <<>> \in Seq(StagedFiles) OBVIOUS
  <2>3. /\ fetch' = [pc |-> "component", release |-> manifest, previous |-> lock, at |-> 1, staged |-> <<>>,
                     resolved |-> none]
        /\ manifest \in Releases /\ lock \in committed' \cup {NoLock}
    BY DEF FetchStart, FetchInv, FetchTypeOK
  <2> HIDE DEF none
  <2> QED BY <2>1, <2>2, <2>3 DEF FetchRecords
<1>2. FetchTypeOK' BY <1>1 DEF FetchInv, FetchTypeOK, FetchStart
<1>3. FetchOK'
  <2>1. fetch'.pc = "component" /\ fetch'.at = 1 BY DEF FetchStart
  <2> QED BY <2>1, PathFacts DEF FetchOK
<1>4. LockedArtifactsPresent' BY DEF FetchInv, LockedArtifactsPresent, FetchStart
<1> QED BY <1>2, <1>3, <1>4 DEF FetchInv

LEMMA FetchComponent_Inv == FetchInv /\ FetchComponent => FetchInv'
<1> SUFFICES ASSUME FetchInv, FetchComponent PROVE FetchInv' OBVIOUS
<1> DEFINE c == Components[fetch.at]
           v == VersionOf[fetch.release][c]
           fresh == [bytes |-> upstream[c][v], stamp |-> Stamp]
           got == IF Reusable(c, v) THEN fetch.previous.resolved[c] ELSE fresh
           download == IF Reusable(c, v) THEN <<>>
                       ELSE <<[path |-> Artifact(c, v), bytes |-> fresh.bytes]>>
           more == fetch.staged \o download \o LicenseOf(c, v)
           next == IF fetch.at = Len(Components) THEN "bootstrap" ELSE "component"
<1>1. /\ fetch.pc = "component" /\ fetch # NoFetch /\ fetch \in FetchRecords
      /\ fetch' = [fetch EXCEPT !.resolved[c] = got, !.staged = more, !.at = @ + 1, !.pc = next]
      /\ UNCHANGED <<manifest, upstream, licenseText, file, lock, committed, edits>>
  BY FetchIdle DEF FetchComponent, NoFetch
<1>2. /\ fetch.at \in 1 .. Len(Components) /\ c \in Names /\ v \in Versions
      /\ Artifact(c, v) \in Paths
  BY <1>1, PathFacts DEF FetchInv, FetchOK, FetchRecords
<1>3. fresh \in [bytes : Bytes, stamp : Nat] BY <1>2 DEF FetchInv, FetchTypeOK, Stamp
<1>4. ASSUME Reusable(c, v)
      PROVE  got \in [bytes : Bytes, stamp : Nat] /\ file[Artifact(c, v)] = got.bytes
  <2>1. fetch.previous \in committed BY <1>1, <1>4 DEF Reusable, FetchRecords
  <2>2. fetch.previous \in Locks BY <2>1 DEF FetchInv, FetchTypeOK
  <2>3. fetch.previous.resolved[c] \in [bytes : Bytes, stamp : Nat] BY <1>2, <2>2 DEF Locks
  <2> QED BY <1>4, <2>3 DEF Reusable
<1>5. got \in [bytes : Bytes, stamp : Nat] BY <1>3, <1>4
<1>6. /\ download \in Seq(StagedFiles)
      /\ ~Reusable(c, v) => Range(download) = {[path |-> Artifact(c, v), bytes |-> fresh.bytes]}
  <2>1. fresh.bytes \in AllBytes BY <1>3 DEF AllBytes
  <2>2. [path |-> Artifact(c, v), bytes |-> fresh.bytes] \in StagedFiles BY <1>2, <2>1 DEF StagedFiles
  <2> DEFINE e == [path |-> Artifact(c, v), bytes |-> fresh.bytes]
  <2>3. <<e>> \in Seq(StagedFiles) /\ Range(<<e>>) = {e} BY <2>2, OneStaged
  <2>4. download = IF Reusable(c, v) THEN <<>> ELSE <<e>> OBVIOUS
  <2> HIDE DEF e, download
  <2>5. download \in Seq(StagedFiles) BY <2>3, <2>4
  <2>6. ~Reusable(c, v) => Range(download) = {e} BY <2>3, <2>4
  <2> QED BY <2>5, <2>6 DEF e
<1>7. LicenseOf(c, v) \in Seq(StagedFiles)
  <2>1. ASSUME c \in Licensed PROVE [path |-> License(c), bytes |-> licenseText[c][v]] \in StagedFiles
    BY <1>2, <2>1, PathFacts DEF StagedFiles, FetchInv, FetchTypeOK
  <2> QED BY <2>1, OneStaged DEF LicenseOf
<1>8. fetch.staged \in Seq(StagedFiles) /\ fetch.staged \o download \in Seq(StagedFiles) /\ more \in Seq(StagedFiles)
  <2> HIDE DEF download
  <2> QED BY <1>1, <1>6, <1>7, ConcatProperties DEF FetchRecords
<1>9. Range(more) = Range(fetch.staged) \cup Range(download) \cup Range(LicenseOf(c, v))
  <2> HIDE DEF download
  <2>1. Range(fetch.staged \o download) = Range(fetch.staged) \cup Range(download)
    BY <1>6, <1>8, RangeConcatenation
  <2>2. PICK s \in Seq(StagedFiles) : s = fetch.staged \o download BY <1>8
  <2>3. PICK l \in Seq(StagedFiles) : l = LicenseOf(c, v) BY <1>7
  <2>4. more = s \o l BY <2>2, <2>3
  <2> HIDE DEF more
  <2>5. Range(s \o l) = Range(s) \cup Range(l) BY RangeConcatenation
  <2> QED BY <2>1, <2>2, <2>3, <2>4, <2>5
<1> HIDE DEF more, got, next, fresh, download
<1>10. fetch'.resolved = [fetch.resolved EXCEPT ![c] = got]
  BY <1>1 DEF FetchRecords
<1>11. /\ fetch' \in FetchRecords'
       /\ fetch'.at = fetch.at + 1 /\ fetch'.pc = next /\ fetch'.staged = more
       /\ fetch'.release = fetch.release
  <2>1. fetch'.resolved \in [Names -> [bytes : Bytes \cup {Missing}, stamp : Nat]]
    BY <1>1, <1>5, <1>10 DEF FetchRecords
  <2>2. next \in {"component", "bootstrap"} BY DEF next
  <2>3. fetch' = [pc |-> next, release |-> fetch.release, previous |-> fetch.previous, at |-> fetch.at + 1,
                  staged |-> more, resolved |-> fetch'.resolved]
    BY <1>1 DEF FetchRecords
  <2>4. /\ fetch.release \in Releases /\ fetch.previous \in committed' \cup {NoLock}
        /\ fetch.at + 1 \in Nat \ {0}
    BY <1>1 DEF FetchRecords
  <2> DEFINE r == fetch'.resolved
  <2>5. r \in [Names -> [bytes : Bytes \cup {Missing}, stamp : Nat]] BY <2>1
  <2>6. fetch' = [pc |-> next, release |-> fetch.release, previous |-> fetch.previous, at |-> fetch.at + 1,
                  staged |-> more, resolved |-> r]
    BY <2>3
  <2> HIDE DEF r
  <2>7. fetch' \in FetchRecords' BY <1>8, <2>2, <2>4, <2>5, <2>6 DEF FetchRecords
  <2> QED BY <2>6, <2>7
<1>12. FetchTypeOK' BY <1>1, <1>11 DEF FetchInv, FetchTypeOK
<1>13. FetchOK'
  <2>1. ASSUME NEW i \in 1 .. fetch'.at - 1 PROVE Covered(Components[i])'
    <3>1. CASE Components[i] = c
      <4>1. fetch'.resolved[c] = got /\ got.bytes \in Bytes BY <1>1, <1>2, <1>5, <1>10 DEF FetchRecords
      <4>2. ~Reusable(c, v) => [path |-> Artifact(c, v), bytes |-> got.bytes] \in Range(more)
        BY <1>6, <1>9 DEF got
      <4> QED BY <1>1, <1>4, <1>11, <3>1, <4>1, <4>2 DEF Covered
    <3>2. CASE Components[i] # c
      <4>1. i \in 1 .. fetch.at - 1 BY <1>2, <1>11, <3>2
      <4>2. Covered(Components[i]) BY <1>1, <4>1 DEF FetchInv, FetchOK
      <4>3. Components[i] \in Names BY <1>2, <4>1, PathFacts
      <4>4. fetch'.resolved[Components[i]] = fetch.resolved[Components[i]]
        BY <1>1, <1>10, <3>2, <4>3 DEF FetchRecords
      <4>5. \A x : x \in Range(fetch.staged) => x \in Range(fetch'.staged) BY <1>9, <1>11
      <4> QED BY <1>1, <1>11, <4>2, <4>4, <4>5 DEF Covered
    <3> QED BY <3>1, <3>2
  <2>2. IF fetch'.pc = "component" THEN fetch'.at \in 1 .. Len(Components) ELSE fetch'.at = Len(Components) + 1
    BY <1>2, <1>11, PathFacts DEF next
  <2>3. fetch'.pc # "rename" /\ fetch'.pc # "lock" BY <1>11 DEF next
  <2> QED BY <2>1, <2>2, <2>3 DEF FetchOK
<1>14. LockedArtifactsPresent' BY <1>1 DEF FetchInv, LockedArtifactsPresent
<1> QED BY <1>12, <1>13, <1>14 DEF FetchInv

(* A step of a fetch under way that only moves on; what it stages is added. *)
LEMMA Covered_Kept ==
    ASSUME NEW c, Covered(c),
           fetch'.resolved = fetch.resolved, fetch'.release = fetch.release, file' = file,
           \A x \in Range(fetch.staged) : x \in Range(fetch'.staged) \/ file[x.path] = x.bytes
    PROVE  Covered(c)'
<1> DEFINE p == Artifact(c, VersionOf[fetch.release][c])
           e == [path |-> p, bytes |-> fetch.resolved[c].bytes]
<1>1. e.path = p /\ e.bytes = fetch.resolved[c].bytes OBVIOUS
<1>2. fetch.resolved[c].bytes \in Bytes /\ (file[p] = fetch.resolved[c].bytes \/ e \in Range(fetch.staged))
  BY DEF Covered
<1>3. file[p] = fetch.resolved[c].bytes \/ e \in Range(fetch'.staged)
  <2> HIDE DEF e
  <2> QED BY <1>1, <1>2
<1> QED BY <1>2, <1>3 DEF Covered

LEMMA FetchBootstrap_Inv == FetchInv /\ FetchBootstrap => FetchInv'
<1> SUFFICES ASSUME FetchInv, FetchBootstrap PROVE FetchInv' OBVIOUS
<1> DEFINE b == [path |-> Binary, bytes |-> 1]
           p == [path |-> Provenance, bytes |-> 1]
           built == IF file[Binary] # Missing THEN <<>> ELSE <<b, p>>
<1>1. /\ fetch.pc = "bootstrap" /\ fetch # NoFetch /\ fetch \in FetchRecords
      /\ UNCHANGED <<manifest, upstream, licenseText, file, lock, committed, edits>>
      /\ \/ fetch' = NoFetch
         \/ fetch' = [fetch EXCEPT !.pc = "publish", !.staged = @ \o built]
  BY FetchIdle DEF FetchBootstrap, NoFetch, FetchEnds
<1>2. CASE fetch' = NoFetch BY <1>1, <1>2, FetchEnds_Inv
<1>3. CASE fetch' = [fetch EXCEPT !.pc = "publish", !.staged = @ \o built]
  <2>1. b \in StagedFiles /\ p \in StagedFiles BY PathFacts DEF StagedFiles, AllBytes, Bytes
  <2> DEFINE more == fetch.staged \o built
  <2>2. built \in Seq(StagedFiles) /\ fetch.staged \in Seq(StagedFiles)
    <3> HIDE DEF b, p
    <3> QED BY <1>1, <2>1 DEF FetchRecords
  <2> HIDE DEF built
  <2>3. more \in Seq(StagedFiles) /\ Range(more) = Range(fetch.staged) \cup Range(built)
    BY <2>2, ConcatProperties, RangeConcatenation
  <2> HIDE DEF more
  <2>4. fetch' = [pc |-> "publish", release |-> fetch.release, previous |-> fetch.previous, at |-> fetch.at,
                  staged |-> more, resolved |-> fetch.resolved]
    BY <1>1, <1>3 DEF FetchRecords, more
  <2>5. fetch' \in FetchRecords' BY <1>1, <2>3, <2>4 DEF FetchRecords
  <2>6. FetchTypeOK' BY <1>1, <2>5 DEF FetchInv, FetchTypeOK
  <2>7. \A i \in 1 .. fetch'.at - 1 : Covered(Components[i])'
    BY <1>1, <2>3, <2>4, Covered_Kept DEF FetchInv, FetchOK
  <2>8. FetchOK' BY <1>1, <2>4, <2>7 DEF FetchInv, FetchOK
  <2> QED BY <1>1, <2>6, <2>8 DEF FetchInv, LockedArtifactsPresent
<1> QED BY <1>1, <1>2, <1>3

LEMMA PublishOpen_Inv == FetchInv /\ PublishOpen => FetchInv'
<1> SUFFICES ASSUME FetchInv, PublishOpen PROVE FetchInv' OBVIOUS
<1> DEFINE a == Head(fetch.staged)
<1>1. /\ fetch.pc = "publish" /\ fetch # NoFetch /\ fetch \in FetchRecords
      /\ fetch.staged \in Seq(StagedFiles) /\ fetch.staged # <<>>
      /\ UNCHANGED <<manifest, upstream, licenseText, file, lock, committed, edits>>
      /\ \/ file[a.path] = a.bytes /\ fetch' = [fetch EXCEPT !.staged = Tail(@)]
         \/ fetch' = NoFetch
         \/ file[a.path] = Missing /\ fetch' = [fetch EXCEPT !.pc = "rename"]
  BY FetchIdle DEF PublishOpen, NoFetch, FetchEnds, FetchRecords
<1>2. CASE fetch' = NoFetch BY <1>1, <1>2, FetchEnds_Inv
<1>3. CASE file[a.path] = a.bytes /\ fetch' = [fetch EXCEPT !.staged = Tail(@)]
  <2>1. Tail(fetch.staged) \in Seq(StagedFiles) /\ Range(fetch.staged) = {a} \cup Range(Tail(fetch.staged))
    BY <1>1, StagedTail
  <2> DEFINE rest == Tail(fetch.staged)
  <2>2. fetch' = [pc |-> "publish", release |-> fetch.release, previous |-> fetch.previous, at |-> fetch.at,
                  staged |-> rest, resolved |-> fetch.resolved]
    BY <1>1, <1>3 DEF FetchRecords
  <2> HIDE DEF rest, a
  <2>3. fetch' \in FetchRecords' BY <1>1, <2>1, <2>2 DEF FetchRecords, rest
  <2>4. FetchTypeOK' BY <1>1, <2>3 DEF FetchInv, FetchTypeOK
  <2>5. \A x \in Range(fetch.staged) : x \in Range(fetch'.staged) \/ file[x.path] = x.bytes
    BY <1>3, <2>1, <2>2 DEF rest
  <2>6. \A i \in 1 .. fetch'.at - 1 : Covered(Components[i])'
    BY <1>1, <2>2, <2>5, Covered_Kept DEF FetchInv, FetchOK
  <2>7. FetchOK' BY <1>1, <2>2, <2>6 DEF FetchInv, FetchOK
  <2> QED BY <1>1, <2>4, <2>7 DEF FetchInv, LockedArtifactsPresent
<1>4. CASE file[a.path] = Missing /\ fetch' = [fetch EXCEPT !.pc = "rename"]
  <2>1. fetch' = [pc |-> "rename", release |-> fetch.release, previous |-> fetch.previous, at |-> fetch.at,
                  staged |-> fetch.staged, resolved |-> fetch.resolved]
    BY <1>1, <1>4 DEF FetchRecords
  <2>2. fetch' \in FetchRecords' BY <1>1, <2>1 DEF FetchRecords
  <2>3. FetchTypeOK' BY <1>1, <2>2 DEF FetchInv, FetchTypeOK
  <2>4. \A i \in 1 .. fetch'.at - 1 : Covered(Components[i])'
    BY <1>1, <2>1, Covered_Kept DEF FetchInv, FetchOK
  <2>5. FetchOK' BY <1>1, <1>4, <2>1, <2>4 DEF FetchInv, FetchOK
  <2> QED BY <1>1, <2>3, <2>5 DEF FetchInv, LockedArtifactsPresent
<1> QED BY <1>1, <1>2, <1>3, <1>4

(* The one step that writes a file writes one that was missing. *)
LEMMA PublishRename_Facts ==
    ASSUME FetchInv, PublishRename
    PROVE  LET a == Head(fetch.staged) IN
           /\ fetch # NoFetch /\ fetch \in FetchRecords /\ fetch.pc = "rename"
           /\ fetch.staged \in Seq(StagedFiles) /\ fetch.staged # <<>>
           /\ a.path \in Paths /\ a.bytes \in AllBytes /\ file[a.path] = Missing
           /\ file' = [file EXCEPT ![a.path] = a.bytes]
           /\ \A p \in Paths : file[p] # Missing => file'[p] = file[p]
           /\ fetch' = [pc |-> "publish", release |-> fetch.release, previous |-> fetch.previous, at |-> fetch.at,
                        staged |-> Tail(fetch.staged), resolved |-> fetch.resolved]
           /\ UNCHANGED <<manifest, upstream, licenseText, lock, committed, edits>>
<1> DEFINE a == Head(fetch.staged)
<1>1. /\ fetch.pc = "rename" /\ fetch # NoFetch /\ fetch \in FetchRecords
      /\ fetch.staged \in Seq(StagedFiles) /\ fetch.staged # <<>> /\ file[a.path] = Missing
      /\ UNCHANGED <<manifest, upstream, licenseText, lock, committed, edits>>
      /\ file' = [file EXCEPT ![a.path] = a.bytes]
  BY FetchIdle DEF PublishRename, NoFetch, FetchRecords, FetchInv, FetchOK
<1>2. a \in StagedFiles BY <1>1, StagedTail
<1>3. a.path \in Paths /\ a.bytes \in AllBytes BY <1>2 DEF StagedFiles
<1>4. \A p \in Paths : file[p] # Missing => file'[p] = file[p]
  BY <1>1, <1>3 DEF FetchInv, FetchTypeOK
<1>5. fetch' = [pc |-> "publish", release |-> fetch.release, previous |-> fetch.previous, at |-> fetch.at,
                staged |-> Tail(fetch.staged), resolved |-> fetch.resolved]
  BY <1>1 DEF PublishRename, FetchRecords
<1> QED BY <1>1, <1>3, <1>4, <1>5

LEMMA LocksKept ==
    ASSUME FetchInv, committed' = committed,
           \A p \in Paths : file[p] # Missing => file'[p] = file[p]
    PROVE  LockedArtifactsPresent'
<1> SUFFICES ASSUME NEW l \in committed, NEW c \in Names
             PROVE  file'[Artifact(c, VersionOf[l.release][c])] = l.resolved[c].bytes
  BY DEF LockedArtifactsPresent
<1>1. l \in Locks BY DEF FetchInv, FetchTypeOK
<1>2. l.release \in Releases /\ l.resolved[c] \in [bytes : Bytes, stamp : Nat] BY <1>1 DEF Locks
<1>3. Artifact(c, VersionOf[l.release][c]) \in Paths BY <1>2, PathFacts
<1>4. file[Artifact(c, VersionOf[l.release][c])] = l.resolved[c].bytes
  BY DEF FetchInv, LockedArtifactsPresent
<1>5. l.resolved[c].bytes # Missing BY <1>2 DEF Bytes, Missing
<1> QED BY <1>3, <1>4, <1>5

LEMMA PublishRename_Inv == FetchInv /\ PublishRename => FetchInv'
<1> SUFFICES ASSUME FetchInv, PublishRename PROVE FetchInv' OBVIOUS
<1> DEFINE a == Head(fetch.staged)
           rest == Tail(fetch.staged)
<1>1. /\ fetch # NoFetch /\ fetch \in FetchRecords /\ fetch.pc = "rename"
      /\ fetch.staged \in Seq(StagedFiles) /\ fetch.staged # <<>>
      /\ a.path \in Paths /\ a.bytes \in AllBytes
      /\ file' = [file EXCEPT ![a.path] = a.bytes]
      /\ \A p \in Paths : file[p] # Missing => file'[p] = file[p]
      /\ fetch' = [pc |-> "publish", release |-> fetch.release, previous |-> fetch.previous, at |-> fetch.at,
                   staged |-> rest, resolved |-> fetch.resolved]
      /\ UNCHANGED <<manifest, upstream, licenseText, lock, committed, edits>>
  BY PublishRename_Facts
<1>2. rest \in Seq(StagedFiles) /\ Range(fetch.staged) = {a} \cup Range(rest) BY <1>1, StagedTail
<1> HIDE DEF a, rest
<1>3. fetch' \in FetchRecords' BY <1>1, <1>2 DEF FetchRecords
<1>4. file' \in [Paths -> AllBytes] BY <1>1 DEF FetchInv, FetchTypeOK
<1>5. FetchTypeOK' BY <1>1, <1>3, <1>4 DEF FetchInv, FetchTypeOK
<1>6. ASSUME NEW i \in 1 .. fetch'.at - 1 PROVE Covered(Components[i])'
  <2> DEFINE c == Components[i]
             p == Artifact(c, VersionOf[fetch.release][c])
             bytes == fetch.resolved[c].bytes
             e == [path |-> p, bytes |-> bytes]
  <2>1. i \in 1 .. fetch.at - 1 /\ fetch.at = Len(Components) + 1
    BY <1>1 DEF FetchInv, FetchOK
  <2>2. Covered(c) BY <1>1, <2>1 DEF FetchInv, FetchOK
  <2>3. bytes \in Bytes /\ (file[p] = bytes \/ e \in Range(fetch.staged)) BY <2>2 DEF Covered
  <2>4. p \in Paths BY <1>1, <2>1, PathFacts DEF FetchRecords
  <2>5. bytes # Missing BY <2>3 DEF Bytes, Missing
  <2>6. e = a => file'[p] = bytes BY <1>1, <2>4 DEF FetchInv, FetchTypeOK
  <2>7. file'[p] = bytes \/ e \in Range(rest)
    <3> HIDE DEF e, p, bytes
    <3> QED BY <1>1, <1>2, <2>3, <2>4, <2>5, <2>6
  <2>8. fetch'.release = fetch.release /\ fetch'.resolved = fetch.resolved /\ fetch'.staged = rest BY <1>1
  <2> QED BY <2>3, <2>7, <2>8 DEF Covered
<1>7. FetchOK' BY <1>1, <1>6 DEF FetchInv, FetchOK
<1> QED BY <1>1, <1>5, <1>7, LocksKept DEF FetchInv

LEMMA LockOpen_Inv == FetchInv /\ LockOpen => FetchInv'
<1> SUFFICES ASSUME FetchInv, LockOpen PROVE FetchInv' OBVIOUS
<1>1. /\ fetch.pc = "publish" /\ fetch # NoFetch /\ fetch \in FetchRecords /\ fetch.staged = <<>>
      /\ UNCHANGED <<manifest, upstream, licenseText, file, lock, committed, edits>>
      /\ fetch' = NoFetch \/ fetch' = [fetch EXCEPT !.pc = "lock"]
  BY FetchIdle DEF LockOpen, NoFetch, FetchEnds
<1>2. CASE fetch' = NoFetch BY <1>1, <1>2, FetchEnds_Inv
<1>3. CASE fetch' = [fetch EXCEPT !.pc = "lock"]
  <2>1. fetch' = [pc |-> "lock", release |-> fetch.release, previous |-> fetch.previous, at |-> fetch.at,
                  staged |-> fetch.staged, resolved |-> fetch.resolved]
    BY <1>1, <1>3 DEF FetchRecords
  <2>2. fetch' \in FetchRecords' BY <1>1, <2>1 DEF FetchRecords
  <2>3. FetchTypeOK' BY <1>1, <2>2 DEF FetchInv, FetchTypeOK
  <2>4. \A i \in 1 .. fetch'.at - 1 : Covered(Components[i])'
    BY <1>1, <2>1, Covered_Kept DEF FetchInv, FetchOK
  <2>5. FetchOK' BY <1>1, <2>1, <2>4 DEF FetchInv, FetchOK
  <2> QED BY <1>1, <2>3, <2>5 DEF FetchInv, LockedArtifactsPresent
<1> QED BY <1>1, <1>2, <1>3

(* When the lock is replaced every component is covered and nothing is staged. *)
LEMMA LockRename_Inv == FetchInv /\ LockRename => FetchInv'
<1> SUFFICES ASSUME FetchInv, LockRename PROVE FetchInv' OBVIOUS
<1>1. /\ fetch.pc = "lock" /\ fetch # NoFetch /\ fetch \in FetchRecords /\ fetch.staged = <<>>
      /\ fetch.at = Len(Components) + 1
      /\ UNCHANGED <<manifest, upstream, licenseText, file, edits>>
      /\ fetch' = NoFetch /\ committed' = committed \cup {lock'}
      /\ lock' = [release |-> fetch.release, resolved |-> fetch.resolved]
  BY FetchIdle DEF LockRename, NoFetch, FetchEnds, FetchInv, FetchOK
<1>2. \A c \in Names : /\ fetch.resolved[c].bytes \in Bytes
                       /\ file[Artifact(c, VersionOf[fetch.release][c])] = fetch.resolved[c].bytes
  <2> TAKE c \in Names
  <2>1. PICK i \in 1 .. Len(Components) : c = Components[i] BY PathFacts
  <2>2. i \in 1 .. fetch.at - 1 BY <1>1, PathFacts
  <2>3. Covered(c) BY <1>1, <2>1, <2>2 DEF FetchInv, FetchOK
  <2>4. Range(fetch.staged) = {} BY <1>1 DEF Range
  <2> QED BY <2>3, <2>4 DEF Covered
<1>3. lock' \in Locks
  <2>1. fetch.release \in Releases
        /\ fetch.resolved \in [Names -> [bytes : Bytes \cup {Missing}, stamp : Nat]]
    BY <1>1 DEF FetchRecords
  <2> DEFINE r == fetch.resolved
  <2>2. \A c \in Names : r[c] \in [bytes : Bytes, stamp : Nat] BY <1>2, <2>1
  <2>3. r \in [Names -> [bytes : Bytes, stamp : Nat]] BY <2>1, <2>2
  <2> QED BY <1>1, <2>1, <2>3 DEF Locks
<1>4. FetchTypeOK' BY <1>1, <1>3 DEF FetchInv, FetchTypeOK
<1>5. LockedArtifactsPresent'
  <2> SUFFICES ASSUME NEW l \in committed', NEW c \in Names
               PROVE  file[Artifact(c, VersionOf[l.release][c])] = l.resolved[c].bytes
    BY <1>1 DEF LockedArtifactsPresent
  <2>1. CASE l \in committed BY <2>1 DEF FetchInv, LockedArtifactsPresent
  <2>2. CASE l = lock' BY <1>1, <1>2, <2>2
  <2> QED BY <1>1, <2>1, <2>2
<1>6. FetchOK' BY <1>1 DEF FetchOK
<1> QED BY <1>4, <1>5, <1>6 DEF FetchInv

(* Steps that leave the fetch, the files and the locks as they are. *)
LEMMA FetchSame_Inv ==
    ASSUME FetchInv, UNCHANGED <<licenseText, file, committed, fetch>>,
           manifest' \in Releases, upstream' \in [Names -> [Versions -> Bytes]],
           lock' \in committed \cup {NoLock}, edits' \in Nat
    PROVE  FetchInv'
<1>1. FetchTypeOK' BY DEF FetchInv, FetchTypeOK, FetchRecords
<1>2. FetchOK' BY DEF FetchInv, FetchOK, Covered
<1>3. LockedArtifactsPresent' BY DEF FetchInv, LockedArtifactsPresent
<1> QED BY <1>1, <1>2, <1>3 DEF FetchInv

LEMMA FetchWorld_Inv == FetchInv /\ FetchWorld => FetchInv'
<1> SUFFICES ASSUME FetchInv, FetchWorld PROVE FetchInv' OBVIOUS
<1>0. manifest \in Releases /\ upstream \in [Names -> [Versions -> Bytes]] /\ edits \in Nat
      /\ lock \in committed \cup {NoLock} /\ committed \subseteq Locks
  BY DEF FetchInv, FetchTypeOK
<1>1. CASE FetchFails BY <1>1, FetchEnds_Inv DEF FetchFails, FetchEnds
<1>2. CASE FetchKilled BY <1>2, FetchEnds_Inv DEF FetchKilled, FetchEnds
<1>3. ASSUME NEW c \in Names, NEW v \in Versions, Republish(c, v) PROVE FetchInv'
  <2>1. upstream' \in [Names -> [Versions -> Bytes]] BY <1>0, <1>3 DEF Republish, Bytes
  <2> QED BY <1>0, <1>3, <2>1, FetchSame_Inv DEF Republish
<1>4. ASSUME NEW r \in Releases, EditManifest(r) PROVE FetchInv'
  BY <1>0, <1>4, FetchSame_Inv DEF EditManifest
<1>5. ASSUME NEW l \in committed, Rollback(l) PROVE FetchInv'
  <2>1. l.release \in Releases BY <1>0 DEF Locks
  <2> QED BY <1>0, <1>5, <2>1, FetchSame_Inv DEF Rollback
<1> QED BY <1>1, <1>2, <1>3, <1>4, <1>5 DEF FetchWorld

LEMMA FetchStep_Inv == FetchInv /\ FetchStep => FetchInv'
BY FetchStart_Inv, FetchComponent_Inv, FetchBootstrap_Inv, PublishOpen_Inv, PublishRename_Inv,
   LockOpen_Inv, LockRename_Inv DEF FetchStep

LEMMA Stays ==
    FetchInv /\ (FetchStep \/ FetchWorld) => \A p \in Paths : file[p] # Missing => file'[p] = file[p]
<1> SUFFICES ASSUME FetchInv, FetchStep \/ FetchWorld, NEW p \in Paths, file[p] # Missing
             PROVE  file'[p] = file[p]
  OBVIOUS
<1>1. CASE PublishRename BY <1>1, PublishRename_Facts
<1>2. CASE FetchWorld
  BY <1>2 DEF FetchWorld, FetchFails, FetchKilled, Republish, EditManifest, Rollback
<1>3. CASE FetchStep /\ ~PublishRename
  BY <1>3 DEF FetchStep, FetchStart, FetchComponent, FetchBootstrap, PublishOpen, LockOpen, LockRename
<1> QED BY <1>1, <1>2, <1>3

LEMMA CommittedGrows == FetchInv /\ (FetchStep \/ FetchWorld) => committed \subseteq committed'
BY DEF FetchStep, FetchWorld, FetchStart, FetchComponent, FetchBootstrap, PublishOpen, PublishRename,
       LockOpen, LockRename, FetchFails, FetchKilled, Republish, EditManifest, Rollback
-----------------------------------------------------------------------------
(* Setup.  A run that will activate its release has seen the bundle of that
   release, and a bundle is built from a lock there has been. *)

Critical == {"holding", "materialize", "reprobe", "probed", "activate"}
SetupRecords == [pc : {"lock", "digest"} \cup Critical, lock : committed, digest : committed \cup {NoLock}]
Bundles == [lock : committed \cup {NoLock}, holds : committed]

SetupInv ==
    /\ setup \in [Setups -> SetupRecords \cup {NoSetup}]
    /\ holder \in Setups \cup {Nobody}
    /\ \A s \in Setups : (holder = s) <=> setup[s].pc \in Critical
    /\ bundle \in [Releases -> Bundles \cup {NoBundle}]
    /\ \A r \in Releases : bundle[r] # NoBundle => bundle[r].holds.release = r
    /\ \A s \in Setups : setup[s].pc \in {"reprobe", "activate"} => Installed(s)
    /\ link \in Releases \cup {Unlinked}
    /\ link # Unlinked => bundle[link] # NoBundle

Inv == FetchInv /\ SetupInv

LEMMA RunFacts ==
    ASSUME Inv, NEW s \in Setups, ~At(s, "idle")
    PROVE  /\ setup[s] \in SetupRecords /\ setup[s].lock \in committed
           /\ setup[s].lock \in Locks /\ Target(s) \in Releases
           /\ setup[s] = [pc |-> setup[s].pc, lock |-> setup[s].lock, digest |-> setup[s].digest]
<1>1. setup[s] \in SetupRecords BY DEF Inv, SetupInv, At, NoSetup
<1>2. setup[s].lock \in committed /\ setup[s].lock \in Locks
  BY <1>1 DEF SetupRecords, Inv, FetchInv, FetchTypeOK
<1>3. Target(s) \in Releases BY <1>2 DEF Target, Locks
<1> QED BY <1>1, <1>2, <1>3 DEF SetupRecords

(* One run moves on, and bundles are only added. *)
LEMMA SetupMoves ==
    ASSUME SetupInv, NEW s \in Setups, NEW rec \in SetupRecords \cup {NoSetup},
           setup' = [setup EXCEPT ![s] = rec], committed' = committed,
           holder' \in Setups \cup {Nobody}, (holder' = s) <=> rec.pc \in Critical,
           \A x \in Setups : x # s => ((holder' = x) <=> (holder = x)),
           bundle' \in [Releases -> Bundles \cup {NoBundle}],
           \A r \in Releases : bundle'[r] # NoBundle => bundle'[r].holds.release = r,
           \A r \in Releases : bundle[r] # NoBundle => bundle'[r] # NoBundle,
           rec.pc \in {"reprobe", "activate"} => bundle'[rec.lock.release] # NoBundle,
           \A x \in Setups : setup[x].pc \in {"reprobe", "activate"} => Target(x) \in Releases,
           link' \in Releases \cup {Unlinked}, link' # Unlinked => bundle'[link'] # NoBundle
    PROVE  SetupInv'
<1>1. setup' \in [Setups -> SetupRecords \cup {NoSetup}]' BY DEF SetupInv, SetupRecords
<1>2. \A x \in Setups : (holder' = x) <=> setup'[x].pc \in Critical BY DEF SetupInv
<1>3. \A x \in Setups : setup'[x].pc \in {"reprobe", "activate"} => bundle'[setup'[x].lock.release] # NoBundle
  BY DEF SetupInv, Installed, Target
<1>4. bundle' \in [Releases -> Bundles \cup {NoBundle}]' BY DEF Bundles
<1> QED BY <1>1, <1>2, <1>3, <1>4 DEF SetupInv, Installed, Target

(* The same for a run that ends, or only goes on to another place. *)
LEMMA RunEnds ==
    ASSUME Inv, NEW s \in Setups, Ends(s), UNCHANGED <<committed, bundle>>,
           link' \in Releases \cup {Unlinked}, link' # Unlinked => bundle[link'] # NoBundle
    PROVE  SetupInv'
<1>1. \A x \in Setups : setup[x].pc \in {"reprobe", "activate"} => Target(x) \in Releases
  BY RunFacts DEF At
<1>2. SetupInv BY DEF Inv
<1>3. \A x \in Setups : x # s => ((holder' = x) <=> (holder = x)) BY NobodyAssumption DEF Ends
<1>4. holder' \in Setups \cup {Nobody} /\ holder' # s BY <1>2, NobodyAssumption DEF Ends, SetupInv
<1>5. NoSetup.pc \notin Critical /\ NoSetup.pc \notin {"reprobe", "activate"} BY DEF NoSetup, Critical
<1>6. setup' = [setup EXCEPT ![s] = NoSetup] BY DEF Ends
<1>7. /\ bundle' \in [Releases -> Bundles \cup {NoBundle}]
      /\ \A r \in Releases : bundle'[r] # NoBundle => bundle'[r].holds.release = r
  BY <1>2 DEF SetupInv
<1> QED BY <1>1, <1>2, <1>3, <1>4, <1>5, <1>6, <1>7, SetupMoves

LEMMA RunGoes ==
    ASSUME Inv, NEW s \in Setups, ~At(s, "idle"), NEW pc \in {"digest"} \cup Critical, Goes(s, pc),
           holder' \in {holder, s}, (holder' = s) <=> pc \in Critical, holder' # holder => holder = Nobody,
           UNCHANGED <<committed, link>>,
           bundle' \in [Releases -> Bundles \cup {NoBundle}],
           \A r \in Releases : bundle'[r] # NoBundle => bundle'[r].holds.release = r,
           \A r \in Releases : bundle[r] # NoBundle => bundle'[r] # NoBundle,
           pc \in {"reprobe", "activate"} => bundle'[Target(s)] # NoBundle
    PROVE  SetupInv'
<1> DEFINE rec == [pc |-> pc, lock |-> setup[s].lock, digest |-> setup[s].digest]
<1>1. \A x \in Setups : setup[x].pc \in {"reprobe", "activate"} => Target(x) \in Releases
  BY RunFacts DEF At
<1>2. SetupInv BY DEF Inv
<1>3. \A x \in Setups : x # s => ((holder' = x) <=> (holder = x)) BY NobodyAssumption
<1>4. setup[s] \in SetupRecords /\ setup[s] = [pc |-> setup[s].pc, lock |-> setup[s].lock, digest |-> setup[s].digest]
  BY RunFacts
<1>5. rec \in SetupRecords BY <1>4 DEF SetupRecords
<1>6. setup' = [setup EXCEPT ![s] = rec]
  <2>1. [setup[s] EXCEPT !.pc = pc] = rec BY <1>4
  <2> HIDE DEF rec
  <2> QED BY <1>2, <2>1 DEF Goes, SetupInv
<1>7. rec.pc = pc /\ rec.lock.release = Target(s) BY DEF Target
<1>8. holder' \in Setups \cup {Nobody} BY <1>2 DEF SetupInv
<1>9. link' \in Releases \cup {Unlinked} /\ (link' # Unlinked => bundle'[link'] # NoBundle)
  BY <1>2 DEF SetupInv
<1> HIDE DEF rec
<1> QED BY <1>1, <1>2, <1>3, <1>5, <1>6, <1>7, <1>8, <1>9, SetupMoves

LEMMA SetupStart_Inv == ASSUME Inv, NEW s \in Setups, SetupStart(s) PROVE SetupInv'
<1> DEFINE rec == [pc |-> "lock", lock |-> lock, digest |-> NoLock]
<1>1. lock \in committed BY DEF SetupStart, Inv, FetchInv, FetchTypeOK
<1>2. rec \in SetupRecords BY <1>1 DEF SetupRecords
<1>3. rec.pc \notin Critical /\ rec.pc \notin {"reprobe", "activate"} BY DEF Critical
<1>4. /\ SetupInv /\ setup[s].pc \notin Critical
  BY DEF SetupStart, At, Inv, Critical
<1>5. \A x \in Setups : setup[x].pc \in {"reprobe", "activate"} => Target(x) \in Releases
  BY RunFacts DEF At
<1>6. /\ setup' = [setup EXCEPT ![s] = rec]
      /\ UNCHANGED <<committed, holder, bundle, link>>
  BY DEF SetupStart, fetchVars
<1> HIDE DEF rec
<1>7. holder' # s BY <1>4, <1>6 DEF SetupInv
<1>8. /\ bundle' \in [Releases -> Bundles \cup {NoBundle}]
      /\ \A r \in Releases : bundle'[r] # NoBundle => bundle'[r].holds.release = r
      /\ link' \in Releases \cup {Unlinked} /\ (link' # Unlinked => bundle'[link'] # NoBundle)
      /\ holder' \in Setups \cup {Nobody}
  BY <1>4, <1>6 DEF SetupInv
<1> QED BY <1>2, <1>3, <1>4, <1>5, <1>6, <1>7, <1>8, SetupMoves

LEMMA ReadDigest_Inv == ASSUME Inv, NEW s \in Setups, ReadDigest(s) PROVE SetupInv'
<1> DEFINE rec == [pc |-> "digest", lock |-> setup[s].lock, digest |-> lock]
<1>1. lock \in committed \cup {NoLock} BY DEF Inv, FetchInv, FetchTypeOK
<1>2. ~At(s, "idle") /\ setup[s].pc \notin Critical BY DEF ReadDigest, At, Critical
<1>3. setup[s].lock \in committed
      /\ setup[s] = [pc |-> setup[s].pc, lock |-> setup[s].lock, digest |-> setup[s].digest]
  BY <1>2, RunFacts
<1>4. rec \in SetupRecords BY <1>1, <1>3 DEF SetupRecords
<1>5. rec.pc \notin Critical /\ rec.pc \notin {"reprobe", "activate"} BY DEF Critical
<1>6. SetupInv BY DEF Inv
<1>7. \A x \in Setups : setup[x].pc \in {"reprobe", "activate"} => Target(x) \in Releases
  BY RunFacts DEF At
<1>8. setup' = [setup EXCEPT ![s] = rec]
  <2> DEFINE old == [pc |-> setup[s].pc, lock |-> setup[s].lock, digest |-> setup[s].digest]
             read == [pc |-> setup[s].pc, lock |-> setup[s].lock, digest |-> lock]
  <2>0. [old EXCEPT !.digest = lock] = read /\ [read EXCEPT !.pc = "digest"] = rec OBVIOUS
  <2>1. [[setup[s] EXCEPT !.digest = lock] EXCEPT !.pc = "digest"] = rec
    <3>1. setup[s] = old BY <1>3
    <3> HIDE DEF old, read, rec
    <3> QED BY <2>0, <3>1
  <2>2. setup' = [setup EXCEPT ![s] = [[setup[s] EXCEPT !.digest = lock] EXCEPT !.pc = "digest"]]
    BY <1>6 DEF ReadDigest, SetupInv
  <2> HIDE DEF rec
  <2> QED BY <2>1, <2>2
<1>9. UNCHANGED <<committed, holder, bundle, link>> BY DEF ReadDigest, fetchVars
<1> HIDE DEF rec
<1>10. holder' # s BY <1>2, <1>6, <1>9 DEF SetupInv
<1>11. /\ bundle' \in [Releases -> Bundles \cup {NoBundle}]
       /\ \A r \in Releases : bundle'[r] # NoBundle => bundle'[r].holds.release = r
       /\ link' \in Releases \cup {Unlinked} /\ (link' # Unlinked => bundle'[link'] # NoBundle)
       /\ holder' \in Setups \cup {Nobody}
  BY <1>6, <1>9 DEF SetupInv
<1> QED BY <1>4, <1>5, <1>6, <1>7, <1>8, <1>9, <1>10, <1>11, SetupMoves

(* The steps under the flock, or towards it. *)
LEMMA LockedStep_Inv ==
    ASSUME Inv, NEW s \in Setups,
           AcquireLock(s) \/ Inspect(s) \/ Materialize(s) \/ Reprobe(s)
    PROVE  SetupInv'
<1>1. /\ SetupInv /\ ~At(s, "idle") /\ UNCHANGED <<committed, bundle, link>>
  BY DEF Inv, AcquireLock, Inspect, Materialize, Reprobe, At, fetchVars
<1>2. /\ link' \in Releases \cup {Unlinked} /\ (link' # Unlinked => bundle[link'] # NoBundle)
      /\ bundle' \in [Releases -> Bundles \cup {NoBundle}]
      /\ \A r \in Releases : bundle'[r] # NoBundle => bundle'[r].holds.release = r
      /\ \A r \in Releases : bundle[r] # NoBundle => bundle'[r] # NoBundle
  BY <1>1 DEF SetupInv
<1>3. CASE Ends(s) BY <1>1, <1>2, <1>3, RunEnds
<1>4. CASE holder = Nobody /\ holder' = s /\ Goes(s, "holding")
  <2>1. "holding" \in Critical BY DEF Critical
  <2> QED BY <1>1, <1>2, <1>4, <2>1, NobodyAssumption, RunGoes
<1>5. CASE At(s, "holding") /\ Goes(s, "materialize") /\ UNCHANGED holder
  <2>1. "materialize" \in Critical /\ holder = s BY <1>1, <1>5 DEF Critical, At, SetupInv
  <2> QED BY <1>1, <1>2, <1>5, <2>1, RunGoes
<1>6. CASE At(s, "holding") /\ Installed(s) /\ Goes(s, "reprobe") /\ UNCHANGED holder
  <2>1. "reprobe" \in Critical /\ holder = s BY <1>1, <1>6 DEF Critical, At, SetupInv
  <2>2. bundle'[Target(s)] # NoBundle BY <1>1, <1>6 DEF Installed
  <2> QED BY <1>1, <1>2, <1>6, <2>1, <2>2, RunGoes
<1>7. CASE At(s, "materialize") /\ Goes(s, "probed") /\ UNCHANGED holder
  <2>1. "probed" \in Critical /\ holder = s BY <1>1, <1>7 DEF Critical, At, SetupInv
  <2> QED BY <1>1, <1>2, <1>7, <2>1, RunGoes
<1>8. CASE At(s, "reprobe") /\ Goes(s, "activate") /\ UNCHANGED holder
  <2>1. "activate" \in Critical /\ holder = s BY <1>1, <1>8 DEF Critical, At, SetupInv
  <2>2. bundle'[Target(s)] # NoBundle BY <1>1, <1>8 DEF At, SetupInv, Installed
  <2> QED BY <1>1, <1>2, <1>8, <2>1, <2>2, RunGoes
<1> QED
  <2>1. CASE AcquireLock(s) BY <1>3, <1>4, <2>1 DEF AcquireLock
  <2>2. CASE Inspect(s) BY <1>3, <1>5, <1>6, <2>2 DEF Inspect
  <2>3. CASE Materialize(s) BY <1>3, <1>7, <2>3 DEF Materialize
  <2>4. CASE Reprobe(s) BY <1>8, <2>4 DEF Reprobe
  <2> QED BY <2>1, <2>2, <2>3, <2>4

(* A bundle appears under the flock, built from the lock of the run. *)
LEMMA Publish_Inv == ASSUME Inv, NEW s \in Setups, Publish(s) PROVE SetupInv'
<1>1. /\ SetupInv /\ ~At(s, "idle") /\ UNCHANGED <<committed, link>>
  BY DEF Inv, Publish, At, fetchVars
<1>2. holder = s /\ "activate" \in Critical BY <1>1 DEF Publish, At, SetupInv, Critical
<1>3. setup[s] \in SetupRecords /\ setup[s].lock \in committed /\ Target(s) \in Releases
  BY <1>1, RunFacts
<1>4. CASE UNCHANGED bundle /\ Ends(s)
  BY <1>1, <1>4, RunEnds DEF SetupInv
<1>5. CASE Installed(s) /\ UNCHANGED <<bundle, holder>> /\ Goes(s, "activate")
  <2>1. bundle'[Target(s)] # NoBundle BY <1>5 DEF Installed
  <2> QED BY <1>1, <1>2, <1>5, <2>1, RunGoes DEF SetupInv
<1>6. CASE /\ ~Installed(s) /\ Goes(s, "activate") /\ UNCHANGED holder
           /\ bundle' = [bundle EXCEPT ![Target(s)] = [lock |-> setup[s].digest, holds |-> setup[s].lock]]
  <2> DEFINE b == [lock |-> setup[s].digest, holds |-> setup[s].lock]
  <2>1. b \in Bundles BY <1>3 DEF Bundles, SetupRecords
  <2>2. b # NoBundle /\ b.holds.release = Target(s)
    <3>1. b.holds = setup[s].lock /\ DOMAIN b = {"lock", "holds"} OBVIOUS
    <3>2. DOMAIN NoBundle = {"lock"} BY DEF NoBundle
    <3> HIDE DEF b
    <3> QED BY <3>1, <3>2 DEF Target
  <2> HIDE DEF b
  <2>3. bundle' = [bundle EXCEPT ![Target(s)] = b] BY <1>6 DEF b
  <2>4. bundle' \in [Releases -> Bundles \cup {NoBundle}] BY <1>1, <2>1, <2>3 DEF SetupInv
  <2>5. bundle'[Target(s)] = b /\ \A r \in Releases : r # Target(s) => bundle'[r] = bundle[r]
    BY <1>1, <1>3, <2>3 DEF SetupInv
  <2>6. \A r \in Releases : bundle'[r] # NoBundle => bundle'[r].holds.release = r
    BY <1>1, <2>2, <2>5 DEF SetupInv
  <2>7. \A r \in Releases : bundle[r] # NoBundle => bundle'[r] # NoBundle BY <2>2, <2>5
  <2>8. bundle'[Target(s)] # NoBundle BY <2>2, <2>5
  <2> QED BY <1>1, <1>2, <1>6, <2>4, <2>6, <2>7, <2>8, RunGoes
<1> QED BY <1>4, <1>5, <1>6 DEF Publish

LEMMA Activate_Inv == ASSUME Inv, NEW s \in Setups, Activate(s) PROVE SetupInv'
<1>1. SetupInv /\ ~At(s, "idle") /\ UNCHANGED <<committed, bundle>> /\ Ends(s) /\ link' = Target(s)
  BY DEF Inv, Activate, At, fetchVars
<1>2. Target(s) \in Releases BY <1>1, RunFacts
<1>3. bundle[Target(s)] # NoBundle BY <1>1 DEF SetupInv, Installed, Activate, At
<1> QED BY <1>1, <1>2, <1>3, RunEnds

LEMMA SetupStep_Inv == ASSUME Inv, NEW s \in Setups, SetupStep(s) PROVE Inv'
<1>1. UNCHANGED fetchVars
  BY DEF SetupStep, SetupStart, ReadDigest, AcquireLock, Inspect, Materialize, Reprobe, Publish, Activate
<1>2. FetchInv'
  BY <1>1, FetchSame_Inv DEF fetchVars, Inv, FetchInv, FetchTypeOK
<1>3. SetupInv'
  BY SetupStart_Inv, ReadDigest_Inv, LockedStep_Inv, Publish_Inv, Activate_Inv DEF SetupStep
<1> QED BY <1>2, <1>3 DEF Inv

LEMMA SetupDies_Inv == ASSUME Inv, NEW s \in Setups, SetupFails(s) \/ SetupKilled(s) PROVE Inv'
<1>1. /\ Ends(s)
      /\ UNCHANGED <<manifest, upstream, licenseText, file, lock, committed, fetch, edits, bundle, link>>
  BY DEF SetupFails, SetupKilled
<1>2. FetchInv' BY <1>1, FetchSame_Inv DEF Inv, FetchInv, FetchTypeOK
<1>3. SetupInv' BY <1>1, RunEnds DEF Inv, SetupInv
<1> QED BY <1>2, <1>3 DEF Inv

(* A step of fetch, or of the world, while the runs of setup stand still: the
   locks they hold stay among the locks there have been. *)
LEMMA FetchBeside_Inv == Inv /\ (FetchStep \/ FetchWorld) /\ UNCHANGED setupVars => Inv'
<1> SUFFICES ASSUME Inv, FetchStep \/ FetchWorld, UNCHANGED setupVars PROVE Inv' OBVIOUS
<1>1. FetchInv' BY FetchStep_Inv, FetchWorld_Inv DEF Inv
<1>2. committed \subseteq committed' BY CommittedGrows DEF Inv
<1>3. \A x : (x \in SetupRecords => x \in SetupRecords') /\ (x \in Bundles => x \in Bundles')
  BY <1>2 DEF SetupRecords, Bundles
<1>4. SetupInv'
  <2>1. SetupInv /\ UNCHANGED <<setup, holder, bundle, link>> BY DEF Inv, setupVars
  <2>2. setup' \in [Setups -> SetupRecords \cup {NoSetup}]' BY <1>3, <2>1 DEF SetupInv
  <2>3. bundle' \in [Releases -> Bundles \cup {NoBundle}]' BY <1>3, <2>1 DEF SetupInv
  <2>4. \A s \in Setups : setup'[s].pc \in {"reprobe", "activate"} => bundle'[setup'[s].lock.release] # NoBundle
    BY <2>1 DEF SetupInv, Installed, Target
  <2> QED BY <2>1, <2>2, <2>3, <2>4 DEF SetupInv, Installed, Target
<1> QED BY <1>1, <1>4 DEF Inv
-----------------------------------------------------------------------------
LEMMA Init_Inv == Init => Inv
<1> SUFFICES ASSUME Init PROVE Inv OBVIOUS
<1>1. FetchInv BY FetchInit_Inv DEF Init
<1>2. SetupInv
  <2>1. NoSetup.pc \notin Critical /\ NoSetup.pc \notin {"reprobe", "activate"} BY DEF NoSetup, Critical
  <2>2. \A s \in Setups : holder # s BY NobodyAssumption DEF Init
  <2> HIDE DEF NoSetup
  <2> QED BY <2>1, <2>2 DEF Init, SetupInv
<1> QED BY <1>1, <1>2 DEF Inv

LEMMA Next_Inv == Inv /\ [Next]_vars => Inv'
<1> SUFFICES ASSUME Inv, [Next]_vars PROVE Inv' OBVIOUS
<1>1. CASE UNCHANGED vars
  <2>1. UNCHANGED <<fetchVars, setupVars>> BY <1>1 DEF vars
  <2>2. FetchInv' BY <2>1, FetchSame_Inv DEF fetchVars, Inv, FetchInv, FetchTypeOK
  <2>3. SetupInv' BY <2>1 DEF fetchVars, setupVars, Inv, SetupInv, SetupRecords, Bundles, Installed, Target
  <2> QED BY <2>2, <2>3 DEF Inv
<1>2. CASE Next BY <1>2, SetupStep_Inv, SetupDies_Inv, FetchBeside_Inv DEF Next
<1> QED BY <1>1, <1>2

\* Every lock there has been can be installed from what is vendored, for any
\* components and releases, whatever is interrupted.
THEOREM LocksInstallable == Spec => []LockedArtifactsPresent
<1>1. Inv => LockedArtifactsPresent BY DEF Inv, FetchInv
<1> QED BY <1>1, Init_Inv, Next_Inv, PTL DEF Spec

\* The link leads to an installed bundle of its release, built from a lock there
\* has been, with any number of setups at once.
THEOREM LinkSound == Spec => []ActiveSound
<1>1. Inv => ActiveSound
  <2> SUFFICES ASSUME Inv, link # Unlinked PROVE
                  /\ bundle[link] # NoBundle
                  /\ bundle[link].holds \in committed /\ bundle[link].holds.release = link
    BY DEF ActiveSound
  <2>1. link \in Releases /\ bundle[link] # NoBundle BY DEF Inv, SetupInv
  <2>2. bundle[link] \in Bundles BY <2>1 DEF Inv, SetupInv
  <2> QED BY <2>1, <2>2 DEF Bundles, Inv, SetupInv
<1> QED BY <1>1, Init_Inv, Next_Inv, PTL DEF Spec

\* A file fetch has published is never changed again.
THEOREM FilesStay == Spec => PublishedStays
<1>1. Inv /\ [Next]_vars => [\A p \in Paths : file[p] # Missing => file'[p] = file[p]]_fetchVars
  <2> SUFFICES ASSUME Inv, [Next]_vars
               PROVE  UNCHANGED fetchVars \/ \A p \in Paths : file[p] # Missing => file'[p] = file[p]
    OBVIOUS
  <2>1. CASE FetchStep \/ FetchWorld BY <2>1, Stays DEF Inv
  <2>2. CASE UNCHANGED file BY <2>2
  <2>3. ASSUME NEW s \in Setups, SetupStep(s) \/ SetupFails(s) \/ SetupKilled(s) PROVE UNCHANGED file
    BY <2>3 DEF SetupStep, SetupStart, ReadDigest, AcquireLock, Inspect, Materialize, Reprobe, Publish,
                Activate, SetupFails, SetupKilled, fetchVars
  <2> QED BY <2>1, <2>2, <2>3 DEF Next, vars, fetchVars
<1>2. Spec => []Inv BY Init_Inv, Next_Inv, PTL DEF Spec
<1> QED BY <1>1, <1>2, PTL DEF Spec, PublishedStays

\* The variables have their types, and one run of setup at most is between
\* taking the flock and moving the link.
THEOREM SetupTypes == Spec => []SetupTypeOK
<1>1. Inv => SetupTypeOK
  BY DEF Inv, SetupTypeOK, FetchInv, FetchTypeOK, SetupInv, AllBytes, Critical
<1> QED BY <1>1, Init_Inv, Next_Inv, PTL DEF Spec
-----------------------------------------------------------------------------
(* The pure parts, for whatever they are given: a path, a version, an archive,
   or a manifest with a lock, each of any length. *)

Sampled ==
    \/ sample = Done
    \/ sample.kind = "path" /\ \E S : sample.path \in Seq(S)
    \/ sample.kind = "version" /\ \E S : sample.version \in Seq(S)
    \/ sample.kind = "archive" /\ \E S, K : sample.archive \in Seq(EntriesOf(S, K))
    \/ sample.kind = "plan" /\ \E C, D : sample.desired.components \in Seq(C) /\ sample.locked.components \in Seq(D)

AnySpec == Init /\ Sampled /\ [][MCNext]_<<vars, sample>>

(* What is tried is tried once, and nothing else takes its place. *)
LEMMA SampledStays == Sampled /\ [MCNext]_<<vars, sample>> => Sampled'
<1> SUFFICES ASSUME Sampled, [MCNext]_<<vars, sample>> PROVE Sampled' OBVIOUS
<1>1. sample' = Done \/ UNCHANGED sample BY DEF MCNext, Tried, Step
<1> QED BY <1>1 DEF Sampled

(* Whatever is tried, the algorithms do what their reference definitions say. *)
LEMMA SampledExactly == Sampled => ExtractionExact /\ ManifestsExact
<1> SUFFICES ASSUME Sampled PROVE ExtractionExact /\ ManifestsExact OBVIOUS
<1>1. Done.kind = "none" BY DEF Done
<1>2. ASSUME sample.kind = "path" PROVE PathContained(sample.path)
  <2>1. PICK S : sample.path \in Seq(S) BY <1>1, <1>2 DEF Sampled
  <2> QED BY <2>1, PathsContained
<1>3. ASSUME sample.kind = "version" PROVE VersionsRead(sample.version)
  <2>1. PICK S : sample.version \in Seq(S) BY <1>1, <1>3 DEF Sampled
  <2> QED BY <2>1, VersionsAreRead
<1>4. ASSUME sample.kind = "archive" PROVE AcceptsWellFormed(sample.archive) /\ AllOrNothing(sample.archive)
  <2>1. PICK S, K : sample.archive \in Seq(EntriesOf(S, K)) BY <1>1, <1>4 DEF Sampled
  <2> QED BY <2>1, ExtractsExactly
<1>5. ASSUME sample.kind = "plan" PROVE PlanExact(sample.desired, sample.locked)
  <2>1. PICK C, D : sample.desired.components \in Seq(C) /\ sample.locked.components \in Seq(D)
    BY <1>1, <1>5 DEF Sampled
  <2> QED BY <2>1, PlansExact
<1> QED BY <1>2, <1>3, <1>4, <1>5 DEF ExtractionExact, ManifestsExact

\* Whatever archive is given, extraction accepts it exactly when it is
\* well-formed, and makes of it the tree it says, as a whole or not at all.
THEOREM ExtractionAlwaysExact == AnySpec => []ExtractionExact
<1>1. Sampled => ExtractionExact BY SampledExactly
<1> QED BY <1>1, SampledStays, PTL DEF AnySpec

\* Whatever path, version, manifest and lock are given: an accepted path stays
\* below its root, an accepted version is one of Semantic Versioning, and a plan
\* is made exactly when the lock is the manifest's, and of its artifacts.
THEOREM ManifestsAlwaysExact == AnySpec => []ManifestsExact
<1>1. Sampled => ManifestsExact BY SampledExactly
<1> QED BY <1>1, SampledStays, PTL DEF AnySpec

(* The samples are sequences: the archives, *)
LEMMA SampleEntries ==
    \E S, K : Many \subseteq EntriesOf(S, K)
<1> DEFINE S == {"a", "b", "c", "..", ".", "", "bad"}
           K == {"dir", "file", "link", "fifo"}
<1>1. /\ DirNames \subseteq Seq(S) /\ LinkNames \subseteq Seq(S) /\ OddNames \subseteq Seq(S)
      /\ FileNames \subseteq Seq(S) /\ Targets \subseteq Seq(S) /\ OddTargets \subseteq Seq(S)
  BY DEF DirNames, LinkNames, OddNames, FileNames, Targets, OddTargets
<1>2. <<>> \in Seq(S) /\ <<"a">> \in Seq(S) /\ <<"b">> \in Seq(S) /\ <<"a", "c">> \in Seq(S) OBVIOUS
<1>3. "dir" \in K /\ "file" \in K /\ "link" \in K /\ "fifo" \in K OBVIOUS
<1> HIDE DEF S, K
<1>4. PICK E : E = EntriesOf(S, K) OBVIOUS
<1>5. \A n, t \in Seq(S), k \in K, s \in Int, w \in BOOLEAN : Entry(n, k, s, t, w) \in E
  BY <1>4 DEF Entry, EntriesOf
<1>6. \A n \in Seq(S), s \in Int : DirAt(n, s) \in E /\ FileAt(n, s) \in E BY <1>2, <1>3, <1>5 DEF DirAt, FileAt
<1>7. \A n, t \in Seq(S) : LinkAt(n, t) \in E
  <2>1. 0 \in Int OBVIOUS
  <2> QED BY <1>3, <1>5, <2>1 DEF LinkAt
<1>8. Odd \subseteq E
  <2>1. 0 \in Int /\ 1 \in Int /\ TRUE \in BOOLEAN /\ FALSE \in BOOLEAN OBVIOUS
  <2> QED BY <1>2, <1>3, <1>5, <2>1 DEF Odd
<1>9. Few \subseteq E BY <1>1, <1>6, <1>7 DEF Few
<1>10. PICK name \in Seq(S) : name = <<"a", "c">> BY <1>2
<1>11. Many \subseteq E
  <2>1. {0, 1} \subseteq Int /\ {-1, 0, 2, 3} \subseteq Int OBVIOUS
  <2>2. {DirAt(n, s) : n \in OddNames, s \in {0, 1}} \subseteq E BY <1>1, <1>6, <2>1
  <2>3. {FileAt(n, s) : n \in FileNames, s \in {-1, 0, 2, 3}} \subseteq E BY <1>1, <1>6, <2>1
  <2>4. {LinkAt(<<"a", "c">>, t) : t \in OddTargets} \subseteq E BY <1>1, <1>7, <1>10
  <2> QED BY <1>8, <1>9, <2>2, <2>3, <2>4 DEF Many
<1> QED BY <1>4, <1>11

(* and all the others. *)
LEMMA SampleSequences ==
    /\ \A a \in SampleArchives : \E S, K : a \in Seq(EntriesOf(S, K))
    /\ \A p \in SamplePaths : \E S : p \in Seq(S)
    /\ \A v \in SampleVersions : \E S : v \in Seq(S)
    /\ \A m \in SampleManifests : \E C : m.components \in Seq(C)
    /\ \A l \in SampleLocks : \E D : l.components \in Seq(D)
<1>1. ASSUME NEW a \in SampleArchives PROVE \E S, K : a \in Seq(EntriesOf(S, K))
  <2>1. PICK S, K : Many \subseteq EntriesOf(S, K) BY SampleEntries
  <2>2. PICK E : E = EntriesOf(S, K) OBVIOUS
  <2>3. Few \subseteq E /\ Many \subseteq E
    <3>1. Few \subseteq Many BY DEF Many
    <3> QED BY <2>1, <2>2, <3>1
  <2>4. a \in [1 .. 3 -> Few] \/ \E n \in 0 .. 2 : a \in [1 .. n -> Many] BY DEF SampleArchives
  <2>5. \A n \in 0 .. 2 : n \in Nat OBVIOUS
  <2>6. \A n \in Nat : [1 .. n -> E] \subseteq Seq(E) BY SeqDef
  <2>7. 3 \in Nat OBVIOUS
  <2>8. a \in Seq(E)
    <3>1. CASE a \in [1 .. 3 -> Few]
      <4>1. a \in [1 .. 3 -> E] BY <2>3, <3>1
      <4> QED BY <2>6, <2>7, <4>1
    <3>2. ASSUME NEW n \in 0 .. 2, a \in [1 .. n -> Many] PROVE a \in Seq(E)
      <4>1. a \in [1 .. n -> E] BY <2>3, <3>2
      <4> QED BY <2>5, <2>6, <4>1
    <3> QED BY <2>4, <3>1, <3>2
  <2> QED BY <2>2, <2>8
<1>2. ASSUME NEW p \in SamplePaths PROVE \E S : p \in Seq(S)
  <2>1. PICK S : S = {"a", "b", "..", ".", "", "bad"} OBVIOUS
  <2>2. PICK n \in 0 .. 4 : p \in [1 .. n -> S] BY <2>1 DEF SamplePaths
  <2>3. n \in Nat OBVIOUS
  <2>4. p \in Seq(S) BY <2>2, <2>3, SeqDef
  <2> QED BY <2>4
<1>3. ASSUME NEW v \in SampleVersions PROVE \E S : v \in Seq(S)
  <2>1. PICK S, e : S = {"0", "1", "2", ".", "v", "a", "b", "-", "+", e} /\ e = "" OBVIOUS
  <2>2. /\ "0" \in S /\ "1" \in S /\ "2" \in S /\ "." \in S /\ "v" \in S /\ "a" \in S /\ "b" \in S
        /\ "-" \in S /\ "+" \in S /\ e \in S
    BY <2>1
  <2>3. Cores \subseteq Seq(S)
    <3>1. Plain \in Seq(S) /\ Newer \in Seq(S) BY <2>2 DEF Plain, Newer
    <3>2. <<"0", "1", ".", "0", ".", "0">> \in Seq(S) BY <2>2
    <3>3. <<"1", ".", "0">> \in Seq(S) /\ <<>> \in Seq(S) BY <2>2
    <3>4. <<"1", ".", "0", ".", e>> \in Seq(S) BY <2>2
    <3>5. <<"1", ".", "0", ".", "0", ".", "1">> \in Seq(S) BY <2>2
    <3>6. <<"v", "1", ".", "0", ".", "0">> \in Seq(S) BY <2>2
    <3> QED BY <2>1, <3>1, <3>2, <3>3, <3>4, <3>5, <3>6 DEF Cores
  <2>4. ASSUME NEW c \in S PROVE Endings(c) \subseteq Seq(S)
    <3>1. <<>> \in Seq(S) /\ <<c>> \in Seq(S) /\ <<c, "a">> \in Seq(S) /\ <<c, "0">> \in Seq(S) BY <2>2
    <3>2. <<c, "0", "1">> \in Seq(S) /\ <<c, "0", "a">> \in Seq(S) BY <2>2
    <3>3. <<c, "a", ".", "b">> \in Seq(S) BY <2>2
    <3>4. <<c, "a", ".">> \in Seq(S) BY <2>2
    <3>5. <<c, "a", "-", "b">> \in Seq(S) BY <2>2
    <3>6. <<c, "a", "+", "b">> \in Seq(S) BY <2>2
    <3>7. <<c, "-">> \in Seq(S) BY <2>2
    <3> QED BY <3>1, <3>2, <3>3, <3>4, <3>5, <3>6, <3>7 DEF Endings
  <2>5. PICK core \in Cores, pre \in Endings("-"), build \in Endings("+") : v = core \o pre \o build
    BY DEF SampleVersions
  <2>6. core \in Seq(S) /\ pre \in Seq(S) /\ build \in Seq(S) BY <2>2, <2>3, <2>4
  <2>7. core \o pre \in Seq(S) BY <2>6, ConcatProperties
  <2>8. v \in Seq(S) BY <2>5, <2>6, <2>7, ConcatProperties
  <2> QED BY <2>8
<1>4. ASSUME NEW X, NEW cs \in SomeOf(X) PROVE cs \in Seq(X)
  <2>1. CASE cs \in {<<x>> : x \in X}
    <3>1. PICK x \in X : cs = <<x>> BY <2>1
    <3> QED BY <3>1
  <2>2. CASE cs \in {<<x, y>> : x, y \in X}
    <3>1. PICK x \in X, y \in X : cs = <<x, y>> BY <2>2
    <3> QED BY <3>1
  <2> QED BY <2>1, <2>2 DEF SomeOf
<1>5. ASSUME NEW m \in SampleManifests PROVE \E C : m.components \in Seq(C)
  <2>1. m.components \in SomeOf(Comps) BY DEF SampleManifests
  <2> QED BY <1>4, <2>1
<1>6. ASSUME NEW l \in SampleLocks PROVE \E D : l.components \in Seq(D)
  <2>1. PICK X : X = {Held(c) : c \in Comps} OBVIOUS
  <2>2. PICK Y : Y = UNION {Broken(c) : c \in Comps} OBVIOUS
  <2>3. l.components \in SomeOf(X) \cup {<<x>> : x \in Y} BY <2>1, <2>2 DEF SampleLocks
  <2>4. CASE l.components \in SomeOf(X) BY <1>4, <2>4
  <2>5. CASE l.components \in {<<x>> : x \in Y}
    <3>1. PICK x \in Y : l.components = <<x>> BY <2>5
    <3>2. l.components \in Seq(Y) BY <3>1
    <3> QED BY <3>2
  <2> QED BY <2>3, <2>4, <2>5
<1> QED BY <1>1, <1>2, <1>3, <1>5, <1>6

\* The samples of the run are among these inputs.
THEOREM RunIsSampled == MCSpec => AnySpec
<1>1. MCInit => Init /\ Sampled
  <2> SUFFICES ASSUME MCInit PROVE Sampled BY DEF MCInit
  <2>1. \/ sample \in [kind : {"path"}, path : SamplePaths]
        \/ sample \in [kind : {"archive"}, archive : SampleArchives]
        \/ sample \in [kind : {"version"}, version : SampleVersions]
        \/ sample \in [kind : {"plan"}, desired : SampleManifests, locked : SampleLocks]
    BY DEF MCInit, Samples
  <2>2. CASE sample \in [kind : {"path"}, path : SamplePaths]
    <3>1. sample.kind = "path" /\ sample.path \in SamplePaths BY <2>2
    <3> QED BY <3>1, SampleSequences DEF Sampled
  <2>3. CASE sample \in [kind : {"archive"}, archive : SampleArchives]
    <3>1. sample.kind = "archive" /\ sample.archive \in SampleArchives BY <2>3
    <3> QED BY <3>1, SampleSequences DEF Sampled
  <2>4. CASE sample \in [kind : {"version"}, version : SampleVersions]
    <3>1. sample.kind = "version" /\ sample.version \in SampleVersions BY <2>4
    <3> QED BY <3>1, SampleSequences DEF Sampled
  <2>5. CASE sample \in [kind : {"plan"}, desired : SampleManifests, locked : SampleLocks]
    <3>1. sample.kind = "plan" /\ sample.desired \in SampleManifests /\ sample.locked \in SampleLocks BY <2>5
    <3> QED BY <3>1, SampleSequences DEF Sampled
  <2> QED BY <2>1, <2>2, <2>3, <2>4, <2>5
<1> QED BY <1>1, PTL DEF MCSpec, AnySpec
=============================================================================
