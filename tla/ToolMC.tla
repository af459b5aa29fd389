------------------------------- MODULE ToolMC -------------------------------
(***************************************************************************)
(* fetch and setup with two components and two releases.  Before they      *)
(* start, one sample is put through the pure parts: a path, an archive, a  *)
(* version, or a manifest with a lock.                                     *)
(***************************************************************************)
EXTENDS ToolSetup, ToolArchive, ToolConfig, TLC

VARIABLE sample

Both == <<"node", "server">>
TwoReleases == {"r1", "r2"}
\* The second release upgrades the language server and keeps node.
Upgrade == [r1 |-> [node |-> 1, server |-> 1], r2 |-> [node |-> 1, server |-> 2]]

ThreeDigits == "0" :> 0 @@ "1" :> 1 @@ "2" :> 2
-----------------------------------------------------------------------------
(* Paths and archives. *)

SamplePaths == UNION {[1 .. n -> {"a", "b", "..", ".", "", "bad"}] : n \in 0 .. 4}

Entry(n, k, s, t, w) == [name |-> n, kind |-> k, size |-> s, target |-> t, whole |-> w]
DirAt(n, s) == Entry(n, "dir", s, <<>>, TRUE)
FileAt(n, s) == Entry(n, "file", s, <<>>, TRUE)
LinkAt(n, t) == Entry(n, "link", 0, t, TRUE)

DirNames == {<<"a">>, <<"a", "b">>, <<"b">>}
LinkNames == {<<"a">>, <<"a", "b">>, <<"c">>}
Targets == {<<"b">>, <<"a">>, <<"..", "b">>, <<"a", "b">>}
Few == {DirAt(n, 0) : n \in DirNames} \cup {FileAt(n, 1) : n \in DirNames} \cup
       {LinkAt(n, t) : n \in LinkNames, t \in Targets}

OddNames == {<<"a", "">>, <<"..", "a">>}
OddTargets == {<<>>, <<"..">>, <<"..", "..", "b">>, <<"", "a">>, <<".", "b">>, <<"b", "bad">>}
Odd == {Entry(<<"b">>, "file", 1, <<>>, FALSE), Entry(<<"b">>, "fifo", 0, <<>>, TRUE),
        Entry(<<"b">>, "link", 1, <<"a">>, TRUE)}
FileNames == {<<"a">>, <<"b", "a">>}
Many == Few \cup {DirAt(n, s) : n \in OddNames, s \in {0, 1}} \cup
        {FileAt(n, s) : n \in FileNames, s \in {-1, 0, 2, 3}} \cup Odd \cup {LinkAt(<<"a", "c">>, t) : t \in OddTargets}
SampleArchives == [1 .. 3 -> Few] \cup UNION {[1 .. n -> Many] : n \in 0 .. 2}
-----------------------------------------------------------------------------
(* Versions, manifests and locks. *)

Plain == <<"1", ".", "0", ".", "0">>
Newer == <<"2", ".", "0", ".", "0">>
Cores == {Plain, Newer, <<"0", "1", ".", "0", ".", "0">>, <<"1", ".", "0">>, <<"1", ".", "0", ".", "">>,
          <<"1", ".", "0", ".", "0", ".", "1">>, <<"v", "1", ".", "0", ".", "0">>, <<>>}
Endings(c) == {<<>>, <<c>>, <<c, "a">>, <<c, "0">>, <<c, "0", "1">>, <<c, "0", "a">>, <<c, "a", ".", "b">>,
                <<c, "a", ".">>, <<c, "a", "-", "b">>, <<c, "a", "+", "b">>, <<c, "-">>}
SampleVersions == {core \o pre \o build : core \in Cores, pre \in Endings("-"), build \in Endings("+")}

AtLeast(v) == <<[op |-> ">=", version |-> v]>>
Wanted(name, v, range) ==
    [name |-> name, kind |-> name, source |-> "npm", version |-> v, revision |-> "", runtime |-> range]
Held(c) == c @@
    [target |-> "darwin/arm64", license |-> <<"l">>, notice |-> <<>>, builder |-> "b", probe |-> <<"bin", "p">>,
     artifact |-> [path |-> <<"vendor", "a">>, size |-> 1, sha |-> "sha", url |-> "u", at |-> "time"],
     install |-> <<[path |-> <<"bin">>, mode |-> "directory"]>>]
VNode(v) == <<"v">> \o v
Comps == {Wanted("node", VNode(Plain), <<>>), Wanted("node", VNode(Newer), <<>>), Wanted("server", Plain, <<>>),
          Wanted("server", Plain, AtLeast(Newer)), Wanted("server", Newer, AtLeast(Plain)),
          [Wanted("runtime", VNode(Newer), <<>>) EXCEPT !.kind = "node-runtime"]}
Broken(c) ==
    {[Held(c) EXCEPT !.target = "linux"], [Held(c) EXCEPT !.probe = <<"..", "p">>], [Held(c) EXCEPT !.install = <<>>],
     [Held(c) EXCEPT !.artifact.size = 3], [Held(c) EXCEPT !.artifact.sha = "bad"]}
SomeOf(S) == {<<a>> : a \in S} \cup {<<a, b>> : a, b \in S}
SampleManifests ==
    {[schema |-> "desired", cli |-> Plain, bundle |-> b, target |-> "darwin/arm64", policy |-> p, components |-> cs] :
        b \in {"2026.01.01.1", "soon"}, p \in {<<>>, VNode(Plain)}, cs \in SomeOf(Comps)}
SampleLocks ==
    {[schema |-> "lock", cli |-> Plain, bundle |-> b, target |-> "darwin/arm64", components |-> cs] :
        b \in {"2026.01.01.1", "2026.01.01.2"},
        cs \in SomeOf({Held(c) : c \in Comps}) \cup {<<x>> : x \in UNION {Broken(c) : c \in Comps}}}
-----------------------------------------------------------------------------
Samples ==
    [kind : {"path"}, path : SamplePaths] \cup [kind : {"archive"}, archive : SampleArchives] \cup
    [kind : {"version"}, version : SampleVersions] \cup [kind : {"plan"}, desired : SampleManifests, locked : SampleLocks]
Done == [kind |-> "none"]

MCInit == Init /\ sample \in Samples
Tried == sample # Done /\ sample' = Done /\ UNCHANGED vars
Step(A) == sample = Done /\ A /\ UNCHANGED sample
MCNext == Tried \/ Step(Next)
MCSpec == /\ MCInit /\ [][MCNext]_<<vars, sample>>
          /\ WF_<<vars, sample>>(Tried)
          /\ WF_<<vars, sample>>(Step(FetchStep /\ UNCHANGED setupVars))
          /\ \A s \in Setups : WF_<<vars, sample>>(Step(SetupStep(s)))

\* Extraction accepts the well-formed archives and makes of each the tree it says.
ExtractionExact ==
    sample.kind = "archive" => AcceptsWellFormed(sample.archive) /\ AllOrNothing(sample.archive)

\* Paths of manifests, locks and archives stay below the root they are joined
\* to; versions are read as Semantic Versioning has them, but for hyphens; and a
\* plan is the manifest with the artifacts of its own lock.
ManifestsExact ==
    /\ sample.kind = "path" => PathContained(sample.path)
    /\ sample.kind = "version" => VersionsRead(sample.version)
    /\ sample.kind = "plan" => PlanExact(sample.desired, sample.locked)
=============================================================================
