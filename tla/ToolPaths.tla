----------------------------- MODULE ToolPaths -----------------------------
(***************************************************************************)
(* The three checks of relative paths in the toolchain: of a name in an    *)
(* archive, of a path in a manifest or a lock, and of a path below the     *)
(* staging tree.  A path is the sequence of its segments as they stand     *)
(* between the slashes: "" is an empty segment, so an absolute path begins *)
(* with "" and a/ ends with it; "bad" has a backslash or a colon in it.    *)
(***************************************************************************)
EXTENDS Sequences, SequencesExt, Naturals

\* path.Clean and filepath.Clean: a ".." takes back the segment before it.
Cleaned(done, s) ==
    IF s \in {"", "."} THEN done
    ELSE IF s = ".." /\ done # <<>> /\ Last(done) # ".." THEN Front(done)
    ELSE Append(done, s)
Clean(path) == FoldLeft(Cleaned, <<>>, path)

\* cleanArchivePath: trailing slashes are trimmed, and what Clean would change
\* is refused.
TrimSlashes(name) ==
    SubSeq(name, 1, CHOOSE i \in 0 .. Len(name) :
                        /\ \A j \in i + 1 .. Len(name) : name[j] = ""
                        /\ i > 0 => name[i] # "")
CleanName(name) ==
    LET n == TrimSlashes(name)
    IN  n # <<>> /\ n[1] # "" /\ "bad" \notin Range(n) /\ Clean(n) = n /\ n[1] # ".."

\* Mutant: a clean path is taken to stay inside.
RepoPathClean(path) ==
    /\ path # <<>> /\ path[1] # "" /\ "bad" \notin Range(path)
    /\ Clean(path) = path

\* ValidateRepoPath
RepoPath(path) ==
    /\ path # <<>> /\ path[1] # "" /\ "bad" \notin Range(path)
    /\ Clean(path) = path /\ path[1] # ".."

\* ContainedStagePath: Rel of the joined path must not lead out.
StagePath(path) ==
    /\ path # <<>> /\ path[1] # "" /\ "bad" \notin Range(path)
    /\ Clean(path) = path
    /\ LET rel == Clean(path) IN rel # <<>> /\ rel # <<"..">> /\ rel[1] # ".."

\* Where walking a path from a root ends: how deep below it, never above it.
Depth(path) ==
    FoldLeft(LAMBDA d, s : IF d < 0 THEN d ELSE IF s = ".." THEN d - 1 ELSE IF s \in {"", "."} THEN d ELSE d + 1,
             0, path)

\* A path that any of the checks lets through leads, segment by segment, to
\* a place strictly below the root it is joined to, and the lock's check and the
\* staging tree's agree: a lock that setup accepts names no probe or launcher
\* that fails later.
PathContained(path) ==
    /\ (CleanName(path) \/ RepoPath(path) \/ StagePath(path)) => Depth(path) > 0
    /\ RepoPath(path) <=> StagePath(path)
=============================================================================
