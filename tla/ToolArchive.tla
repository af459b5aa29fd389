---------------------------- MODULE ToolArchive ----------------------------
(***************************************************************************)
(* Extraction of a verified archive (src/internal/artifact/artifact.go and *)
(* zip.go): setup unpacks every component with it into the staging tree of *)
(* a bundle.  An archive is a sequence of entries [name, kind, size,       *)
(* target, whole]; names and link targets are paths as in ToolPaths, and   *)
(* whole says that the entry has as many bytes as it declares.             *)
(***************************************************************************)
EXTENDS ToolPaths, Integers, FiniteSets

CONSTANTS MaxEntries, MaxFileBytes, MaxOutputBytes      \* the limits

\* withDefaultLimits
ASSUME LimitsAssumption == {MaxEntries, MaxFileBytes, MaxOutputBytes} \subseteq Nat \ {0}

----------------------------------------------------------------------------
(* Names. *)

Parent(path) == SubSeq(path, 1, Len(path) - 1)
Ancestors(path) == {SubSeq(path, 1, i) : i \in 1 .. Len(path) - 1}

(* validateSymlinkTarget: a relative, clean target that stays in the archive;
   Resolved is the entry it leads to. *)
Resolved(entry) == Clean(Parent(TrimSlashes(entry.name)) \o entry.target)
TargetOK(entry) ==
    /\ entry.target # <<>> /\ Head(entry.target) # "" /\ "bad" \notin Range(entry.target)
    /\ Clean(entry.target) = entry.target
    /\ Resolved(entry) # <<>> /\ Head(Resolved(entry)) # ".."
----------------------------------------------------------------------------
(* One pass over the entries writes directories and files; a second one, over
   the links that were put aside, makes the links.  A step that finds anything
   wrong ends the extraction. *)

Dir == [kind |-> "dir"]
File(size) == [kind |-> "file", size |-> size]
Link(target) == [kind |-> "link", target |-> target]
Put(f, path, value) == [p \in DOMAIN f \cup {path} |-> IF p = path THEN value ELSE f[p]]

Start == [ok |-> TRUE, seen |-> <<>>, tree |-> [p \in {<<>>} |-> Dir], links |-> <<>>, bytes |-> 0, entries |-> 0]
Stop(x) == [x EXCEPT !.ok = FALSE]
Then(x, ok) == IF ok THEN x ELSE Stop(x)

(* kindForType *)
Supported(entry, symlinks) == entry.kind \in {"dir", "file"} \/ (entry.kind = "link" /\ symlinks)

(* detectPathConflict *)
Conflict(name, kind, seen) ==
    \/ \E a \in Ancestors(name) : a \in DOMAIN seen /\ seen[a] \in {"file", "link"}
    \/ kind = "dir" /\ \E n \in DOMAIN seen : name \in Ancestors(n)

\* Mutant: the output limit is compared with what was written so far.
SizeOKSoFar(entry, bytes) ==
    IF entry.kind = "file"
    THEN entry.size >= 0 /\ entry.size <= MaxFileBytes /\ bytes <= MaxOutputBytes
    ELSE entry.size = 0

(* validateEntryHeader *)
SizeOK(entry, bytes) ==
    IF entry.kind = "file"
    THEN entry.size >= 0 /\ entry.size <= MaxFileBytes /\ bytes <= MaxOutputBytes - entry.size
    ELSE entry.size = 0
HeaderOK(x, entry, symlinks) ==
    LET name == TrimSlashes(entry.name)
    IN  /\ CleanName(entry.name)
        /\ Supported(entry, symlinks)
        /\ name \notin DOMAIN x.seen /\ ~Conflict(name, entry.kind, x.seen)
        /\ SizeOK(entry, x.bytes)

(* mkdirNoSymlinkBelow: every directory on the way, each a directory or made now. *)
MakeDirs(x, dir) ==
    LET way == Ancestors(dir) \cup {dir}
        new == {p \in way : p \notin DOMAIN x.tree}
    IN  IF \E p \in way \ new : x.tree[p].kind # "dir" THEN Stop(x)
        ELSE [x EXCEPT !.tree = [p \in DOMAIN x.tree \cup new |-> IF p \in new THEN Dir ELSE x.tree[p]]]

(* writeRegularFile: created exclusively, with as many bytes as declared. *)
WriteRegular(x, name, entry) ==
    IF ~x.ok \/ name \in DOMAIN x.tree \/ ~entry.whole THEN Stop(x)
    ELSE [x EXCEPT !.tree = Put(@, name, File(entry.size))]

(* The loop of extractVerifiedTarGzip and of extractVerifiedZip. *)
ExtractEntry(x, entry, symlinks) ==
    LET name == TrimSlashes(entry.name)
        y == [x EXCEPT !.entries = @ + 1,
                       !.seen = Put(@, name, entry.kind),
                       !.bytes = IF entry.kind = "file" THEN @ + entry.size ELSE @]
    IN  IF ~x.ok \/ x.entries >= MaxEntries \/ ~HeaderOK(x, entry, symlinks) THEN Stop(x)
        ELSE CASE entry.kind = "dir" -> MakeDirs(y, name)
               [] entry.kind = "file" -> WriteRegular(MakeDirs(y, Parent(name)), name, entry)
               [] entry.kind = "link" ->
                    Then([y EXCEPT !.links = Append(@, entry)], TargetOK(entry))

(* createVerifiedSymlinks: the target was an entry, is there, and is no link. *)
MakeLink(x, entry) ==
    LET name == TrimSlashes(entry.name)
        target == Resolved(entry)
        y == MakeDirs(x, Parent(name))
    IN  IF \/ ~x.ok \/ target \notin DOMAIN x.seen \/ x.seen[target] = "link"
           \/ target \notin DOMAIN x.tree \/ x.tree[target].kind = "link"
           \/ ~y.ok \/ name \in DOMAIN y.tree
        THEN Stop(x)
        ELSE [y EXCEPT !.tree = Put(@, name, Link(entry.target))]

Unpack(archive, symlinks) ==
    LET x == FoldLeft(LAMBDA s, e : ExtractEntry(s, e, symlinks), Start, archive)
    IN  FoldLeft(MakeLink, x, x.links)

(* zipEntryHeader: the entries of a zip are put in the form of a tar's, so that
   both go through the same checks; links are refused there, and a file is whole
   only if its stream ends where its header says (writeZipFile). *)
ZipEntry(entry) ==
    [entry EXCEPT !.kind = IF @ \in {"dir", "link", "file"} THEN @ ELSE "fifo",
                  !.size = IF entry.kind = "file" THEN @ ELSE 0]
FromZip(archive) == [i \in DOMAIN archive |-> ZipEntry(archive[i])]
UnpackZip(archive) == Unpack(FromZip(archive), FALSE)

(* validateDestination *)
Fits(destination) == destination \in {"absent", "empty"}

(* commitStaging looks at the destination again.  An empty directory is removed
   for the staging tree, and made anew when the rename fails. *)
Commit(now, renames) == IF Fits(now) /\ renames THEN "tree" ELSE now

(* ExtractTarGzipWithOptions, ExtractZip: what is at the destination in the end. *)
Extract(x, verified, before, now, renames) ==
    IF verified /\ Fits(before) /\ x.ok THEN Commit(now, renames) ELSE now
----------------------------------------------------------------------------
(* What an archive says, without an order of steps. *)

EntryNames(archive) == {TrimSlashes(archive[i].name) : i \in DOMAIN archive}
EntryOf(archive, path) == archive[CHOOSE i \in DOMAIN archive : TrimSlashes(archive[i].name) = path]

Sum(archive) == FoldLeft(LAMBDA n, e : IF e.kind = "file" THEN n + e.size ELSE n, 0, archive)

\* Distinct clean names; what has children is a directory that comes before
\* them or is not listed; links lead to listed files and directories.
WellFormed(archive, symlinks) ==
    /\ Len(archive) <= MaxEntries /\ Sum(archive) <= MaxOutputBytes
    /\ Cardinality(EntryNames(archive)) = Len(archive)
    /\ \A i \in DOMAIN archive :
          LET e == archive[i] IN
          /\ CleanName(e.name) /\ Supported(e, symlinks)
          /\ IF e.kind = "file" THEN e.size \in 0 .. MaxFileBytes /\ e.whole ELSE e.size = 0
          /\ \A j \in DOMAIN archive :
                TrimSlashes(e.name) \in Ancestors(TrimSlashes(archive[j].name)) => e.kind = "dir" /\ i < j
          /\ e.kind = "link" =>
                /\ TargetOK(e) /\ Resolved(e) \in EntryNames(archive)
                /\ EntryOf(archive, Resolved(e)).kind # "link"

NodeOf(entry) ==
    CASE entry.kind = "dir" -> Dir
      [] entry.kind = "file" -> File(entry.size)
      [] entry.kind = "link" -> Link(entry.target)
Intended(archive) ==
    [p \in {<<>>} \cup UNION {Ancestors(n) \cup {n} : n \in EntryNames(archive)} |->
        IF p \in EntryNames(archive) THEN NodeOf(EntryOf(archive, p)) ELSE Dir]

\* The checks made entry by entry, with what happens to be on the disk at the
\* time, accept exactly the well-formed archives, and an accepted one becomes the
\* tree it says, nothing of it missing and nothing besides; in a zip likewise,
\* where links are not well-formed.
AcceptsWellFormed(archive) ==
    /\ \A symlinks \in BOOLEAN : Unpack(archive, symlinks).ok <=> WellFormed(archive, symlinks)
    /\ UnpackZip(archive).ok <=> WellFormed(FromZip(archive), FALSE)
    /\ Unpack(archive, TRUE).ok => Unpack(archive, TRUE).tree = Intended(archive)

\* The destination changes only as a whole, from nothing to the tree of a
\* verified, well-formed archive.
AllOrNothing(archive) ==
    LET x == Unpack(archive, TRUE)
    IN  \A verified, renames \in BOOLEAN, before, now \in {"absent", "empty", "full", "other"} :
            Extract(x, verified, before, now, renames) =
                IF verified /\ renames /\ WellFormed(archive, TRUE) /\ {before, now} \subseteq {"absent", "empty"}
                THEN "tree" ELSE now
=============================================================================
