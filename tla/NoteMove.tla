------------------------------ MODULE NoteMove ------------------------------
(***************************************************************************)
(* `imoogi-notes` with operation "move": a notes directory is read, copied *)
(* beside its destination, read again, compared, renamed into place, and   *)
(* the source is renamed away and removed.  Other programs write notes     *)
(* meanwhile; the helper may be killed at any step.  A file is read or     *)
(* written in one step; a tree is removed in one, or some of it is.        *)
(***************************************************************************)
EXTENDS Naturals, FiniteSets

CONSTANTS
    N,         \* the notes, in the order of a directory walk: 1 .. N
    Contents,  \* what a note may hold
    MaxEdits,         \* bound: writes of notes by other programs
    MaxDisturbances   \* bound: these writes, kills and failing steps

ASSUME MoveAssumption == N \in Nat \ {0} /\ Contents \subseteq Nat \ {0} /\ 1 \in Contents

Files  == 1 .. N
Absent == 0      \* no such file in the tree
Places == {"source", "staging", "destination", "tombstone"}
NoFiles == [f \in Files |-> Absent]

VARIABLES
    dirs,     \* the directories that exist
    tree,     \* place -> file -> contents
    move,     \* the move under way, or its outcome
    last,     \* file -> what was last written to it
    late,     \* the files written after the move's last look at them
    edits, faults

moveVars == <<dirs, tree, move, last, late, edits, faults>>

Resting(outcome) == [pc |-> "idle", outcome |-> outcome, at |-> 1, before |-> NoFiles, after |-> NoFiles]

MoveInit ==
    /\ dirs = {"source"}
    /\ tree = [p \in Places |-> IF p = "source" THEN [f \in Files |-> 1] ELSE NoFiles]
    /\ move = Resting("none")
    /\ last = [f \in Files |-> 1]
    /\ late = {}
    /\ edits = 0
    /\ faults = 0

Budget == edits + faults < MaxDisturbances
Fault == Budget /\ faults' = faults + 1

MoveAt(pc) == move.pc = pc
MoveTo(pc) == move' = [move EXCEPT !.pc = pc, !.at = 1]
AtEnd == move.at = N
\* One more file of a walk; `next` follows the last one.
Walk(record, next) == move' = [record EXCEPT !.at = IF AtEnd THEN 1 ELSE move.at + 1,
                                             !.pc = IF AtEnd THEN next ELSE move.pc]

\* validate: a source directory, no destination.
MoveStart ==
    /\ MoveAt("idle")
    /\ "source" \in dirs
    /\ "destination" \notin dirs
    /\ move' = [Resting("none") EXCEPT !.pc = "before"]
    /\ late' = {f \in late : tree["source"][f] # last[f]}
    /\ UNCHANGED <<dirs, tree, last, edits, faults>>

\* The first manifest; then the staging directory is made.
ManifestBefore ==
    /\ MoveAt("before")
    /\ Walk([move EXCEPT !.before[move.at] = tree["source"][move.at]], "copy")
    /\ IF AtEnd
       THEN dirs' = dirs \cup {"staging"} /\ tree' = [tree EXCEPT !["staging"] = NoFiles]
       ELSE UNCHANGED <<dirs, tree>>
    /\ UNCHANGED <<last, late, edits, faults>>

CopyTree ==
    /\ MoveAt("copy")
    /\ tree' = [tree EXCEPT !["staging"][move.at] = tree["source"][move.at]]
    /\ Walk(move, "after")
    /\ UNCHANGED <<dirs, last, late, edits, faults>>

ManifestAfter ==
    /\ MoveAt("after")
    /\ Walk([move EXCEPT !.after[move.at] = tree["source"][move.at]], "compare")
    /\ UNCHANGED <<dirs, tree, last, late, edits, faults>>

Fails(removed) == move' = Resting("failed") /\ dirs' = dirs \ removed

\* Mutant: the source is not read again after the copy.
CompareOnce ==
    /\ MoveAt("compare")
    /\ IF move.before = tree["staging"]
       THEN MoveTo("commit") /\ UNCHANGED dirs
       ELSE Fails({"staging"})
    /\ UNCHANGED <<tree, last, late, edits, faults>>

\* Source before = source after, and the copy read back = source before.
Compare ==
    /\ MoveAt("compare")
    /\ IF move.before = move.after /\ move.before = tree["staging"]
       THEN MoveTo("commit") /\ UNCHANGED dirs
       ELSE Fails({"staging"})
    /\ UNCHANGED <<tree, last, late, edits, faults>>

Commit ==
    /\ MoveAt("commit")
    /\ dirs' = (dirs \ {"staging"}) \cup {"destination"}
    /\ tree' = [tree EXCEPT !["destination"] = tree["staging"]]
    /\ MoveTo("mark")
    /\ UNCHANGED <<last, late, edits, faults>>

\* Mutant: the destination stays when a marker is found.
LookForMarkKeeping ==
    /\ MoveAt("mark")
    /\ IF "tombstone" \in dirs THEN Fails({}) ELSE MoveTo("rename") /\ UNCHANGED dirs
    /\ UNCHANGED <<tree, last, late, edits, faults>>

\* A marker left by an earlier move stops this one, and so does a failing Lstat.
LookForMark ==
    /\ MoveAt("mark")
    /\ \/ "tombstone" \in dirs /\ MoveTo("rollback") /\ UNCHANGED faults
       \/ "tombstone" \notin dirs /\ MoveTo("rename") /\ UNCHANGED faults
       \/ Fault /\ MoveTo("rollback")
    /\ UNCHANGED <<dirs, tree, last, late, edits>>

\* A RemoveAll that fails or is cut short: the directory stays, any of its files may be gone.
PartlyRemoved(p) ==
    \E gone \in SUBSET Files :
        tree' = [tree EXCEPT ![p] = [f \in Files |-> IF f \in gone THEN Absent ELSE tree[p][f]]]

\* The move has failed at the end: the destination is removed again.  When that
\* fails too ("left"), nobody is told: the answer is that of any other failure.
RollBack ==
    /\ MoveAt("rollback")
    /\ \/ Fails({"destination"}) /\ UNCHANGED <<tree, faults>>
       \/ Fault /\ PartlyRemoved("destination") /\ move' = Resting("left") /\ UNCHANGED dirs
    /\ UNCHANGED <<last, late, edits>>

RenameSource ==
    /\ MoveAt("rename")
    /\ dirs' = (dirs \ {"source"}) \cup {"tombstone"}
    /\ tree' = [tree EXCEPT !["tombstone"] = tree["source"]]
    /\ MoveTo("clean")
    /\ UNCHANGED <<last, late, edits, faults>>

\* RemoveAll of the tombstone; a failure is only a warning.
Clean ==
    /\ MoveAt("clean")
    /\ move' = Resting("moved")
    /\ \/ dirs' = dirs \ {"tombstone"} /\ UNCHANGED <<tree, faults>>
       \/ Fault /\ PartlyRemoved("tombstone") /\ UNCHANGED dirs
    /\ UNCHANGED <<last, late, edits>>

\* A walk, a copy or a rename fails.
MoveFails ==
    /\ Fault
    /\ \/ move.pc \in {"before", "copy", "after", "compare", "commit"} /\ Fails({"staging"})
       \/ MoveAt("rename") /\ MoveTo("rollback") /\ UNCHANGED dirs
    /\ UNCHANGED <<tree, last, late, edits>>

\* Killed, also in the middle of a removal; a staging directory keeps its random
\* name and is not met again.
MoveKilled ==
    /\ Fault
    /\ ~MoveAt("idle")
    /\ move' = Resting("none")
    /\ dirs' = dirs \ {"staging"}
    /\ \/ MoveAt("rollback") /\ PartlyRemoved("destination")
       \/ MoveAt("clean") /\ PartlyRemoved("tombstone")
       \/ move.pc \notin {"rollback", "clean"} /\ UNCHANGED tree
    /\ UNCHANGED <<last, late, edits>>

\* The move has looked at `f` for the last time and the source is still there.
Looked(f) == \/ MoveAt("after") /\ f < move.at
             \/ move.pc \in {"compare", "commit", "mark", "rename"}

\* Another program writes a note, or removes it, where the notes are registered.
Write(f, c) ==
    /\ Budget
    /\ edits < MaxEdits
    /\ edits' = edits + 1
    /\ LET p == IF "source" \in dirs THEN "source" ELSE "destination" IN
       /\ tree[p][f] # c
       /\ tree' = [tree EXCEPT ![p][f] = c]
    /\ last' = [last EXCEPT ![f] = c]
    /\ late' = IF Looked(f) THEN late \cup {f} ELSE late
    /\ UNCHANGED <<dirs, move, faults>>

\* The notes are brought back to where they were.
MoveBack ==
    /\ Budget
    /\ edits < MaxEdits
    /\ edits' = edits + 1
    /\ MoveAt("idle")
    /\ "source" \notin dirs
    /\ dirs' = (dirs \ {"destination"}) \cup {"source"}
    /\ tree' = [tree EXCEPT !["source"] = tree["destination"]]
    /\ move' = Resting("none")
    /\ UNCHANGED <<last, late, faults>>

MoveNext == \/ MoveStart \/ ManifestBefore \/ CopyTree \/ ManifestAfter \/ Compare \/ Commit
            \/ LookForMark \/ RollBack \/ RenameSource \/ Clean \/ MoveFails \/ MoveKilled \/ MoveBack
            \/ \E f \in Files, c \in Contents \cup {Absent} : Write(f, c)

-----------------------------------------------------------------------------
(* Properties *)

\* Whatever was written to a note before the move's last look at it is in one
\* of the trees that remain, through failures and kills (Move: two manifests,
\* verified copy, source renamed last).  What is written later may be lost.
KeptUnlessLate ==
    \A f \in Files \ late :
        \E p \in dirs \cap {"source", "destination", "tombstone"} : tree[p][f] = last[f]

\* "moved": the notes are at the destination only, with all that was written before
\* the last look at them.  Whatever else is answered: they are at the source, with all
\* of that, and only a destination that could not be removed again ("left") stands
\* beside them, complete or not (Move: source_commit_failed).
OutcomeTrue ==
    /\ move.outcome = "moved" =>
         /\ "destination" \in dirs /\ "source" \notin dirs
         /\ \A f \in Files \ late : tree["destination"][f] = last[f]
    /\ move.outcome \in {"failed", "left"} =>
         /\ "source" \in dirs
         /\ \A f \in Files \ late : tree["source"][f] = last[f]
    /\ move.outcome = "failed" => "destination" \notin dirs
=============================================================================
