------------------------------ MODULE AnkiSync ------------------------------
(***************************************************************************)
(* The Anki synchronisation as the user sees it: an Org file and its       *)
(* buffer, an excluded file, the commands `imoogi-sync' and                *)
(* `imoogi-anki-setup' of src/modules/org/anki, and the collection.  Emacs *)
(* waits for the process, so during a run only the user of Anki acts, or   *)
(* kills the run.  Every heading considered carries ANKI_NOTE_TYPE.        *)
(***************************************************************************)
EXTENDS AnkiPlanner

CONSTANTS
    MaxNames,   \* bound: headings ever written
    MaxHeadings,\* bound: headings in the buffer at a time
    MaxEdits,   \* bound: commands of the user other than saving and syncing
    MaxFaults,  \* bound: faults and kills
    Edits,      \* the commands the user has
    Careless    \* whether the user syncs with unsaved headings in the buffer

VARIABLES
    disk,       \* the file's headings, as on disk
    buffer,     \* the same in the buffer that visits it; modified iff different
    archive,    \* identifiers that stand in the excluded file
    edits,      \* commands of the user so far
    settled,    \* history: a whole clean sync ended and nothing changed since
    loose,      \* history: notes whose state no record of a clean run vouches for
    doubled     \* history: headings copied or left with a second note

ASSUME SyncAssumption ==
    /\ MaxNames \in Nat \ {0} /\ MaxHeadings \in Nat /\ MaxEdits \in Nat /\ MaxFaults \in Nat
    /\ Careless \in BOOLEAN
    /\ (\E v \in Texts : v \notin Invalid) /\ Decks # {}

vars == <<notes, registry, run, faults, disk, buffer, archive, edits, settled,
          loose, doubled>>
files == <<disk, buffer, archive>>

Heading(name, text, deck) == [name |-> name, id |-> NoId, type |-> "stock",
                              text |-> text, deck |-> deck, linked |-> FALSE]
Named(s) == {s[k].id : k \in DOMAIN s} \ {NoId}
Names(s) == [k \in DOMAIN s |-> s[k].name]
Used == {disk[k].name : k \in DOMAIN disk} \cup {buffer[k].name : k \in DOMAIN buffer}
        \cup {notes[i].from : i \in Ids}
FreshName == CHOOSE n \in 1 .. MaxNames : n \notin Used
Idling == run.stage = "idle"
Live == {i \in Ids : Exists(i)}

FirstText == CHOOSE v \in Texts : v \notin Invalid
FirstDeck == CHOOSE d \in Decks : TRUE

Init ==
    /\ PlannerInit
    /\ faults = MaxFaults
    /\ disk = <<Heading(1, FirstText, FirstDeck)>>
    /\ buffer = disk
    /\ archive = {}
    /\ edits = 0
    /\ settled = FALSE /\ loose = {} /\ doubled = {}

-----------------------------------------------------------------------------
(* The user of Emacs                                                       *)

Command(c) ==
    /\ c \in Edits /\ Idling /\ edits < MaxEdits /\ edits' = edits + 1
    /\ settled' = FALSE
    /\ UNCHANGED <<notes, run, faults, loose>>

\* The buffer becomes `s', and is saved or not.
Becomes(s) == buffer' = s /\ disk' \in {s, disk}

EditHeading ==
    /\ Command("edit")
    /\ \E k \in DOMAIN buffer, v \in Texts, d \in Decks :
          /\ <<v, d>> # <<buffer[k].text, buffer[k].deck>>
          /\ Becomes([buffer EXCEPT ![k].text = v, ![k].deck = d])
    /\ UNCHANGED <<registry, archive, doubled>>

\* A heading is written above the others.
InsertHeading ==
    /\ Command("insert") /\ Cardinality(Used \ {0}) < MaxNames /\ Len(buffer) < MaxHeadings
    /\ Becomes(<<Heading(FreshName, FirstText, FirstDeck)>> \o buffer)
    /\ UNCHANGED <<registry, archive, doubled>>

\* A heading that has a note is copied, with its properties.
CopyHeading ==
    /\ Command("copy") /\ Len(buffer) < MaxHeadings
    /\ \E k \in DOMAIN buffer :
          /\ buffer[k].id # NoId /\ Becomes(<<buffer[k]>> \o buffer)
          /\ doubled' = doubled \cup {buffer[k].name}
    /\ UNCHANGED <<registry, archive>>

\* The copy's identifiers are deleted, as note_id_duplicated asks.
ClearIds ==
    /\ Command("copy") /\ Cardinality(Used \ {0}) < MaxNames
    /\ \E k, l \in DOMAIN buffer :
          /\ k # l /\ buffer[k].name = buffer[l].name
          /\ Becomes([buffer EXCEPT ![k].name = FreshName, ![k].id = NoId,
                                    ![k].linked = FALSE])
    /\ UNCHANGED <<registry, archive, doubled>>

Without(s, k) == SubSeq(s, 1, k - 1) \o SubSeq(s, k + 1, Len(s))

RemoveHeading ==
    /\ Command("remove") /\ \E k \in DOMAIN buffer : Becomes(Without(buffer, k))
    /\ UNCHANGED <<registry, archive, doubled>>

\* A heading is refiled to the excluded file, and both are saved.
ArchiveHeading ==
    /\ Command("archive")
    /\ \E k \in DOMAIN buffer :
          /\ buffer' = Without(buffer, k) /\ disk' = buffer'
          /\ archive' = archive \cup ({buffer[k].id} \ {NoId})
    /\ UNCHANGED <<registry, doubled>>

\* An archived heading is deleted there.
RemoveArchived ==
    /\ Command("archive") /\ \E i \in archive : archive' = archive \ {i}
    /\ UNCHANGED <<registry, disk, buffer, doubled>>

LoseRegistry ==
    /\ Command("lose") /\ registry' = [i \in Ids |-> Unregistered]
    /\ UNCHANGED <<files, doubled>>

SaveBuffer ==
    /\ Idling /\ buffer # disk /\ disk' = buffer
    /\ settled' = FALSE
    /\ UNCHANGED <<notes, registry, run, faults, buffer, archive, edits, loose, doubled>>

-----------------------------------------------------------------------------
(* The commands of Emacs                                                   *)

Linked(s) == [k \in DOMAIN s |-> [s[k] EXCEPT !.linked = TRUE]]
\* The pass before the scan that gives every heading an Org ID: a clean buffer
\* is saved with them, in a modified one they stay unsaved.
PrepareIds ==
    /\ buffer' = Linked(buffer)
    /\ disk' = IF buffer = disk THEN Linked(disk) ELSE disk

\* A copied heading carries the same Org ID; those go without a link.
Links(s, k) ==
    s[k].linked /\ \A l \in DOMAIN s : l # k /\ s[l].linked => s[l].name # s[k].name

Sent(s) == [k \in DOMAIN s |->
    [n |-> k, name |-> s[k].name, id |-> s[k].id, type |-> s[k].type,
     text |-> s[k].text, deck |-> s[k].deck, link |-> Links(s, k)]]

\* *Seeded bug*: the census leaves excluded files out.
CensusIncluded(s) == {[id |-> i, path |-> "in"] : i \in Named(s)}

\* The census reads excluded files as well.
Census(s) == {[id |-> i, path |-> "in"] : i \in Named(s)}
             \cup {[id |-> i, path |-> "out"] : i \in archive \ Named(s)}

MayStart ==
    /\ Idling /\ FreeIds >= Len(disk)
    /\ Careless \/ Names(buffer) = Names(disk)

\* A sync over unsaved edits counts as a command of the user.
Sync ==
    /\ MayStart
    /\ IF buffer = disk THEN edits' = edits /\ settled' = settled
       ELSE edits < MaxEdits /\ edits' = edits + 1 /\ settled' = FALSE
    /\ PrepareIds
    /\ StartRun("sync", Sent(disk'), Census(disk'), TRUE)
    /\ UNCHANGED <<notes, registry, faults, archive, loose, doubled>>

\* The file could not be read: no entries, and an incomplete scan.
SyncUnreadable ==
    /\ MayStart /\ faults > 0 /\ faults' = faults - 1
    /\ StartRun("sync", <<>>, Census(<<>>), FALSE)
    /\ settled' = FALSE
    /\ UNCHANGED <<notes, registry, files, edits, loose, doubled>>

\* The user agrees to the migration the dry run found candidates for.
Setup ==
    /\ MayStart /\ "migrate" \in Edits /\ edits < MaxEdits /\ edits' = edits + 1
    /\ \E k \in DOMAIN disk : disk[k].id # NoId /\ registry[disk[k].id].type = "stock"
    /\ StartRun("migrate", Sent(disk), Census(disk), TRUE)
    /\ settled' = FALSE
    /\ UNCHANGED <<notes, registry, faults, files, loose, doubled>>

\* *Seeded bug*: the results are written back in the opposite order.
ResultsReversed(k) ==
    {r \in run.results : r.n = Len(buffer) + 1 - k}

\* The result whose key's index is k.
ResultsFor(k) == {r \in run.results : r.n = k}

\* The n-th heading of the buffer takes the n-th entry's new identifier, and an
\* Org ID; a migrated one also the type.
WrittenBack ==
    [k \in DOMAIN buffer |->
        IF ResultsFor(k) = {} THEN buffer[k]
        ELSE [buffer[k] EXCEPT
                !.id = (CHOOSE r \in ResultsFor(k) : TRUE).id, !.linked = TRUE,
                !.type = IF run.kind = "migrate" THEN "own" ELSE buffer[k].type]]

\* The headings whose identifier was never saved and gives way to the next one.
Overwritten ==
    {k \in DOMAIN buffer \cap DOMAIN disk :
        ResultsFor(k) # {} /\ buffer[k].id \notin {NoId, disk[k].id}}

\* The answer is written back; the buffer is saved unless it was modified.
WriteBack ==
    /\ run.stage = "reply"
    /\ buffer' = WrittenBack
    /\ disk' = IF buffer = disk THEN WrittenBack ELSE disk
    /\ settled' = (run.clean /\ run.complete /\ run.kind = "sync" /\ buffer = disk)
    /\ run' = Idle
    /\ loose' = loose \cup {buffer[k].id : k \in Overwritten}
    /\ doubled' = doubled \cup {buffer[k].name : k \in Overwritten}
    /\ UNCHANGED <<notes, registry, faults, archive, edits>>

-----------------------------------------------------------------------------
(* The user of Anki, and faults                                            *)

AnkiCommand(c) == c \in Edits /\ edits < MaxEdits /\ edits' = edits + 1

\* A note is edited by hand; "late" after a run has confirmed its deletions.
EditNote ==
    /\ AnkiCommand("note")
    /\ \E i \in Live : notes' = [notes EXCEPT
          ![i].text = IF run.stage = "delete" THEN "late" ELSE "user"]
    /\ loose' = loose \cup {i \in Live : notes'[i] # notes[i]}
    /\ UNCHANGED <<registry, run, faults, files, settled, doubled>>

DeleteNote ==
    /\ AnkiCommand("drop")
    /\ \E i \in Live : notes' = [notes EXCEPT ![i] = Gone] /\ loose' = loose \cup {i}
    /\ UNCHANGED <<registry, run, faults, files, settled, doubled>>

\* What the run knows and the registry file does not.
Unsaved == {i \in Ids : run.reg[i] # registry[i]}

\* The process is killed: what it knew is lost.
Kill ==
    /\ ~Idling /\ faults > 0 /\ faults' = faults - 1
    /\ run' = Idle
    /\ settled' = FALSE
    /\ loose' = loose \cup run.added \cup Unsaved
                    \cup (IF run.todo = <<>> THEN {} ELSE {E.id} \cap Ids)
    /\ doubled' = doubled \cup {notes[i].from : i \in run.added}
    /\ UNCHANGED <<notes, registry, files, edits>>

-----------------------------------------------------------------------------

\* A note the run does not know that it added.
Unanswered == {i \in Live' \ Live : i \notin run'.added}

\* The entry's note if it is given up for a new one, or outlives its replacement.
Abandoned ==
    {i \in Live :
        /\ run.todo # <<>> /\ i = E.id
        /\ \/ run'.stage = "add"
           \/ /\ run.kind = "migrate" /\ run.stage \in {"confirm", "delete"}
              /\ run'.stage = "entry" /\ i \in Live'}

\* What a step leaves without a record: those, a note changed or deleted by a
\* request that failed or whose answer was lost, and all a failed save should have kept.
Loosened ==
    Unanswered \cup Abandoned
    \cup {i \in Live :
            /\ run.todo # <<>> /\ i = E.id
            /\ run.stage \in {"entry", "update", "tags", "move"} /\ faults' # faults}
    \cup (IF run.stage = "delete" /\ faults' # faults THEN run.doomed ELSE {})
    \cup (IF run.stage = "save" /\ faults' # faults THEN Unsaved ELSE {})

\* An update that went through, with no edit in between, makes the record true;
\* one that moves no card leaves a card where a lost run put it.
Recorded ==
    {i \in Live :
        /\ run.stage \in {"tags", "move"} /\ run'.stage = "entry" /\ i = E.id
        /\ faults' = faults
        /\ notes[i].text \notin {"user", "late"}
        /\ run.stage = "move" \/ notes[i].deck = run.reg[i].deck}

\* The heading of such a note.
Twice == IF run.todo # <<>> /\ Unanswered \cup Abandoned # {} THEN {E.name} ELSE {}

RunStep ==
    /\ PlannerStep
    /\ loose' = (loose \cup Loosened) \ Recorded
    /\ doubled' = doubled \cup Twice
    /\ UNCHANGED <<files, edits, settled>>

Next ==
    \/ EditHeading \/ InsertHeading \/ CopyHeading \/ ClearIds \/ RemoveHeading
    \/ ArchiveHeading \/ RemoveArchived \/ LoseRegistry \/ SaveBuffer
    \/ Sync \/ SyncUnreadable \/ Setup \/ WriteBack
    \/ EditNote \/ DeleteNote \/ Kill
    \/ RunStep

Fairness == WF_vars(RunStep) /\ WF_vars(Sync) /\ WF_vars(WriteBack) /\ WF_vars(SaveBuffer)
Spec == Init /\ [][Next]_vars /\ Fairness

-----------------------------------------------------------------------------
(* Properties                                                              *)

\* Once a whole sync has ended without an error, a heading that is valid and
\* alone with its identifier has a note that carries its text, its tags and
\* its link, in its deck, unless the user of Anki changed or deleted the note or
\* a request about it failed and no later one made it good.
Mirror ==
    settled /\ Idling =>
        \A k \in DOMAIN disk :
            LET h == disk[k] IN
            /\ h.text \notin Invalid
            /\ h.id # NoId => \A l \in DOMAIN disk : l # k => disk[l].id # h.id
            => /\ h.id # NoId
               /\ Exists(h.id) /\ notes[h.id].type = h.type
                  /\ h.id \notin loose
                  => /\ notes[h.id].text = h.text /\ notes[h.id].tags = h.text
                     /\ notes[h.id].link = Links(disk, k)
                     /\ notes[h.id].deck = h.deck

\* After such a sync no note of a removed heading is left that the registry
\* still knows and that nobody changed.
OrphansCollected ==
    settled /\ Idling =>
        \A i \in Live : /\ registry[i].type # "none" /\ registry[i].path = "in"
                        /\ registry[i].hash = Hash(notes[i].type, notes[i].text,
                               notes[i].tags, notes[i].link, registry[i].deck)
                        => i \in Named(disk) \cup archive

\* Nothing is written to the collection by a sync of an unchanged file
\* (REQ-011: a repeated sync is a no-op).
Idempotent == [][settled /\ RunStep => notes' = notes]_vars

\* A run never deletes the note of a heading that still stands anywhere, not
\* even in an excluded file or one that could not be read; a migration only
\* once the replacement is there (unless the user deletes it in that moment);
\* and none of them a note the user edited in Anki, unless the edit came after
\* the run had confirmed what it is about to delete.
DeletesOnlyOrphans ==
    [][RunStep => \A i \in Live \ Live' :
          /\ \/ i \notin Named(disk) \cup archive
             \/ \E j \in Ids : /\ j = run.fresh
                               /\ \/ notes[j].type = "own" /\ notes[j].from = notes[i].from
                                  \/ j \in loose
          /\ notes[i].text # "user"]_vars

\* Between two runs no two notes stand for one heading, a lost registry, failed
\* saves and unsaved buffers included, unless the heading was copied, a run died before
\* its answer was written back, or the answer to a request for one of them was lost,
\* refused or overwritten by that of a second sync of an unsaved buffer.
NoDuplicates ==
    Idling =>
        \A i, j \in Live :
            i # j /\ notes[i].from = notes[j].from => notes[i].from \in doubled

\* A heading's identifier names the note that was made from it.
HeadingNamesItsNote ==
    \A s \in {disk, buffer} : \A k \in DOMAIN s :
        s[k].id # NoId => notes[s[k].id].from \in {s[k].name, 0}

\* Once the user stops, syncing again and again comes to an end: it no longer
\* changes a note or a heading, and every run is clean, unless a heading names a
\* note that was deleted in Anki.
NamesGone(i) == notes[i].type = "gone" /\ i \in Named(disk)
Converges ==
    /\ <>[][FALSE]_<<notes, disk>>
    /\ <>[](settled \/ \E i \in Ids : NamesGone(i))
=============================================================================
