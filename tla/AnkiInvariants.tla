--------------------------- MODULE AnkiInvariants ---------------------------
(***************************************************************************)
(* The invariants of the Anki synchronisation that the theorems of         *)
(* AnkiProofs rest on: what a run has in hand is of the file as it is on   *)
(* disk; what the registry records of a note is what the collection holds; *)
(* and how far a whole sync has come.                                      *)
(***************************************************************************)
EXTENDS AnkiSync

-----------------------------------------------------------------------------
(* Types *)

Words == Texts \cup {NoText}
Places == Decks \cup {NoDeck}

Cards ==
  [type : Types \cup {"never", "gone"}, text : Words \cup {"user", "late"}, tags : Words,
   link : BOOLEAN, deck : Places, from : 0 .. MaxNames]

Hashes ==
  [type : Types \cup {"none"}, text : Words, tags : Words, link : BOOLEAN, deck : Places]

Records == [type : Types \cup {"none"}, path : {"in", "out"}, deck : Places, hash : Hashes]

Headings ==
  [name : 1 .. MaxNames, id : 0 .. MaxNotes, type : Types, text : Texts, deck : Decks,
   linked : BOOLEAN]

Entries ==
  [n : Nat \ {0}, name : 1 .. MaxNames, id : 0 .. MaxNotes, type : Types, text : Texts,
   deck : Decks, link : BOOLEAN]

Runs ==
  [stage : {"idle", "entry", "add", "update", "tags", "move", "confirm", "delete", "save",
            "reply"},
   kind : {"sync", "migrate"}, sent : Seq(Entries), todo : Seq(Entries),
   census : SUBSET [id : Ids, path : {"in", "out"}], complete : BOOLEAN,
   reg : [Ids -> Records], pre : SUBSET Ids, fresh : 0 .. MaxNotes, adopt : BOOLEAN,
   doomed : SUBSET Ids, results : SUBSET [n : Nat \ {0}, id : Ids], added : SUBSET Ids,
   clean : BOOLEAN]

SyncTypes ==
  /\ notes \in [Ids -> Cards]
  /\ registry \in [Ids -> Records]
  /\ run \in Runs
  /\ faults \in Nat
  /\ disk \in Seq(Headings) /\ buffer \in Seq(Headings)
  /\ archive \in SUBSET Ids
  /\ edits \in Nat
  /\ settled \in BOOLEAN
  /\ loose \in SUBSET Ids /\ doubled \in SUBSET (0 .. MaxNames)

-----------------------------------------------------------------------------
(* The invariant *)

\* Note i was made of the heading called name, and may have been deleted since.
MadeOf(i, name) ==
  /\ i \in Ids /\ notes[i].type # "never"
  /\ Exists(i) => notes[i].from = name

HeadingsInv(s) == \A k \in DOMAIN s : s[k].id # NoId => MadeOf(s[k].id, s[k].name)

GoneInv == \A i \in Ids : ~Exists(i) => notes[i].from = 0

\* The replacement of a migrated note is there before the note goes.
Replaced ==
  /\ run.todo # <<>> /\ run.doomed \subseteq {E.id}
  /\ MadeOf(run.fresh, E.name)
  /\ Exists(run.fresh) => notes[run.fresh].type = "own"
  /\ ~Exists(run.fresh) => run.fresh \in loose

\* What a run under way has in hand is of the file as it is on disk, which
\* Emacs does not touch meanwhile, and it still has room for the notes it may add.
Deleting == run.stage \in {"confirm", "delete"}

TodoInv ==
  \A j \in DOMAIN run.todo :
     run.todo[j].n \in DOMAIN disk /\ run.todo[j] = Sent(disk)[run.todo[j].n]
ResultsInv == \A r \in run.results : r.n \in DOMAIN disk /\ MadeOf(r.id, disk[r.n].name)
CensusInv == run.kind = "sync" /\ run.complete => run.census = Census(disk)
DoomedInv ==
  /\ run.kind = "sync" /\ Deleting => run.doomed \cap (Named(disk) \cup archive) = {}
  /\ run.stage = "delete" => \A i \in run.doomed : notes[i].text # "user"
  /\ run.kind = "migrate" /\ Deleting => Replaced
StageInv ==
  /\ run.stage \in {"add", "update", "tags", "move"} => run.kind = "sync" /\ run.todo # <<>>
  /\ run.stage \in {"update", "tags", "move"} => E.id # NoId
RoomInv == Len(run.todo) <= FreeIds + (IF run.kind = "migrate" /\ Deleting THEN 1 ELSE 0)

RunInv ==
  /\ TodoInv /\ ResultsInv /\ CensusInv /\ DoomedInv /\ StageInv /\ RoomInv
  /\ Names(buffer) = Names(disk)

SyncInv ==
  /\ SyncTypes
  /\ ~Careless
  /\ HeadingsInv(disk) /\ HeadingsInv(buffer) /\ GoneInv
  /\ ~Idling => RunInv

-----------------------------------------------------------------------------
(***************************************************************************)
(* What the records say is true, and what a clean run leaves behind.       *)
(***************************************************************************)

\* The records of reg are about notes that were added, and know their types.
Known(reg) ==
  \A i \in Ids : reg[i].type # "none" =>
     notes[i].type # "never" /\ (Exists(i) => reg[i].type = notes[i].type)

Content(i) == Hash(notes[i].type, notes[i].text, notes[i].tags, notes[i].link, notes[i].deck)

\* What reg records of note i is what the collection holds.
TrueOf(reg, i) ==
  reg[i].type # "none" => reg[i].deck = notes[i].deck /\ reg[i].hash = Content(i)

Writing(i) == run.stage \in {"tags", "move"} /\ i = E.id

\* The registry a run works on is its own until it is saved.
Book == IF run.stage \in {"idle", "reply"} THEN registry ELSE run.reg

TruthInv ==
  /\ Known(registry) /\ (~Idling => Known(run.reg))
  /\ \A i \in Live \ loose : Writing(i) \/ TrueOf(Book, i)

\* How far the update of a note has come, and the replacement of a migrated one.
HandInv ==
  /\ run.stage = "update" => run.adopt
  /\ run.stage \in {"update", "tags", "move"} /\ Exists(E.id) => notes[E.id].type = E.type
  /\ run.stage \in {"tags", "move"} /\ Exists(E.id) =>
       /\ notes[E.id].link = E.link
       /\ notes[E.id].text = E.text \/ (notes[E.id].text \in {"user", "late"} /\ E.id \in loose)
       /\ run.stage = "move" => notes[E.id].tags = E.text
       /\ ~run.adopt /\ E.id \notin loose => notes[E.id].deck = run.reg[E.id].deck
  /\ run.kind = "migrate" /\ Deleting /\ run.fresh \in Live \ loose =>
       notes[run.fresh] = New([E EXCEPT !.link = FALSE], "own")

-----------------------------------------------------------------------------
\* The headings a whole sync has dealt with.
Through == 1 .. Len(disk) - Len(run.todo)

Final == run.stage \in {"confirm", "delete", "save", "reply"}

ResultOf(k) == {r \in run.results : r.n = k}
ResultIds == {r.id : r \in run.results}

\* The record of i says that the entry e needs no request.
Settles(reg, i, e) ==
  /\ i # NoId /\ reg[i].type # "none"
  /\ reg[i].type = e.type => reg[i].hash = EntryHash(e, e.type)

OrderInv ==
  /\ run.sent = Sent(disk)
  /\ Len(run.todo) <= Len(disk)
  /\ \A j \in DOMAIN run.todo : run.todo[j].n = Len(disk) - Len(run.todo) + j
  /\ Final => run.todo = <<>>
  /\ \A k \in DOMAIN buffer : buffer[k].linked
  /\ run.stage \in {"add", "update", "tags", "move"} => ~Claimed(E.id)
  /\ run.stage = "add" => E.id # NoId /\ run.reg[E.id].type = "none"

NewInv ==
  /\ \A i \in run.pre : notes[i].type # "never"
  /\ run.doomed \subseteq run.pre
  /\ Deleting => \A i \in run.doomed : run.reg[i].path = "in"
  /\ Registered(run.reg) \subseteq run.pre \cup Named(disk) \cup ResultIds
  /\ \A r \in run.results :
       /\ r.n \in Through /\ r.id \notin Named(disk) \cup run.pre
       /\ disk[r.n].id # NoId =>
            run.reg[disk[r.n].id].type = "none" /\ ~Claimed(disk[r.n].id)
       /\ \A q \in run.results : q.n = r.n => q = r

DoneAt(k) ==
  LET e == Sent(disk)[k] IN
  \/ e.text \in Invalid
  \/ e.id # NoId /\ Claimed(e.id)
  \/ \E r \in run.results : r.n = k /\ Settles(run.reg, r.id, e)
  \/ Settles(run.reg, e.id, e) /\ ResultOf(k) = {}
DoneInv == \A k \in Through : DoneAt(k)

\* A note nothing names, which the registry knows as it is.
OrphanIn(reg, i) ==
  /\ i \in Live /\ reg[i].type # "none" /\ reg[i].path = "in"
  /\ i \notin Named(disk) \cup archive
  /\ reg[i].hash = Hash(notes[i].type, notes[i].text, notes[i].tags, notes[i].link, reg[i].deck)

GoneOrphans ==
  Final => \A i \in Ids \ ResultIds : OrphanIn(run.reg, i) => Deleting /\ i \in run.doomed

Whole == ~Idling /\ run.kind = "sync" /\ run.complete

WholeInv ==
  Whole =>
    /\ OrderInv /\ NewInv
    /\ run.clean => DoneInv /\ GoneOrphans
    /\ run.clean /\ run.stage = "reply" => registry = run.reg

\* Under reg the file needs no request: every heading that is valid and alone with its
\* identifier has its record, and no orphan is left.
AtRestUnder(reg) ==
  /\ \A k \in DOMAIN disk :
       LET e == Sent(disk)[k] IN
       \/ e.text \in Invalid
       \/ e.id # NoId /\ \E l \in DOMAIN disk : l # k /\ disk[l].id = e.id
       \/ Settles(reg, e.id, e)
  /\ \A i \in Ids : ~OrphanIn(reg, i)

SettledInv ==
  settled =>
    IF Idling THEN (\A k \in DOMAIN disk : disk[k].linked) /\ AtRestUnder(registry)
    ELSE /\ run.kind = "sync" /\ run.complete /\ run.results = {}
         /\ run.stage \in {"entry", "confirm", "save", "reply"}
         /\ AtRestUnder(run.reg)

RecordsInv == TruthInv /\ HandInv /\ WholeInv /\ SettledInv

-----------------------------------------------------------------------------
(***************************************************************************)
(* How many notes a heading has, but for those that are exempt (doubled).  *)
(***************************************************************************)

\* Two headings of one name are copies.
NamesInv ==
  \A k, l \in DOMAIN buffer : k # l /\ buffer[k].name = buffer[l].name => buffer[k].name \in doubled

\* The note of a heading is the one it names, or one the run under way has made.
NamedInv ==
  \A i \in Live : \A k \in DOMAIN buffer :
    notes[i].from = buffer[k].name /\ notes[i].from \notin doubled
    => i = buffer[k].id \/ i \in run.added

\* No name has two notes that were there before the run.
OldInv ==
  \A i, j \in Live :
    notes[i].from = notes[j].from /\ notes[i].from \notin doubled
    => i = j \/ i \in run.added \/ j \in run.added

\* What the run has made has a result, or is the replacement in hand.
AddedInv ==
  \A i \in run.added : i \in ResultIds \/ (run.kind = "migrate" /\ Deleting /\ i = run.fresh)

\* A heading has one result, and then the note it names on disk is not its note any more.
OnceInv ==
  /\ \A j \in DOMAIN run.todo : run.todo[j].n = run.todo[1].n + j - 1
  /\ \A r \in run.results :
       /\ run.todo # <<>> => r.n < E.n
       /\ disk[r.n].id \in Live => disk[r.n].name \in doubled
       /\ \A q \in run.results : q.n = r.n => q = r

GivenUp == run.stage = "add" /\ E.id \in Live => E.name \in doubled

TwinInv ==
  /\ NamesInv /\ NamedInv /\ OldInv
  /\ IF Idling THEN run.added = {} ELSE AddedInv /\ OnceInv /\ GivenUp
=============================================================================
