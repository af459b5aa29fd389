----------------------------- MODULE AnkiPlanner -----------------------------
(***************************************************************************)
(* imoogi-anki, the process that carries a scan of Org headings into an    *)
(* Anki collection (src/internal/anki/planner, registry, hashing).  A run  *)
(* loads the registry, decides per entry to add, adopt, update or leave a  *)
(* note, deletes confirmed orphans, saves the registry and answers.  Each  *)
(* request to AnkiConnect is a step: it may be done, refused, or done with *)
(* its answer lost, and the process may be killed between two of them.     *)
(***************************************************************************)
EXTENDS Naturals, Sequences, FiniteSets

CONSTANTS
    MaxNotes,   \* bound: notes the collection ever holds
    Texts,      \* contents of a heading: its fields and its tags
    Invalid,    \* contents whose card options or markup are rejected
    Decks,
    Faults      \* what may become of a request: "failed", "lost"

ASSUME PlannerAssumption ==
    /\ MaxNotes \in Nat /\ Invalid \subseteq Texts /\ Texts \cap {"user", "late"} = {}
    /\ Faults \subseteq {"failed", "lost"}

VARIABLES
    notes,      \* the collection: notes[i] is the note with identifier i
    registry,   \* the registry file: what the last saved run recorded of i
    run,        \* the process, and the request it was given
    faults      \* bound: faults and kills still to come

plannerVars == <<notes, registry, run, faults>>

Ids   == 1 .. MaxNotes
Types == {"stock", "own"}      \* Basic or Cloze, and imoogi's counterpart
NoId  == 0

NoText == "none"
NoDeck == "none"
\* A note that was never added, and one that was deleted.
Never == [type |-> "never", text |-> NoText, tags |-> NoText, link |-> FALSE,
          deck |-> NoDeck, from |-> 0]
Gone  == [Never EXCEPT !.type = "gone"]
Exists(i) == notes[i].type \in Types

\* The inputs of the content hash, which is taken to be injective.
Hash(type, text, tags, link, deck) ==
    [type |-> type, text |-> text, tags |-> tags, link |-> link, deck |-> deck]

\* *Seeded bug*: the hash is taken under the declared type.
LinklessHashDeclared(e, type) == Hash(e.type, e.text, e.text, FALSE, e.deck)

\* What migration records: the link is added after this hash is taken.
LinklessHash(e, type) == Hash(type, e.text, e.text, FALSE, e.deck)

\* *Seeded bug*: the deck is no part of the hash.
DecklessHash(e, type) == Hash(type, e.text, e.text, e.link, NoDeck)

EntryHash(e, type) == Hash(type, e.text, e.text, e.link, e.deck)

Unregistered == [type |-> "none", path |-> "in", deck |-> NoDeck,
                 hash |-> Hash("none", NoText, NoText, FALSE, NoDeck)]
Entry(type, path, deck, hash) ==
    [type |-> type, path |-> path, deck |-> deck, hash |-> hash]
Registered(reg) == {i \in Ids : reg[i].type # "none"}

Idle == [stage |-> "idle", kind |-> "sync", sent |-> <<>>, todo |-> <<>>,
         census |-> {}, complete |-> FALSE, reg |-> [i \in Ids |-> Unregistered],
         pre |-> {}, fresh |-> NoId, adopt |-> FALSE, doomed |-> {},
         results |-> {}, added |-> {}, clean |-> TRUE]

Fresh == CHOOSE i \in Ids : /\ notes[i].type = "never"
                            /\ \A j \in Ids : notes[j].type = "never" => i <= j
FreeIds == Cardinality({i \in Ids : notes[i].type = "never"})

PlannerInit ==
    /\ notes = [i \in Ids |-> Never]
    /\ registry = [i \in Ids |-> Unregistered]
    /\ run = Idle

\* Request: the scan's entries, the identifiers its census saw (with the place
\* of the first occurrence, "in" or "out" of the exclusions), and whether the
\* scan read every file.  Loading the registry is part of the step.
StartRun(kind, entries, census, complete) ==
    run' = [Idle EXCEPT !.stage = "entry", !.kind = kind, !.sent = entries,
                        !.todo = entries, !.census = census, !.complete = complete,
                        !.reg = registry, !.pre = Registered(registry)]

-----------------------------------------------------------------------------
(* Requests                                                                *)

Effect(o) == o \in {"ok", "lost"}
Outcome(o) == \/ o = "ok" /\ UNCHANGED faults
              \/ o \in Faults /\ faults > 0 /\ faults' = faults - 1
Outcomes == {"ok"} \cup Faults
\* A run is clean while every request it issued was answered.
Clean(o) == run.clean /\ o = "ok"

\* The next entry, and the run once it is dealt with.
E == Head(run.todo)
Next_(r) == [r EXCEPT !.stage = "entry", !.todo = Tail(run.todo), !.adopt = FALSE,
                      !.fresh = NoId]

\* *Seeded bug*: the hash is taken before the link is appended.
PutLinkless(i, path, deck, hash) ==
    [run.reg EXCEPT ![i] = Entry(hash.type, path, deck, [hash EXCEPT !.link = FALSE])]

Put(i, path, deck, hash) ==
    [run.reg EXCEPT ![i] = Entry(hash.type, path, deck, hash)]

New(e, type) == [type |-> type, text |-> e.text, tags |-> e.text, link |-> e.link,
                 deck |-> e.deck, from |-> e.name]

-----------------------------------------------------------------------------
(* Entries: processEntry                                                   *)

Claimed(i) == Cardinality({k \in DOMAIN run.sent : run.sent[k].id = i}) > 1

\* *Seeded bug*: two headings with one identifier are dispatched.
DecisionUnclaimed(e) ==
    IF e.text \in Invalid THEN "skip"
    ELSE IF e.id = NoId THEN "add"
    ELSE IF run.reg[e.id].type = "none" THEN "query"
    ELSE IF run.reg[e.id].type # e.type \/ run.reg[e.id].hash = EntryHash(e, e.type)
         THEN "skip"
    ELSE "update"

\* *Seeded bug*: an identifier the registry does not hold is not looked up.
DecisionUnreconciled(e) ==
    IF (e.id # NoId /\ Claimed(e.id)) \/ e.text \in Invalid THEN "skip"
    ELSE IF e.id = NoId \/ run.reg[e.id].type = "none" THEN "add"
    ELSE IF run.reg[e.id].type # e.type \/ run.reg[e.id].hash = EntryHash(e, e.type)
         THEN "skip"
    ELSE "update"

\* A duplicated, rejected, type-changed or unchanged entry is skipped.
Decision(e) ==
    IF (e.id # NoId /\ Claimed(e.id)) \/ e.text \in Invalid THEN "skip"
    ELSE IF e.id = NoId THEN "add"
    ELSE IF run.reg[e.id].type = "none" THEN "query"
    ELSE IF run.reg[e.id].type # e.type \/ run.reg[e.id].hash = EntryHash(e, e.type)
         THEN "skip"
    ELSE "update"

\* The registry records a stock type for the entry's identifier.
Migrates(e) == e.id # NoId /\ run.reg[e.id].type = "stock"

AtEntry(kind) == run.stage = "entry" /\ run.kind = kind /\ run.todo # <<>>

\* No request.
SkipEntry ==
    /\ AtEntry("sync") /\ Decision(E) = "skip"
    /\ run' = Next_(run)
    /\ UNCHANGED <<notes, registry, faults>>

\* Something the note needs is refused: its field names, a media upload, its
\* deck.  Nothing of the entry has been written yet.
RefuseEntry ==
    /\ \/ AtEntry("sync") /\ Decision(E) # "skip"
       \/ AtEntry("migrate") /\ Migrates(E)
    /\ faults > 0 /\ faults' = faults - 1
    /\ run' = [Next_(run) EXCEPT !.clean = FALSE]
    /\ UNCHANGED <<notes, registry>>

AddNote(o) ==
    /\ \/ AtEntry("sync") /\ Decision(E) = "add"
       \/ run.stage = "add"
    /\ Outcome(o)
    /\ notes' = IF Effect(o) THEN [notes EXCEPT ![Fresh] = New(E, E.type)] ELSE notes
    /\ run' = IF o = "ok"
              THEN [Next_(run) EXCEPT
                      !.reg = Put(Fresh, "in", E.deck, EntryHash(E, E.type)),
                      !.results = run.results \cup {[n |-> E.n, id |-> Fresh]},
                      !.added = run.added \cup {Fresh}]
              ELSE [Next_(run) EXCEPT !.clean = FALSE]
    /\ UNCHANGED registry

Adoptable(e) == Exists(e.id) /\ notes[e.id].type = e.type

\* reconcile: an identifier the registry does not hold is looked up.  An
\* existing note of the entry's type is adopted; otherwise, or when the lookup
\* fails, a new note is added.
QueryNote(o) ==
    /\ AtEntry("sync") /\ Decision(E) = "query"
    /\ Outcome(o)
    /\ run' = IF o = "ok" /\ Adoptable(E)
              THEN [run EXCEPT !.stage = "update", !.adopt = TRUE]
              ELSE [run EXCEPT !.stage = "add", !.clean = Clean(o)]
    /\ UNCHANGED <<notes, registry>>

\* A request that addresses a note which is no more is refused.
UpdateFields(o) ==
    /\ \/ AtEntry("sync") /\ Decision(E) = "update"
       \/ run.stage = "update"
    /\ Outcome(o)
    /\ notes' = IF Effect(o) /\ Exists(E.id)
                THEN [notes EXCEPT ![E.id].text = E.text, ![E.id].link = E.link]
                ELSE notes
    /\ run' = IF o = "ok" /\ Exists(E.id)
              THEN [run EXCEPT !.stage = "tags"]
              ELSE [Next_(run) EXCEPT !.clean = FALSE]
    /\ UNCHANGED registry

\* The entry is recorded once its fields and tags are written, and its deck
\* is tried.
Updated(deck, clean) ==
    [Next_(run) EXCEPT
        !.reg = Put(E.id, IF run.adopt THEN "in" ELSE run.reg[E.id].path, deck,
                    EntryHash(E, E.type)),
        !.clean = run.clean /\ clean]

UpdateTags(o) ==
    /\ run.stage = "tags"
    /\ Outcome(o)
    /\ notes' = IF Effect(o) /\ Exists(E.id)
                THEN [notes EXCEPT ![E.id].tags = E.text] ELSE notes
    /\ run' = IF o # "ok" \/ ~Exists(E.id) THEN [Next_(run) EXCEPT !.clean = FALSE]
              ELSE IF run.adopt \/ run.reg[E.id].deck # E.deck
              THEN [run EXCEPT !.stage = "move"]
              ELSE Updated(E.deck, TRUE)
    /\ UNCHANGED registry

Moved(i, deck) == IF Exists(i) THEN [notes EXCEPT ![i].deck = deck] ELSE notes

\* An adopted note's new deck is recorded whether or not the move was done;
\* an updated note's only when it was.
MoveDeck(o) ==
    /\ run.stage = "move"
    /\ Outcome(o)
    /\ notes' = IF Effect(o) THEN Moved(E.id, E.deck) ELSE notes
    /\ run' = Updated(IF o = "ok" \/ run.adopt THEN E.deck ELSE run.reg[E.id].deck,
                      o = "ok")
    /\ UNCHANGED registry

-----------------------------------------------------------------------------
(* Orphans: reconcileSourcePaths, computeCandidates, confirmAndDelete      *)

SeenAt(i) == {c.path : c \in {d \in run.census : d.id = i}}
Refreshed == [i \in Ids |->
    IF i \in Registered(run.reg) /\ SeenAt(i) # {}
    THEN [run.reg[i] EXCEPT !.path = CHOOSE p \in SeenAt(i) : TRUE]
    ELSE run.reg[i]]

\* Registered before the run, named by no heading the census saw, and last
\* seen at a place that is not excluded.
Candidates(reg) ==
    {i \in Registered(reg) \cap run.pre : SeenAt(i) = {} /\ reg[i].path = "in"}

Reconcile ==
    /\ run.stage = "entry" /\ run.kind = "sync" /\ run.todo = <<>>
    /\ LET reg == Refreshed
           cs  == IF run.complete THEN Candidates(reg) ELSE {}
       IN run' = [run EXCEPT !.reg = reg, !.doomed = cs,
                             !.stage = IF cs = {} THEN "save" ELSE "confirm"]
    /\ UNCHANGED <<notes, registry, faults>>

\* *Seeded bug*: a candidate's content is not compared with the record.
OwnedByType(i) == Exists(i) /\ notes[i].type = run.reg[i].type

\* *Seeded bug*: the link is not counted in when the content is compared.
OwnedLinkless(i) ==
    LET m == notes[i] IN
    /\ Exists(i) /\ m.type = run.reg[i].type
    /\ Hash(m.type, m.text, m.tags, FALSE, run.reg[i].deck) = run.reg[i].hash

\* The note's type and content are what the registry recorded (the record's
\* own deck stands in for the note's).
Owned(i) ==
    LET m == notes[i] IN
    /\ Exists(i) /\ m.type = run.reg[i].type
    /\ Hash(m.type, m.text, m.tags, m.link, run.reg[i].deck) = run.reg[i].hash

\* *Seeded bug*: the registry keeps the entries of deleted notes.
RemovedNone(removed) == run.reg

\* The registry without the entries of deleted notes.
Removed(removed) == [i \in Ids |-> IF i \in removed THEN Unregistered ELSE run.reg[i]]

\* The run once the notes `removed' are known to be deleted.  A migrated
\* entry's record is replaced whatever became of the original.
AfterDelete(removed, clean) ==
    LET reg == Removed(removed) IN
    IF run.kind = "sync"
    THEN [run EXCEPT !.stage = "save", !.doomed = {}, !.reg = reg, !.clean = clean]
    ELSE [Next_(run) EXCEPT
            !.doomed = {}, !.clean = clean,
            !.reg = [reg EXCEPT
                ![E.id] = Unregistered,
                ![run.fresh] = Entry("own", "in", E.deck, LinklessHash(E, "own"))],
            !.results = run.results \cup {[n |-> E.n, id |-> run.fresh]}]

Confirm(o) ==
    /\ run.stage = "confirm"
    /\ Outcome(o)
    /\ LET confirmed == {i \in run.doomed : Owned(i)} IN
       run' = IF o = "ok" /\ confirmed # {}
              THEN [run EXCEPT !.stage = "delete", !.doomed = confirmed]
              ELSE AfterDelete({}, Clean(o))
    /\ UNCHANGED <<notes, registry>>

DeleteNotes(o) ==
    /\ run.stage = "delete"
    /\ Outcome(o)
    /\ notes' = IF Effect(o)
                THEN [i \in Ids |-> IF i \in run.doomed /\ Exists(i) THEN Gone
                                    ELSE notes[i]]
                ELSE notes
    /\ run' = AfterDelete(IF o = "ok" THEN run.doomed ELSE {}, Clean(o))
    /\ UNCHANGED registry

-----------------------------------------------------------------------------
(* Migration: Migrate, migrateOne                                          *)

SkipMigration ==
    /\ AtEntry("migrate") /\ (~Migrates(E) \/ E.text \in Invalid)
    /\ run' = Next_(run)
    /\ UNCHANGED <<notes, registry, faults>>

\* The replacement is added under imoogi's type; the link is not added here.
MigrateAdd(o) ==
    /\ AtEntry("migrate") /\ Migrates(E) /\ E.text \notin Invalid
    /\ Outcome(o)
    /\ notes' = IF Effect(o)
                THEN [notes EXCEPT ![Fresh] = New([E EXCEPT !.link = FALSE], "own")]
                ELSE notes
    /\ run' = IF o = "ok"
              THEN [run EXCEPT !.stage = "confirm", !.fresh = Fresh, !.doomed = {E.id},
                               !.added = run.added \cup {Fresh}]
              ELSE [Next_(run) EXCEPT !.clean = FALSE]
    /\ UNCHANGED registry

MigrationDone ==
    /\ run.stage = "entry" /\ run.kind = "migrate" /\ run.todo = <<>>
    /\ run' = [run EXCEPT !.stage = "save"]
    /\ UNCHANGED <<notes, registry, faults>>

-----------------------------------------------------------------------------
(* The end of a run: runOverSyncRequest                                    *)

\* The registry file is replaced atomically; a run whose save fails answers
\* all the same.
Save(o) ==
    /\ run.stage = "save" /\ o # "lost"
    /\ Outcome(o)
    /\ registry' = IF o = "ok" THEN run.reg ELSE registry
    /\ run' = [run EXCEPT !.stage = "reply", !.clean = Clean(o)]
    /\ UNCHANGED notes

PlannerStep ==
    \/ SkipEntry
    \/ RefuseEntry
    \/ \E o \in Outcomes : AddNote(o)
    \/ \E o \in Outcomes : QueryNote(o)
    \/ \E o \in Outcomes : UpdateFields(o)
    \/ \E o \in Outcomes : UpdateTags(o)
    \/ \E o \in Outcomes : MoveDeck(o)
    \/ Reconcile
    \/ \E o \in Outcomes : Confirm(o)
    \/ \E o \in Outcomes : DeleteNotes(o)
    \/ SkipMigration
    \/ \E o \in Outcomes : MigrateAdd(o)
    \/ MigrationDone
    \/ \E o \in Outcomes : Save(o)
=============================================================================
