----------------------------- MODULE AnkiProofs -----------------------------
(***************************************************************************)
(* Proofs about the Anki synchronisation, for any number of headings,      *)
(* notes, commands and faults: the identifier of a heading names the note  *)
(* that was made of it; a run deletes nothing but confirmed orphans; and   *)
(* after a whole clean sync the notes mirror the headings, no orphan is    *)
(* left, and another sync writes nothing.                                  *)
(***************************************************************************)
EXTENDS AnkiInvariants, FiniteSetTheorems, WellFoundedInduction, TLAPS

-----------------------------------------------------------------------------
(* Identifiers *)

Unused == {i \in Ids : notes[i].type = "never"}

LEMMA UnusedFinite == IsFiniteSet(Unused) /\ FreeIds = Cardinality(Unused) /\ FreeIds \in Nat
<1>1. IsFiniteSet(Ids)
  BY FS_Interval, PlannerAssumption DEF Ids
<1>2. Unused \in SUBSET Ids
  BY DEF Unused
<1>3. IsFiniteSet(Unused)
  BY <1>1, <1>2, FS_Subset
<1> QED
  BY <1>3, FS_CardinalityType DEF Unused, FreeIds

\* As long as there is room, the next identifier is one that was never used.
LEMMA FreshUnused ==
  ASSUME FreeIds >= 1
  PROVE  Fresh \in Ids /\ notes[Fresh].type = "never"
<1> DEFINE Below(i) == {j \in Unused : j < i}
           Belows == {Below(i) : i \in Unused}
<1>1. Unused # {} /\ Unused \subseteq Ids /\ Ids \subseteq Nat
  BY UnusedFinite, FS_EmptySet, PlannerAssumption DEF Unused, Ids
<1>2. Belows # {} /\ Belows \subseteq FiniteSubsetsOf(Ids)
  <2>1. IsFiniteSet(Ids)
    BY FS_Interval, PlannerAssumption DEF Ids
  <2>2. FiniteSubsetsOf(Ids) = SUBSET Ids
    BY <2>1, FS_FiniteSubsetsOfFinite
  <2>3. \A i \in Unused : Below(i) \in SUBSET Ids
    BY <1>1
  <2>4. Belows # {} /\ Belows \subseteq SUBSET Ids
    BY <1>1, <2>3
  <2> QED
    BY <2>2, <2>4, Zenon
<1>3. \E B \in Belows : \A C \in Belows : ~(<<C, B>> \in StrictSubsetOrdering(Ids))
  BY <1>2, WFMin, FS_StrictSubsetOrderingWellFounded
<1>4. PICK x \in Unused : \A y \in Unused : x <= y
  <2>1. PICK x \in Unused :
               \A y \in Unused : ~(<<Below(y), Below(x)>> \in StrictSubsetOrdering(Ids))
    BY <1>3
  <2>2. ASSUME NEW y \in Unused, y < x PROVE FALSE
    <3> x \in Nat /\ y \in Nat /\ Unused \subseteq Nat
      BY <1>1
    <3>1. Below(y) \subseteq Below(x) /\ y \in Below(x) /\ y \notin Below(y)
      <4>1. y \in Below(x)
        BY <2>2
      <4>2. y \notin Below(y)
        OBVIOUS
      <4>3. ASSUME NEW j \in Below(y) PROVE j \in Below(x)
        <5>1. j \in Nat /\ j < y
          BY <4>3
        <5>2. j < x
          BY <2>2, <5>1
        <5> QED
          BY <4>3, <5>2
      <4> QED
        BY <4>1, <4>2, <4>3
    <3>2. Below(y) \in SUBSET Ids /\ Below(x) \in SUBSET Ids
      BY <1>1
    <3> QED
      BY <2>1, <3>1, <3>2 DEF StrictSubsetOrdering
  <2>3. Unused \subseteq Nat
    BY <1>1
  <2> QED
    BY <2>2, <2>3
<1>5. \E i \in Ids : /\ notes[i].type = "never"
                     /\ \A j \in Ids : notes[j].type = "never" => i <= j
  BY <1>4 DEF Unused
<1> QED
  BY <1>5 DEF Fresh

\* A name for a new heading.
LEMMA FreshNamed ==
  ASSUME Used \ {0} \subseteq 1 .. MaxNames, Cardinality(Used \ {0}) < MaxNames
  PROVE  FreshName \in 1 .. MaxNames /\ FreshName \notin Used
<1>1. IsFiniteSet(1 .. MaxNames) /\ Cardinality(1 .. MaxNames) = MaxNames
  BY FS_Interval, SyncAssumption
<1>2. ASSUME 1 .. MaxNames \subseteq Used PROVE FALSE
  <2>1. Used \ {0} = 1 .. MaxNames
    BY <1>2, SyncAssumption
  <2>2. Cardinality(Used \ {0}) = Cardinality(1 .. MaxNames)
    BY <2>1, Zenon
  <2> QED
    BY <1>1, <2>2, SyncAssumption
<1> QED
  BY <1>2 DEF FreshName
\* Adding one note takes one identifier; nothing gives one back.
LEMMA OneFewer ==
  ASSUME NEW i \in Ids, notes[i].type = "never", notes'[i].type # "never",
         \A j \in Ids : j # i => (notes'[j].type = "never" <=> notes[j].type = "never")
  PROVE  FreeIds' = FreeIds - 1
<1>1. Unused' = Unused \ {i} /\ i \in Unused
  BY DEF Unused, Ids
<1>2. IsFiniteSet(Unused) /\ FreeIds = Cardinality(Unused) /\ FreeIds' = Cardinality(Unused')
  BY UnusedFinite DEF FreeIds, Unused, Ids
<1> QED
  BY <1>1, <1>2, FS_RemoveElement

LEMMA AsMany ==
  ASSUME \A j \in Ids : notes'[j].type = "never" <=> notes[j].type = "never"
  PROVE  FreeIds' = FreeIds
<1>1. Unused' = Unused
  BY DEF Unused, Ids
<1> QED
  BY <1>1 DEF FreeIds, Unused

-----------------------------------------------------------------------------
(* What no step does to a note: give it back, or give it to another heading *)

NotesStep ==
  /\ notes' \in [Ids -> Cards]
  /\ \A i \in Ids : notes[i].type # "never" =>
        /\ notes'[i].type # "never"
        /\ notes'[i].type \in Types => notes[i].type \in Types /\ notes'[i].from = notes[i].from
  /\ \A i \in Ids : notes'[i].type \notin Types => notes'[i].from = 0

LEMMA NamesStay ==
  ASSUME NotesStep, NEW i, NEW name, MadeOf(i, name)
  PROVE  MadeOf(i, name)'
BY DEF NotesStep, MadeOf, Exists

LEMMA HeadingsStay ==
  ASSUME NotesStep, UNCHANGED <<disk, buffer>>, HeadingsInv(disk), HeadingsInv(buffer)
  PROVE  HeadingsInv(disk)' /\ HeadingsInv(buffer)' /\ GoneInv'
<1>1. HeadingsInv(disk)'
  <2>1. ASSUME NEW k \in DOMAIN disk, disk[k].id # NoId
        PROVE  MadeOf(disk[k].id, disk[k].name)'
    <3>1. MadeOf(disk[k].id, disk[k].name)
      BY <2>1 DEF HeadingsInv
    <3> QED
      BY <3>1 DEF NotesStep, MadeOf, Exists
  <2> QED
    BY <2>1 DEF HeadingsInv
<1>2. HeadingsInv(buffer)'
  <2>1. ASSUME NEW k \in DOMAIN buffer, buffer[k].id # NoId
        PROVE  MadeOf(buffer[k].id, buffer[k].name)'
    <3>1. MadeOf(buffer[k].id, buffer[k].name)
      BY <2>1 DEF HeadingsInv
    <3> QED
      BY <3>1 DEF NotesStep, MadeOf, Exists
  <2> QED
    BY <2>1 DEF HeadingsInv
<1>3. GoneInv'
  BY DEF NotesStep, GoneInv, Exists
<1> QED
  BY <1>1, <1>2, <1>3

\* Facts about a run under way: the entry in hand is a heading of the file.
LEMMA EntryFacts ==
  ASSUME SyncInv, ~Idling, run.todo # <<>>
  PROVE  /\ E \in Entries /\ Tail(run.todo) \in Seq(Entries)
         /\ E.n \in DOMAIN disk /\ E = Sent(disk)[E.n]
         /\ E.name = disk[E.n].name /\ E.id = disk[E.n].id
         /\ Len(Tail(run.todo)) = Len(run.todo) - 1 /\ Len(run.todo) \in Nat \ {0}
         /\ \A j \in DOMAIN Tail(run.todo) :
              /\ Tail(run.todo)[j].n \in DOMAIN disk
              /\ Tail(run.todo)[j] = Sent(disk)[Tail(run.todo)[j].n]
<1> DEFINE todo == run.todo
<1>1. todo \in Seq(Entries) /\ todo # <<>>
  BY DEF SyncInv, SyncTypes, Runs
<1>2. \A j \in DOMAIN todo : todo[j].n \in DOMAIN disk /\ todo[j] = Sent(disk)[todo[j].n]
  BY DEF SyncInv, RunInv, TodoInv
<1> HIDE DEF todo
<1>3. /\ Head(todo) \in Entries /\ Tail(todo) \in Seq(Entries)
      /\ Len(Tail(todo)) = Len(todo) - 1 /\ Len(todo) \in Nat \ {0}
  BY <1>1
<1>4. 1 \in DOMAIN todo /\ Head(todo) = todo[1]
  BY <1>1, <1>3
<1>5. \A j \in DOMAIN Tail(todo) : j + 1 \in DOMAIN todo /\ Tail(todo)[j] = todo[j + 1]
  BY <1>1, <1>3
<1>6. Head(todo).n \in DOMAIN disk /\ Head(todo) = Sent(disk)[Head(todo).n]
  BY <1>2, <1>4
<1>7. /\ Head(todo).name = disk[Head(todo).n].name
      /\ Head(todo).id = disk[Head(todo).n].id
  BY <1>6 DEF Sent
<1>8. \A j \in DOMAIN Tail(todo) :
        /\ Tail(todo)[j].n \in DOMAIN disk
        /\ Tail(todo)[j] = Sent(disk)[Tail(todo)[j].n]
  BY <1>2, <1>5
<1> QED
  BY <1>3, <1>6, <1>7, <1>8 DEF todo, E
-----------------------------------------------------------------------------
(* The steps of the process                                                *)

\* What a step of the process that leaves the files alone has to show.
Goal == SyncTypes' /\ NotesStep /\ ~Idling' /\ RunInv'

\* The setting: a run is under way, and nobody but it moves.
Running ==
  /\ SyncInv /\ ~Idling
  /\ UNCHANGED <<files, edits, settled>> /\ doubled' = doubled \cup Twice

LEMMA GoalSuffices ==
  ASSUME Running, Goal
  PROVE  SyncInv'
<1>1. HeadingsInv(disk)' /\ HeadingsInv(buffer)' /\ GoneInv'
  BY HeadingsStay DEF Running, Goal, SyncInv, files
<1> QED
  BY <1>1 DEF Running, Goal, SyncInv

LEMMA SameNotes ==
  ASSUME SyncInv, UNCHANGED notes
  PROVE  NotesStep /\ FreeIds' = FreeIds
<1>1. NotesStep
  BY DEF SyncInv, SyncTypes, NotesStep, GoneInv, Exists
<1>2. FreeIds' = FreeIds
  BY AsMany
<1> QED
  BY <1>1, <1>2

LEMMA ResultsStay ==
  ASSUME Running, NotesStep
  PROVE  \A r \in run.results : r.n \in DOMAIN disk /\ MadeOf(r.id, disk[r.n].name)'
<1> SUFFICES ASSUME NEW r \in run.results
             PROVE  r.n \in DOMAIN disk /\ MadeOf(r.id, disk[r.n].name)'
  OBVIOUS
<1>1. r.n \in DOMAIN disk /\ MadeOf(r.id, disk[r.n].name)
  BY DEF Running, SyncInv, RunInv, ResultsInv
<1> QED
  BY <1>1 DEF NotesStep, MadeOf, Exists, Running, files

\* The history of loose notes stays a set of notes, and only a request of the
\* sync that updates a note takes one out.
LEMMA LooseFacts ==
  ASSUME SyncTypes, loose' = (loose \cup Loosened) \ Recorded
  PROVE  /\ loose' \in SUBSET Ids
         /\ run.stage \notin {"tags", "move"} => loose \subseteq loose'
<1>1. Loosened \subseteq Ids
  BY DEF Loosened, Unanswered, Abandoned, SyncTypes, Runs, Live, Unsaved, Ids
<1>2. run.stage \notin {"tags", "move"} => Recorded = {}
  BY DEF Recorded
<1> QED
  BY <1>1, <1>2 DEF SyncTypes

LEMMA TypesStay ==
  ASSUME Running, notes' \in [Ids -> Cards], registry' \in [Ids -> Records], run' \in Runs,
         faults' \in Nat, loose' \in SUBSET Ids
  PROVE  SyncTypes'
<1>1. /\ disk \in Seq(Headings) /\ buffer \in Seq(Headings) /\ archive \in SUBSET Ids
      /\ edits \in Nat /\ settled \in BOOLEAN /\ doubled \in SUBSET (0 .. MaxNames)
  BY DEF Running, SyncInv, SyncTypes
<1>2. disk' = disk /\ buffer' = buffer /\ archive' = archive /\ edits' = edits
      /\ settled' = settled /\ doubled' = doubled \cup Twice
  BY DEF Running, files
<1>3. settled' \in BOOLEAN
  BY <1>1, <1>2
<1>4. doubled' \in SUBSET (0 .. MaxNames)
  <2>1. SUFFICES ASSUME run.todo # <<>> PROVE E.name \in 0 .. MaxNames
    BY <1>1, <1>2 DEF Twice
  <2>2. E \in Entries
    BY <2>1 DEF Running, SyncInv, SyncTypes, Runs, E
  <2> QED
    BY <2>2, SyncAssumption DEF Entries
<1> QED
  BY <1>1, <1>2, <1>3, <1>4 DEF SyncTypes, Ids, Cards, Records, Runs, Entries, Headings, Hashes,
       Words, Places, Types

\* What a step need not think about as long as it takes up the entries in order.
LEMMA FrameStays ==
  ASSUME Running, NotesStep, run'.kind = run.kind, run'.complete = run.complete,
         run'.census = run.census,
         run'.todo = run.todo \/ (run.todo # <<>> /\ run'.todo = Tail(run.todo))
  PROVE  /\ TodoInv' /\ CensusInv' /\ (Names(buffer) = Names(disk))'
         /\ run'.results = run.results => ResultsInv'
<1>1. disk' = disk /\ buffer' = buffer /\ archive' = archive /\ SyncInv /\ RunInv /\ ~Idling
  BY DEF Running, files, SyncInv
<1>2. TodoInv'
  <2>1. CASE run'.todo = run.todo
    BY <1>1, <2>1 DEF RunInv, TodoInv, Sent, Links
  <2>2. CASE run.todo # <<>> /\ run'.todo = Tail(run.todo)
    <3>1. \A j \in DOMAIN run'.todo : /\ run'.todo[j].n \in DOMAIN disk
                                      /\ run'.todo[j] = Sent(disk)[run'.todo[j].n]
      BY <1>1, <2>2, EntryFacts
    <3> QED
      BY <1>1, <3>1 DEF TodoInv, Sent, Links
  <2> QED
    BY <2>1, <2>2
<1>3. CensusInv'
  BY <1>1 DEF RunInv, CensusInv, Census, Named
<1>4. (Names(buffer) = Names(disk))'
  BY <1>1 DEF RunInv, Names
<1>5. ASSUME run'.results = run.results PROVE ResultsInv'
  BY <1>1, <1>5, ResultsStay DEF ResultsInv
<1> QED
  BY <1>2, <1>3, <1>4, <1>5

\* Fields of a run that is through with its entry.
LEMMA NextFields ==
  ASSUME Running, run.todo # <<>>
  PROVE  /\ Next_(run) \in Runs
         /\ Next_(run).stage = "entry" /\ Next_(run).todo = Tail(run.todo)
         /\ Next_(run).kind = run.kind /\ Next_(run).sent = run.sent
         /\ Next_(run).census = run.census /\ Next_(run).complete = run.complete
         /\ Next_(run).reg = run.reg /\ Next_(run).pre = run.pre
         /\ Next_(run).fresh = NoId /\ Next_(run).adopt = FALSE
         /\ Next_(run).doomed = run.doomed /\ Next_(run).results = run.results
         /\ Next_(run).added = run.added /\ Next_(run).clean = run.clean
<1>1. run \in Runs /\ SyncInv /\ ~Idling
  BY DEF Running, SyncInv, SyncTypes
<1>2. Tail(run.todo) \in Seq(Entries)
  BY <1>1, EntryFacts
<1>3. NoId \in 0 .. MaxNotes
  BY PlannerAssumption DEF NoId
<1>4. Next_(run) \in Runs
  BY <1>1, <1>2, <1>3 DEF Next_, Runs
<1> QED
  BY <1>1, <1>4 DEF Next_, Runs

\* An entry that is passed over, with or without an error.
LEMMA DropEntry ==
  ASSUME Running, run.todo # <<>>, run.stage = "entry", UNCHANGED <<notes, registry>>,
         faults' \in Nat, loose' \in SUBSET Ids,
         run' = Next_(run) \/ run' = [Next_(run) EXCEPT !.clean = FALSE]
  PROVE  Goal
<1>1. run \in Runs /\ SyncInv /\ ~Idling /\ RunInv
  BY DEF Running, SyncInv, SyncTypes
<1>2. /\ run' \in Runs
      /\ run'.stage = "entry" /\ run'.todo = Tail(run.todo) /\ run'.results = run.results
      /\ run'.kind = run.kind /\ run'.complete = run.complete /\ run'.census = run.census
  BY NextFields DEF Runs
<1>3. NotesStep /\ FreeIds' = FreeIds /\ FreeIds \in Nat
  BY <1>1, SameNotes, UnusedFinite
<1>4. SyncTypes'
  BY <1>1, <1>2, <1>3, TypesStay DEF NotesStep, SyncInv, SyncTypes
<1>5. RoomInv'
  <2>1. Len(run.todo) <= FreeIds
    BY <1>1, <1>3 DEF RunInv, RoomInv, Deleting
  <2>2. Len(Tail(run.todo)) = Len(run.todo) - 1 /\ Len(run.todo) \in Nat
    BY <1>1, EntryFacts
  <2>3. Len(run'.todo) <= FreeIds'
    BY <1>2, <1>3, <2>1, <2>2
  <2> QED
    BY <1>2, <1>3, <2>3 DEF RoomInv, Deleting
<1>6. DoomedInv' /\ StageInv'
  BY <1>2 DEF DoomedInv, StageInv, Deleting
<1>7. RunInv'
  BY <1>2, <1>3, <1>5, <1>6, FrameStays DEF RunInv
<1> QED
  BY <1>2, <1>3, <1>4, <1>7 DEF Goal, Idling
LEMMA NewTyped ==
  ASSUME NEW e \in Entries, NEW type \in Types
  PROVE  /\ New(e, type) \in Cards /\ EntryHash(e, type) \in Hashes
         /\ LinklessHash(e, type) \in Hashes
         /\ EntryHash(e, type).type = type /\ LinklessHash(e, type).type = type
         /\ New(e, type).type = type /\ New(e, type).from = e.name
BY SyncAssumption DEF Entries, New, Cards, EntryHash, LinklessHash, Hash, Hashes, Words, Places

LEMMA PutTyped ==
  ASSUME run.reg \in [Ids -> Records], NEW i \in Ids, NEW path \in {"in", "out"},
         NEW deck \in Places, NEW hash \in Hashes
  PROVE  /\ Put(i, path, deck, hash) \in [Ids -> Records]
         /\ Put(i, path, deck, hash)[i] = Entry(hash.type, path, deck, hash)
         /\ \A j \in Ids : j # i => Put(i, path, deck, hash)[j] = run.reg[j]
<1>1. Entry(hash.type, path, deck, hash) \in Records
  BY DEF Entry, Records, Hashes
<1> QED
  BY <1>1 DEF Put

\* A note is added under an identifier that was never used.
LEMMA AddedStep ==
  ASSUME SyncInv, FreeIds >= 1, NEW c \in Cards, c.type \in Types,
         notes' = [notes EXCEPT ![Fresh] = c]
  PROVE  /\ NotesStep /\ FreeIds' = FreeIds - 1
         /\ Fresh \in Ids /\ notes[Fresh].type = "never" /\ notes'[Fresh] = c
         /\ \A i \in Ids : i # Fresh => notes'[i] = notes[i]
<1>1. Fresh \in Ids /\ notes[Fresh].type = "never"
  BY FreshUnused
<1>2. notes \in [Ids -> Cards] /\ GoneInv
  BY DEF SyncInv, SyncTypes
<1> DEFINE f == Fresh
<1>3. f \in Ids /\ notes[f].type = "never" /\ notes' = [notes EXCEPT ![f] = c]
  BY <1>1
<1> HIDE DEF f
<1>4. notes' \in [Ids -> Cards] /\ notes'[f] = c /\ \A i \in Ids : i # f => notes'[i] = notes[i]
  BY <1>2, <1>3
<1>5. NotesStep
  BY <1>2, <1>3, <1>4 DEF NotesStep, GoneInv, Exists, Types
<1>6. FreeIds' = FreeIds - 1
  BY <1>3, <1>4, OneFewer DEF Types
<1> QED
  BY <1>3, <1>4, <1>5, <1>6 DEF f

\* What the history of a step says, whatever the step.
Stepping == Running /\ loose' = (loose \cup Loosened) \ Recorded

LEMMA SteppingFacts ==
  ASSUME Stepping
  PROVE  /\ loose' \in SUBSET Ids
         /\ run.stage \notin {"tags", "move"} => loose \subseteq loose'
         /\ run \in Runs /\ SyncInv /\ ~Idling /\ RunInv /\ FreeIds \in Nat
         /\ faults \in Nat /\ registry \in [Ids -> Records] /\ notes \in [Ids -> Cards]
<1>1. SyncInv /\ ~Idling /\ SyncTypes
  BY DEF Stepping, Running, SyncInv
<1> QED
  BY <1>1, LooseFacts, UnusedFinite DEF Stepping, SyncInv, SyncTypes

LEMMA OutcomeFacts ==
  ASSUME Stepping, NEW o \in Outcomes, Outcome(o)
  PROVE  faults' \in Nat /\ (o # "ok" => faults' # faults) /\ (o = "ok" => faults' = faults)
BY SteppingFacts, PlannerAssumption DEF Outcome, Outcomes

LEMMA AddNoteGoal ==
  ASSUME Stepping, NEW o \in Outcomes, AddNote(o)
  PROVE  Goal
<1>1. /\ run.todo # <<>> /\ run.kind = "sync" /\ run.stage \in {"entry", "add"}
      /\ run \in Runs /\ RunInv /\ SyncInv /\ ~Idling
      /\ FreeIds \in Nat /\ Running
  BY SteppingFacts DEF AddNote, AtEntry, RunInv, StageInv, Stepping
<1>2. E \in Entries /\ E.type \in Types /\ New(E, E.type) \in Cards
      /\ New(E, E.type).type \in Types /\ EntryHash(E, E.type) \in Hashes
      /\ New(E, E.type).from = E.name
  BY <1>1, EntryFacts, NewTyped DEF Entries
<1>3. Len(run.todo) <= FreeIds /\ Len(run.todo) \in Nat \ {0} /\ FreeIds >= 1
      /\ Len(Tail(run.todo)) = Len(run.todo) - 1
  <2>1. Len(run.todo) \in Nat \ {0} /\ Len(Tail(run.todo)) = Len(run.todo) - 1
    BY <1>1, EntryFacts
  <2>2. Len(run.todo) <= FreeIds
    BY <1>1 DEF RunInv, RoomInv, Deleting
  <2> QED
    BY <1>1, <2>1, <2>2
<1>4. CASE Effect(o)
  <2>1. notes' = [notes EXCEPT ![Fresh] = New(E, E.type)]
    BY <1>4 DEF AddNote
  <2>2. NotesStep /\ FreeIds' = FreeIds - 1 /\ Fresh \in Ids /\ notes'[Fresh] = New(E, E.type)
    BY <1>1, <1>2, <1>3, <2>1, AddedStep
  <2>3. /\ run' \in Runs /\ run'.stage = "entry" /\ run'.todo = Tail(run.todo)
        /\ run'.kind = run.kind /\ run'.complete = run.complete /\ run'.census = run.census
        /\ run'.results = IF o = "ok" THEN run.results \cup {[n |-> E.n, id |-> Fresh]}
                          ELSE run.results
    <3>1. CASE o = "ok"
      <4>1. run' = [Next_(run) EXCEPT
                      !.reg = Put(Fresh, "in", E.deck, EntryHash(E, E.type)),
                      !.results = run.results \cup {[n |-> E.n, id |-> Fresh]},
                      !.added = run.added \cup {Fresh}]
        BY <3>1 DEF AddNote
      <4>2. Put(Fresh, "in", E.deck, EntryHash(E, E.type)) \in [Ids -> Records]
        BY <1>1, <1>2, <2>2, PutTyped DEF Runs, Entries, Places
      <4>3. run.results \cup {[n |-> E.n, id |-> Fresh]} \in SUBSET [n : Nat \ {0}, id : Ids]
        BY <1>1, <1>2, <2>2 DEF Runs, Entries
      <4>4. run.added \cup {Fresh} \in SUBSET Ids
        BY <1>1, <2>2 DEF Runs
      <4>5. Next_(run) \in Runs
        BY <1>1, NextFields
      <4> QED
        BY <1>1, <3>1, <4>1, <4>2, <4>3, <4>4, <4>5, NextFields DEF Runs
    <3>2. CASE o # "ok"
      BY <1>1, <3>2, NextFields DEF Runs, AddNote
    <3> QED
      BY <3>1, <3>2
  <2>4. SyncTypes'
    BY <1>1, <2>2, <2>3, TypesStay, SteppingFacts, OutcomeFacts DEF NotesStep, AddNote
  <2>5. ResultsInv'
    <3>1. \A r \in run.results : r.n \in DOMAIN disk /\ MadeOf(r.id, disk[r.n].name)'
      BY <1>1, <2>2, ResultsStay
    <3>2. PICK f, n : f = Fresh /\ n = E.n
      OBVIOUS
    <3>3. n \in DOMAIN disk' /\ notes'[f].type \in Types /\ f \in Ids
          /\ notes'[f].from = disk'[n].name
      BY <1>1, <1>2, <2>2, <3>2, EntryFacts DEF Running, files
    <3>4. MadeOf(f, disk[n].name)'
      BY <3>3 DEF MadeOf, Types, Exists
    <3>5. run'.results \subseteq run.results \cup {[n |-> n, id |-> f]}
      BY <2>3, <3>2
    <3>6. disk' = disk
      BY <1>1 DEF Running, files
    <3> QED
      BY <3>1, <3>3, <3>4, <3>5, <3>6 DEF ResultsInv
  <2>6. RoomInv' /\ DoomedInv' /\ StageInv'
    BY <1>1, <1>3, <2>2, <2>3 DEF RoomInv, DoomedInv, StageInv, Deleting
  <2> QED
    BY <1>1, <2>2, <2>3, <2>4, <2>5, <2>6, FrameStays DEF RunInv, Goal, Idling
<1>5. CASE ~Effect(o)
  <2>1. UNCHANGED <<notes, registry>> /\ run' = [Next_(run) EXCEPT !.clean = FALSE]
    BY <1>5 DEF AddNote, Effect
  <2>2. /\ run' \in Runs /\ run'.stage = "entry" /\ run'.todo = Tail(run.todo)
        /\ run'.kind = run.kind /\ run'.complete = run.complete /\ run'.census = run.census
        /\ run'.results = run.results
    BY <1>1, <2>1, NextFields DEF Runs
  <2>3. NotesStep /\ FreeIds' = FreeIds
    BY <1>1, <2>1, SameNotes
  <2>4. SyncTypes'
    BY <1>1, <2>1, <2>2, <2>3, TypesStay, SteppingFacts, OutcomeFacts DEF NotesStep, AddNote
  <2>5. RoomInv' /\ DoomedInv' /\ StageInv'
    BY <1>1, <1>3, <2>2, <2>3 DEF RoomInv, DoomedInv, StageInv, Deleting
  <2> QED
    BY <1>1, <2>2, <2>3, <2>4, <2>5, FrameStays DEF RunInv, Goal, Idling
<1> QED
  BY <1>4, <1>5
\* A step within an entry of a sync, or to the next one, that adds no note.
LEMMA WithinEntry ==
  ASSUME Running, run.todo # <<>>, run.kind = "sync",
         run.stage \in {"entry", "add", "update", "tags", "move"},
         NotesStep, FreeIds' = FreeIds, registry' = registry,
         faults' \in Nat, loose' \in SUBSET Ids, run' \in Runs,
         run'.kind = run.kind, run'.complete = run.complete, run'.census = run.census,
         run'.results = run.results,
         \/ /\ run'.todo = run.todo /\ run'.stage \in {"add", "update", "tags", "move"}
            /\ E.id # NoId
         \/ run'.todo = Tail(run.todo) /\ run'.stage = "entry"
  PROVE  Goal
<1>1. SyncInv /\ RunInv /\ ~Idling /\ FreeIds \in Nat
  BY UnusedFinite DEF Running, SyncInv
<1>2. Len(run.todo) <= FreeIds
  BY <1>1 DEF RunInv, RoomInv, Deleting
<1>3. Len(run.todo) \in Nat \ {0} /\ Len(Tail(run.todo)) = Len(run.todo) - 1
  BY <1>1, EntryFacts
<1>4. RoomInv' /\ DoomedInv' /\ StageInv'
  <2>1. Len(run'.todo) <= FreeIds'
    <3>1. Len(run'.todo) \in {Len(run.todo), Len(run.todo) - 1}
      BY <1>3
    <3> QED
      BY <1>1, <1>2, <1>3, <3>1
  <2>2. RoomInv'
    BY <1>1, <2>1 DEF RoomInv, Deleting
  <2>3. DoomedInv'
    BY DEF DoomedInv, Deleting
  <2>4. StageInv'
    BY DEF StageInv, E
  <2> QED
    BY <2>2, <2>3, <2>4
<1>5. SyncTypes'
  BY <1>1, TypesStay DEF SyncInv, SyncTypes, NotesStep
<1> QED
  BY <1>4, <1>5, FrameStays DEF RunInv, Goal, Idling

LEMMA DecisionFacts ==
  ASSUME NEW e, Decision(e) \in {"query", "update"}
  PROVE  e.id # NoId
BY DEF Decision

LEMMA QueryNoteGoal ==
  ASSUME Stepping, NEW o \in Outcomes, QueryNote(o)
  PROVE  Goal
<1>1. /\ run.todo # <<>> /\ run.kind = "sync" /\ run.stage = "entry"
      /\ run \in Runs /\ SyncInv /\ ~Idling /\ Running
  BY SteppingFacts DEF QueryNote, AtEntry, Stepping
<1>2. NotesStep /\ FreeIds' = FreeIds
  BY <1>1, SameNotes DEF QueryNote
<1>3. Clean(o) \in BOOLEAN
  BY <1>1 DEF Clean, Runs
<1>4. /\ run' \in Runs /\ run'.todo = run.todo /\ run'.stage \in {"add", "update"}
      /\ run'.kind = run.kind /\ run'.complete = run.complete /\ run'.census = run.census
      /\ run'.results = run.results
  <2>1. \/ run' = [run EXCEPT !.stage = "update", !.adopt = TRUE]
        \/ run' = [run EXCEPT !.stage = "add", !.clean = Clean(o)]
    BY DEF QueryNote
  <2> QED
    BY <1>1, <1>3, <2>1 DEF Runs
<1>5. E.id # NoId
  BY DecisionFacts DEF QueryNote
<1>6. faults' \in Nat /\ registry' = registry
  BY OutcomeFacts DEF QueryNote
<1> QED
  BY <1>1, <1>2, <1>4, <1>5, <1>6, WithinEntry, SteppingFacts

\* A note that is there is changed, but for its type and origin.
LEMMA ChangedStep ==
  ASSUME SyncInv, notes' \in [Ids -> Cards],
         \A j \in Ids : notes'[j].type = notes[j].type /\ notes'[j].from = notes[j].from
  PROVE  NotesStep /\ FreeIds' = FreeIds
<1>1. NotesStep
  BY DEF SyncInv, NotesStep, GoneInv, Exists
<1>2. FreeIds' = FreeIds
  BY AsMany
<1> QED
  BY <1>1, <1>2

\* The fields of a note that a request of the run writes.
LEMMA WrittenNotes ==
  ASSUME notes \in [Ids -> Cards], NEW e \in Entries, e.id \in Ids,
         \/ notes' = notes
         \/ notes' = [notes EXCEPT ![e.id].text = e.text, ![e.id].link = e.link]
         \/ notes' = [notes EXCEPT ![e.id].tags = e.text]
         \/ notes' = [notes EXCEPT ![e.id].deck = e.deck]
  PROVE  /\ notes' \in [Ids -> Cards]
         /\ \A j \in Ids : notes'[j].type = notes[j].type /\ notes'[j].from = notes[j].from
<1> DEFINE m == notes[e.id]
<1>1. m \in Cards /\ e.text \in Words /\ e.deck \in Places /\ e.link \in BOOLEAN
  BY DEF Entries, Words, Places
<1>2. ASSUME NEW c \in Cards, notes' = [notes EXCEPT ![e.id] = c],
             c.type = m.type, c.from = m.from
      PROVE  /\ notes' \in [Ids -> Cards]
             /\ \A j \in Ids : notes'[j].type = notes[j].type /\ notes'[j].from = notes[j].from
  BY <1>2
<1>3. /\ [m EXCEPT !.text = e.text, !.link = e.link] \in Cards
      /\ [m EXCEPT !.text = e.text, !.link = e.link].type = m.type
      /\ [m EXCEPT !.text = e.text, !.link = e.link].from = m.from
  BY <1>1 DEF Cards
<1>4. /\ [m EXCEPT !.tags = e.text] \in Cards
      /\ [m EXCEPT !.tags = e.text].type = m.type /\ [m EXCEPT !.tags = e.text].from = m.from
  BY <1>1 DEF Cards
<1>5. /\ [m EXCEPT !.deck = e.deck] \in Cards
      /\ [m EXCEPT !.deck = e.deck].type = m.type /\ [m EXCEPT !.deck = e.deck].from = m.from
  BY <1>1 DEF Cards
<1>6. CASE notes' = notes
  BY <1>6
<1>7. CASE notes' = [notes EXCEPT ![e.id].text = e.text, ![e.id].link = e.link]
  <2>1. notes' = [notes EXCEPT ![e.id] = [m EXCEPT !.text = e.text, !.link = e.link]]
    BY <1>7, <1>1 DEF Cards
  <2> QED
    BY <1>2, <1>3, <2>1
<1>8. CASE notes' = [notes EXCEPT ![e.id].tags = e.text]
  <2>1. notes' = [notes EXCEPT ![e.id] = [m EXCEPT !.tags = e.text]]
    BY <1>8
  <2> QED
    BY <1>2, <1>4, <2>1
<1>9. CASE notes' = [notes EXCEPT ![e.id].deck = e.deck]
  <2>1. notes' = [notes EXCEPT ![e.id] = [m EXCEPT !.deck = e.deck]]
    BY <1>9
  <2> QED
    BY <1>2, <1>5, <2>1
<1> QED
  BY <1>6, <1>7, <1>8, <1>9

\* The entry in hand has an identifier whenever its note is addressed.
LEMMA UpdatedTyped ==
  ASSUME Running, run.todo # <<>>, E.id \in Ids, NEW deck \in Places, NEW clean \in BOOLEAN
  PROVE  /\ Updated(deck, clean) \in Runs
         /\ Updated(deck, clean).stage = "entry"
         /\ Updated(deck, clean).todo = Tail(run.todo)
         /\ Updated(deck, clean).kind = run.kind
         /\ Updated(deck, clean).complete = run.complete
         /\ Updated(deck, clean).census = run.census
         /\ Updated(deck, clean).results = run.results
<1>1. run \in Runs /\ SyncInv /\ ~Idling
  BY DEF Running, SyncInv, SyncTypes
<1>2. E \in Entries /\ EntryHash(E, E.type) \in Hashes
  BY <1>1, EntryFacts, NewTyped DEF Entries
<1> DEFINE path == IF run.adopt THEN "in" ELSE run.reg[E.id].path
           reg == Put(E.id, path, deck, EntryHash(E, E.type))
<1>3. path \in {"in", "out"}
  BY <1>1 DEF Runs, Records
<1>4. reg \in [Ids -> Records]
  BY <1>1, <1>2, <1>3, PutTyped DEF Runs
<1>5. (run.clean /\ clean) \in BOOLEAN
  BY <1>1 DEF Runs
<1>6. Updated(deck, clean) = [Next_(run) EXCEPT !.reg = reg, !.clean = run.clean /\ clean]
  BY DEF Updated
<1> HIDE DEF reg
<1> QED
  BY <1>4, <1>5, <1>6, NextFields DEF Runs
\* The steps that write to the note of the entry in hand.
LEMMA InHand ==
  ASSUME Stepping, run.todo # <<>>, E.id # NoId
  PROVE  E \in Entries /\ E.id \in Ids /\ E.deck \in Places
BY SteppingFacts, EntryFacts, PlannerAssumption DEF Entries, NoId, Ids, Places

LEMMA UpdateFieldsGoal ==
  ASSUME Stepping, NEW o \in Outcomes, UpdateFields(o)
  PROVE  Goal
<1>1. /\ run.todo # <<>> /\ run.kind = "sync" /\ run.stage \in {"entry", "update"}
      /\ run \in Runs /\ SyncInv /\ ~Idling /\ Running /\ notes \in [Ids -> Cards]
  BY SteppingFacts DEF UpdateFields, AtEntry, Stepping, RunInv, StageInv
<1>2. E.id # NoId
  <2>1. CASE run.stage = "update"
    BY <2>1, SteppingFacts DEF RunInv, StageInv
  <2>2. CASE Decision(E) = "update"
    BY <2>2, DecisionFacts
  <2> QED
    BY <2>1, <2>2 DEF UpdateFields
<1>3. E \in Entries /\ E.id \in Ids
  BY <1>1, <1>2, InHand
<1>4. \/ notes' = notes
      \/ notes' = [notes EXCEPT ![E.id].text = E.text, ![E.id].link = E.link]
  BY DEF UpdateFields
<1>5. NotesStep /\ FreeIds' = FreeIds
  BY <1>1, <1>3, <1>4, WrittenNotes, ChangedStep
<1>6. /\ run' \in Runs
      /\ run'.kind = run.kind /\ run'.complete = run.complete /\ run'.census = run.census
      /\ run'.results = run.results
      /\ \/ run'.todo = run.todo /\ run'.stage = "tags"
         \/ run'.todo = Tail(run.todo) /\ run'.stage = "entry"
  <2>1. CASE run' = [run EXCEPT !.stage = "tags"]
    BY <1>1, <2>1 DEF Runs
  <2>2. CASE run' = [Next_(run) EXCEPT !.clean = FALSE]
    BY <1>1, <2>2, NextFields DEF Runs
  <2> QED
    BY <2>1, <2>2 DEF UpdateFields
<1>7. faults' \in Nat /\ registry' = registry
  BY OutcomeFacts DEF UpdateFields
<1> QED
  BY <1>1, <1>2, <1>5, <1>6, <1>7, WithinEntry, SteppingFacts

LEMMA UpdateTagsGoal ==
  ASSUME Stepping, NEW o \in Outcomes, UpdateTags(o)
  PROVE  Goal
<1>1. /\ run.todo # <<>> /\ run.kind = "sync" /\ run.stage = "tags" /\ E.id # NoId
      /\ run \in Runs /\ SyncInv /\ ~Idling /\ Running /\ notes \in [Ids -> Cards]
  BY SteppingFacts DEF UpdateTags, Stepping, RunInv, StageInv
<1>2. E \in Entries /\ E.id \in Ids /\ E.deck \in Places
  BY <1>1, InHand
<1>3. notes' = notes \/ notes' = [notes EXCEPT ![E.id].tags = E.text]
  BY DEF UpdateTags
<1>4. NotesStep /\ FreeIds' = FreeIds
  BY <1>1, <1>2, <1>3, WrittenNotes, ChangedStep
<1>5. /\ run' \in Runs
      /\ run'.kind = run.kind /\ run'.complete = run.complete /\ run'.census = run.census
      /\ run'.results = run.results
      /\ \/ run'.todo = run.todo /\ run'.stage = "move"
         \/ run'.todo = Tail(run.todo) /\ run'.stage = "entry"
  <2>1. CASE run' = [run EXCEPT !.stage = "move"]
    BY <1>1, <2>1 DEF Runs
  <2>2. CASE run' = [Next_(run) EXCEPT !.clean = FALSE]
    BY <1>1, <2>2, NextFields DEF Runs
  <2>3. CASE run' = Updated(E.deck, TRUE)
    BY <1>1, <1>2, <2>3, UpdatedTyped
  <2> QED
    BY <2>1, <2>2, <2>3 DEF UpdateTags
<1>6. faults' \in Nat /\ registry' = registry
  BY OutcomeFacts DEF UpdateTags
<1> QED
  BY <1>1, <1>4, <1>5, <1>6, WithinEntry, SteppingFacts

LEMMA MoveDeckGoal ==
  ASSUME Stepping, NEW o \in Outcomes, MoveDeck(o)
  PROVE  Goal
<1>1. /\ run.todo # <<>> /\ run.kind = "sync" /\ run.stage = "move" /\ E.id # NoId
      /\ run \in Runs /\ SyncInv /\ ~Idling /\ Running /\ notes \in [Ids -> Cards]
  BY SteppingFacts DEF MoveDeck, Stepping, RunInv, StageInv
<1>2. E \in Entries /\ E.id \in Ids /\ E.deck \in Places
  BY <1>1, InHand
<1>3. notes' = notes \/ notes' = [notes EXCEPT ![E.id].deck = E.deck]
  BY DEF MoveDeck, Moved
<1>4. NotesStep /\ FreeIds' = FreeIds
  BY <1>1, <1>2, <1>3, WrittenNotes, ChangedStep
<1>5. /\ run' \in Runs
      /\ run'.kind = run.kind /\ run'.complete = run.complete /\ run'.census = run.census
      /\ run'.results = run.results /\ run'.todo = Tail(run.todo) /\ run'.stage = "entry"
  <2> DEFINE deck == IF o = "ok" \/ run.adopt THEN E.deck ELSE run.reg[E.id].deck
  <2>1. deck \in Places
    BY <1>1, <1>2 DEF Runs, Records
  <2>2. run' = Updated(deck, o = "ok")
    BY DEF MoveDeck
  <2>3. (o = "ok") \in BOOLEAN
    OBVIOUS
  <2> HIDE DEF deck
  <2> QED
    BY <1>1, <1>2, <2>1, <2>2, <2>3, UpdatedTyped
<1>6. faults' \in Nat /\ registry' = registry
  BY OutcomeFacts DEF MoveDeck
<1> QED
  BY <1>1, <1>4, <1>5, <1>6, WithinEntry, SteppingFacts

\* Orphans: a candidate is named by no heading and by no archived one.
LEMMA ReconcileGoal ==
  ASSUME Stepping, Reconcile
  PROVE  Goal
<1>1. /\ run.todo = <<>> /\ run.kind = "sync" /\ run.stage = "entry"
      /\ run \in Runs /\ SyncInv /\ RunInv /\ ~Idling /\ Running
      /\ registry' = registry /\ faults' \in Nat
  BY SteppingFacts DEF Reconcile, Stepping
<1>2. NotesStep /\ FreeIds' = FreeIds /\ FreeIds \in Nat
  BY <1>1, SameNotes, UnusedFinite DEF Reconcile
<1> DEFINE cs == IF run.complete THEN Candidates(Refreshed) ELSE {}
<1>3. Refreshed \in [Ids -> Records] /\ cs \in SUBSET Ids
  <2>1. \A i \in Ids : SeenAt(i) # {} => (CHOOSE p \in SeenAt(i) : TRUE) \in {"in", "out"}
    <3>1. \A i \in Ids : SeenAt(i) \subseteq {"in", "out"}
      BY <1>1 DEF SeenAt, Runs
    <3> QED
      BY <3>1
  <2>2. \A i \in Ids : run.reg[i] \in Records
    BY <1>1 DEF Runs
  <2>3. \A i \in Ids : Refreshed[i] \in Records
    BY <2>1, <2>2 DEF Refreshed, Records
  <2>4. Refreshed \in [Ids -> Records]
    BY <2>3 DEF Refreshed
  <2> QED
    BY <2>4 DEF Candidates, Registered
<1>4. run.complete => cs \cap (Named(disk) \cup archive) = {}
  <2>1. SUFFICES ASSUME run.complete, NEW i \in Named(disk) \cup archive, i \in cs
                 PROVE  FALSE
    OBVIOUS
  <2>2. SeenAt(i) = {}
    BY <2>1 DEF Candidates
  <2>3. PICK p \in {"in", "out"} : [id |-> i, path |-> p] \in Census(disk)
    <3>1. CASE i \in Named(disk)
      BY <3>1 DEF Census
    <3>2. CASE i \in archive \ Named(disk)
      BY <3>2 DEF Census
    <3> QED
      BY <2>1, <3>1, <3>2
  <2>4. run.census = Census(disk)
    BY <1>1, <2>1 DEF RunInv, CensusInv
  <2>5. p \in SeenAt(i)
    BY <2>3, <2>4 DEF SeenAt
  <2> QED
    BY <2>2, <2>5
<1>5. run' = [run EXCEPT !.reg = Refreshed, !.doomed = cs,
                         !.stage = IF cs = {} THEN "save" ELSE "confirm"]
  BY DEF Reconcile
<1> HIDE DEF cs
<1>6. /\ run' \in Runs /\ run'.todo = run.todo /\ run'.stage \in {"save", "confirm"}
      /\ run'.kind = run.kind /\ run'.complete = run.complete /\ run'.census = run.census
      /\ run'.results = run.results /\ run'.doomed = cs
  BY <1>1, <1>3, <1>5 DEF Runs
<1>7. SyncTypes'
  BY <1>1, <1>2, <1>6, TypesStay, SteppingFacts DEF NotesStep
<1>8. RoomInv' /\ StageInv'
  BY <1>1, <1>2, <1>6 DEF RoomInv, StageInv, Deleting
<1>9. DoomedInv'
  <2>1. cs # {} => run.complete
    BY DEF cs
  <2>2. cs \cap (Named(disk) \cup archive) = {}
    BY <1>4, <2>1
  <2>3. disk' = disk /\ archive' = archive
    BY <1>1 DEF Running, files
  <2> QED
    BY <1>1, <1>6, <2>2, <2>3 DEF DoomedInv, Named
<1> QED
  BY <1>1, <1>2, <1>6, <1>7, <1>8, <1>9, FrameStays DEF RunInv, Goal, Idling
\* The run once its deletions are decided; a migrated entry is then done with.
LEMMA AfterDeleteFields ==
  ASSUME Stepping, Deleting, NEW removed, NEW clean \in BOOLEAN
  PROVE  /\ AfterDelete(removed, clean) \in Runs
         /\ AfterDelete(removed, clean).kind = run.kind
         /\ AfterDelete(removed, clean).complete = run.complete
         /\ AfterDelete(removed, clean).census = run.census
         /\ run.kind = "sync" =>
               /\ AfterDelete(removed, clean).stage = "save"
               /\ AfterDelete(removed, clean).todo = run.todo
               /\ AfterDelete(removed, clean).results = run.results
         /\ run.kind = "migrate" =>
               /\ run.todo # <<>> /\ run.fresh \in Ids
               /\ AfterDelete(removed, clean).stage = "entry"
               /\ AfterDelete(removed, clean).todo = Tail(run.todo)
               /\ AfterDelete(removed, clean).results =
                     run.results \cup {[n |-> E.n, id |-> run.fresh]}
<1>1. run \in Runs /\ RunInv /\ SyncInv /\ ~Idling /\ Running
  BY SteppingFacts DEF Stepping
<1>2. Unregistered \in Records
  BY DEF Unregistered, Records, Hash, Hashes, Words, Places
<1> DEFINE reg == Removed(removed)
<1>3. reg \in [Ids -> Records]
  BY <1>1, <1>2 DEF Removed, Runs
<1>4. CASE run.kind = "sync"
  <2>1. AfterDelete(removed, clean)
          = [run EXCEPT !.stage = "save", !.doomed = {}, !.reg = reg, !.clean = clean]
    BY <1>4 DEF AfterDelete
  <2> HIDE DEF reg
  <2> QED
    BY <1>1, <1>3, <1>4, <2>1 DEF Runs
<1>5. CASE run.kind = "migrate"
  <2>1. run.todo # <<>> /\ run.fresh \in Ids
    BY <1>1, <1>5 DEF RunInv, DoomedInv, Replaced, MadeOf
  <2>2. E \in Entries /\ LinklessHash(E, "own") \in Hashes
    BY <1>1, <2>1, EntryFacts, NewTyped DEF Types
  <2> DEFINE new == Entry("own", "in", E.deck, LinklessHash(E, "own"))
             reg2 == [reg EXCEPT ![E.id] = Unregistered, ![run.fresh] = new]
             res == run.results \cup {[n |-> E.n, id |-> run.fresh]}
  <2>3. new \in Records
    BY <2>2 DEF Entry, Records, Types, Entries, Places
  <2>4. reg2 \in [Ids -> Records]
    BY <1>2, <1>3, <2>3
  <2>5. res \in SUBSET [n : Nat \ {0}, id : Ids]
    BY <1>1, <2>1, <2>2 DEF Runs, Entries
  <2>6. AfterDelete(removed, clean)
          = [Next_(run) EXCEPT !.doomed = {}, !.clean = clean, !.reg = reg2, !.results = res]
    BY <1>5 DEF AfterDelete
  <2> HIDE DEF reg2, res
  <2>7. Next_(run) \in Runs /\ Next_(run).kind = run.kind
        /\ Next_(run).complete = run.complete /\ Next_(run).census = run.census
        /\ Next_(run).stage = "entry" /\ Next_(run).todo = Tail(run.todo)
    BY <1>1, <2>1, NextFields
  <2>8. /\ AfterDelete(removed, clean) \in Runs
        /\ AfterDelete(removed, clean).kind = run.kind
        /\ AfterDelete(removed, clean).complete = run.complete
        /\ AfterDelete(removed, clean).census = run.census
        /\ AfterDelete(removed, clean).stage = "entry"
        /\ AfterDelete(removed, clean).todo = Tail(run.todo)
        /\ AfterDelete(removed, clean).results = res
    BY <2>4, <2>5, <2>6, <2>7 DEF Runs
  <2> QED
    BY <1>5, <2>1, <2>8 DEF res
<1> QED
  BY <1>1, <1>4, <1>5 DEF Runs

\* The step that ends the deletions, whether anything was deleted or not.
LEMMA DeletionsEnd ==
  ASSUME Stepping, Deleting, NEW removed, NEW clean \in BOOLEAN,
         run' = AfterDelete(removed, clean), NotesStep, FreeIds' = FreeIds,
         registry' = registry, faults' \in Nat
  PROVE  Goal
<1>1. run \in Runs /\ RunInv /\ SyncInv /\ ~Idling /\ Running /\ FreeIds \in Nat
      /\ loose' \in SUBSET Ids /\ registry \in [Ids -> Records]
  BY SteppingFacts DEF Stepping
<1>2. SyncTypes'
  BY <1>1, AfterDeleteFields, TypesStay DEF NotesStep
<1>3. run'.stage \in {"save", "entry"}
  BY <1>1, AfterDeleteFields DEF Runs
<1>4. DoomedInv' /\ StageInv'
  BY <1>3 DEF DoomedInv, StageInv, Deleting
<1>5. /\ run'.kind = run.kind /\ run'.complete = run.complete /\ run'.census = run.census
      /\ run'.todo = run.todo \/ (run.todo # <<>> /\ run'.todo = Tail(run.todo))
  BY <1>1, AfterDeleteFields DEF Runs
<1>6. RoomInv'
  <2>1. CASE run.kind = "sync"
    <3>1. Len(run.todo) <= FreeIds
      BY <1>1, <2>1 DEF RunInv, RoomInv
    <3>2. run'.todo = run.todo
      BY <2>1, AfterDeleteFields
    <3> QED
      BY <1>3, <3>1, <3>2, <1>1 DEF RoomInv, Deleting
  <2>2. CASE run.kind = "migrate"
    <3>1. Len(run.todo) <= FreeIds + 1
      BY <1>1, <2>2 DEF RunInv, RoomInv
    <3>2. run.todo # <<>> /\ run'.todo = Tail(run.todo)
      BY <2>2, AfterDeleteFields
    <3>3. Len(run.todo) \in Nat /\ Len(Tail(run.todo)) = Len(run.todo) - 1
      BY <1>1, <3>2, EntryFacts
    <3>4. Len(run'.todo) <= FreeIds
      BY <1>1, <3>1, <3>2, <3>3
    <3> QED
      BY <1>1, <1>3, <3>4 DEF RoomInv, Deleting
  <2> QED
    BY <1>1, <2>1, <2>2 DEF Runs
<1>7. ResultsInv'
  <2>1. CASE run.kind = "sync"
    BY <1>1, <1>5, <2>1, AfterDeleteFields, FrameStays
  <2>2. CASE run.kind = "migrate"
    <3>1. \A r \in run.results : r.n \in DOMAIN disk /\ MadeOf(r.id, disk[r.n].name)'
      BY <1>1, ResultsStay
    <3>2. PICK f, n : f = run.fresh /\ n = E.n
      OBVIOUS
    <3>3. disk' = disk /\ run.todo # <<>>
      BY <1>1, <2>2, AfterDeleteFields DEF Running, files
    <3>4. MadeOf(f, disk[n].name) /\ n \in DOMAIN disk
      <4>1. MadeOf(run.fresh, E.name)
        BY <1>1, <2>2 DEF RunInv, DoomedInv, Replaced
      <4> QED
        BY <1>1, <3>2, <3>3, <4>1, EntryFacts
    <3>5. MadeOf(f, disk[n].name)'
      BY <3>3, <3>4 DEF NotesStep, MadeOf, Exists
    <3>6. run'.results = run.results \cup {[n |-> n, id |-> f]}
      BY <2>2, <3>2, AfterDeleteFields
    <3> QED
      BY <3>1, <3>3, <3>4, <3>5, <3>6 DEF ResultsInv
  <2> QED
    BY <1>1, <2>1, <2>2 DEF Runs
<1> QED
  BY <1>1, <1>2, <1>3, <1>4, <1>5, <1>6, <1>7, FrameStays DEF RunInv, Goal, Idling

LEMMA ConfirmGoal ==
  ASSUME Stepping, NEW o \in Outcomes, Confirm(o)
  PROVE  Goal
<1>1. /\ run.stage = "confirm" /\ Deleting
      /\ run \in Runs /\ SyncInv /\ RunInv /\ ~Idling /\ Running
      /\ registry' = registry /\ faults' \in Nat /\ loose \subseteq loose'
      /\ loose' \in SUBSET Ids /\ registry \in [Ids -> Records]
  BY SteppingFacts, OutcomeFacts DEF Confirm, Stepping, Deleting
<1>2. NotesStep /\ FreeIds' = FreeIds /\ FreeIds \in Nat /\ notes' = notes
  BY <1>1, SameNotes, UnusedFinite DEF Confirm
<1> DEFINE confirmed == {i \in run.doomed : Owned(i)}
<1>3. CASE o = "ok" /\ confirmed # {}
  <2>1. run' = [run EXCEPT !.stage = "delete", !.doomed = confirmed]
    BY <1>3 DEF Confirm
  <2>2. confirmed \in SUBSET Ids /\ confirmed \subseteq run.doomed
    BY <1>1 DEF Runs
  <2>3. \A i \in confirmed : notes[i].text # "user"
    <3>1. SUFFICES ASSUME NEW i \in confirmed PROVE notes[i].text # "user"
      OBVIOUS
    <3>2. Owned(i) /\ i \in Ids
      BY <2>2
    <3>3. notes[i].text = run.reg[i].hash.text
      BY <3>2 DEF Owned, Hash
    <3>4. run.reg[i].hash.text \in Words
      BY <1>1, <3>2 DEF Runs, Records, Hashes
    <3>5. "user" \notin Words
      BY PlannerAssumption DEF Words, NoText
    <3> QED
      BY <3>3, <3>4, <3>5
  <2> HIDE DEF confirmed
  <2>4. /\ run' \in Runs /\ run'.todo = run.todo /\ run'.stage = "delete"
        /\ run'.kind = run.kind /\ run'.complete = run.complete /\ run'.census = run.census
        /\ run'.results = run.results /\ run'.doomed = confirmed /\ run'.fresh = run.fresh
    BY <1>1, <2>1, <2>2 DEF Runs
  <2>5. SyncTypes'
    BY <1>1, <1>2, <2>4, TypesStay DEF NotesStep
  <2>6. RoomInv' /\ StageInv'
    BY <1>1, <1>2, <2>4 DEF RunInv, RoomInv, StageInv, Deleting
  <2>7. DoomedInv'
    <3>1. disk' = disk /\ archive' = archive
      BY <1>1 DEF Running, files
    <3>2. run.kind = "sync" => confirmed \cap (Named(disk) \cup archive) = {}
      BY <1>1, <2>2 DEF RunInv, DoomedInv
    <3>3. run.kind = "migrate" => Replaced'
      BY <1>1, <1>2, <2>2, <2>4 DEF RunInv, DoomedInv, Replaced, E, MadeOf, Exists
    <3> QED
      BY <1>2, <2>3, <2>4, <3>1, <3>2, <3>3 DEF DoomedInv, Deleting, Named
  <2> QED
    BY <1>1, <1>2, <2>4, <2>5, <2>6, <2>7, FrameStays DEF RunInv, Goal, Idling
<1>4. CASE ~(o = "ok" /\ confirmed # {})
  <2>1. run' = AfterDelete({}, Clean(o))
    BY <1>4 DEF Confirm
  <2>2. Clean(o) \in BOOLEAN
    BY <1>1 DEF Clean, Runs
  <2> QED
    BY <1>1, <1>2, <2>1, <2>2, DeletionsEnd
<1> QED
  BY <1>3, <1>4

LEMMA GoneTyped ==
  /\ Never \in Cards /\ Never.type = "never" /\ Never.from = 0
  /\ Gone \in Cards /\ Gone.type = "gone" /\ Gone.from = 0
<1>1. 0 \in 0 .. MaxNames
  BY SyncAssumption
<1>2. Never \in Cards /\ Never.type = "never" /\ Never.from = 0
  BY <1>1 DEF Never, Cards, Words, Places
<1> QED
  BY <1>2 DEF Gone, Cards

LEMMA DeleteNotesGoal ==
  ASSUME Stepping, NEW o \in Outcomes, DeleteNotes(o)
  PROVE  Goal
<1>1. /\ run.stage = "delete" /\ Deleting
      /\ run \in Runs /\ SyncInv /\ registry' = registry /\ faults' \in Nat
      /\ notes \in [Ids -> Cards]
  BY SteppingFacts, OutcomeFacts DEF DeleteNotes, Stepping, Deleting
<1>2. Gone \in Cards /\ Gone.type = "gone" /\ Gone.from = 0
  BY GoneTyped
<1>3. NotesStep /\ FreeIds' = FreeIds
  <2>1. CASE Effect(o)
    <3>1. notes' = [i \in Ids |-> IF i \in run.doomed /\ Exists(i) THEN Gone ELSE notes[i]]
      BY <2>1 DEF DeleteNotes
    <3>2. notes' \in [Ids -> Cards]
      BY <1>1, <1>2, <3>1
    <3>3. \A i \in Ids : notes'[i] = notes[i] \/ (notes'[i] = Gone /\ notes[i].type \in Types)
      BY <3>1 DEF Exists
    <3>4. NotesStep
      BY <1>1, <1>2, <3>2, <3>3 DEF NotesStep, SyncInv, GoneInv, Exists, Types
    <3>5. \A i \in Ids : notes'[i].type = "never" <=> notes[i].type = "never"
      BY <1>2, <3>3 DEF Types
    <3> QED
      BY <3>4, <3>5, AsMany
  <2>2. CASE ~Effect(o)
    BY <1>1, <2>2, SameNotes DEF DeleteNotes
  <2> QED
    BY <2>1, <2>2
<1>4. PICK removed : run' = AfterDelete(removed, Clean(o))
  BY DEF DeleteNotes
<1>5. Clean(o) \in BOOLEAN
  BY <1>1 DEF Clean, Runs
<1> QED
  BY <1>1, <1>3, <1>4, <1>5, DeletionsEnd
LEMMA MigrateAddGoal ==
  ASSUME Stepping, NEW o \in Outcomes, MigrateAdd(o)
  PROVE  Goal
<1>1. /\ run.todo # <<>> /\ run.kind = "migrate" /\ run.stage = "entry"
      /\ run \in Runs /\ RunInv /\ SyncInv /\ ~Idling /\ Running /\ FreeIds \in Nat
      /\ registry' = registry /\ faults' \in Nat /\ E.id # NoId
      /\ loose' \in SUBSET Ids /\ registry \in [Ids -> Records]
  BY SteppingFacts, OutcomeFacts DEF MigrateAdd, AtEntry, Stepping, Migrates
<1>2. E \in Entries /\ E.id \in Ids
  BY <1>1, InHand
<1>3. Len(run.todo) <= FreeIds /\ Len(run.todo) \in Nat \ {0} /\ FreeIds >= 1
      /\ Len(Tail(run.todo)) = Len(run.todo) - 1
  <2>1. Len(run.todo) \in Nat \ {0} /\ Len(Tail(run.todo)) = Len(run.todo) - 1
    BY <1>1, EntryFacts
  <2>2. Len(run.todo) <= FreeIds
    BY <1>1 DEF RunInv, RoomInv, Deleting
  <2> QED
    BY <1>1, <2>1, <2>2
<1> DEFINE c == New([E EXCEPT !.link = FALSE], "own")
<1>4. c \in Cards /\ c.type = "own" /\ c.from = E.name
  <2>1. [E EXCEPT !.link = FALSE] \in Entries /\ [E EXCEPT !.link = FALSE].name = E.name
    BY <1>2 DEF Entries
  <2> QED
    BY <2>1, NewTyped DEF Types
<1>5. notes' = IF Effect(o) THEN [notes EXCEPT ![Fresh] = c] ELSE notes
  BY DEF MigrateAdd
<1> HIDE DEF c
<1>6. CASE o = "ok"
  <2>1. /\ NotesStep /\ FreeIds' = FreeIds - 1
        /\ Fresh \in Ids /\ notes'[Fresh] = c
    BY <1>1, <1>3, <1>4, <1>5, <1>6, AddedStep DEF Effect, Types
  <2>2. PICK f \in Ids : f = Fresh
    BY <2>1
  <2>3. run' = [run EXCEPT !.stage = "confirm", !.fresh = f, !.doomed = {E.id},
                           !.added = run.added \cup {f}]
    BY <1>6, <2>2 DEF MigrateAdd
  <2>4. /\ run' \in Runs /\ run'.todo = run.todo /\ run'.stage = "confirm"
        /\ run'.kind = run.kind /\ run'.complete = run.complete /\ run'.census = run.census
        /\ run'.results = run.results /\ run'.doomed = {E.id} /\ run'.fresh = f
    <3>1. f \in 0 .. MaxNotes
      BY PlannerAssumption DEF Ids
    <3>2. run.added \cup {f} \in SUBSET Ids /\ {E.id} \in SUBSET Ids
      BY <1>1, <1>2 DEF Runs
    <3> QED
      BY <1>1, <2>3, <3>1, <3>2 DEF Runs
  <2>5. SyncTypes'
    BY <1>1, <2>1, <2>4, TypesStay DEF NotesStep
  <2>6. RoomInv' /\ StageInv'
    BY <1>1, <1>3, <2>1, <2>4 DEF RoomInv, StageInv, Deleting
  <2>7. Replaced'
    BY <1>1, <1>4, <2>1, <2>2, <2>4 DEF Replaced, E, MadeOf, Exists, Types
  <2>8. DoomedInv'
    BY <1>1, <2>4, <2>7 DEF DoomedInv
  <2> QED
    BY <1>1, <2>1, <2>4, <2>5, <2>6, <2>8, FrameStays DEF RunInv, Goal, Idling
<1>7. CASE o # "ok"
  <2>1. NotesStep /\ FreeIds' \in {FreeIds, FreeIds - 1}
    <3>1. CASE Effect(o)
      BY <1>1, <1>3, <1>4, <1>5, <3>1, AddedStep DEF Types
    <3>2. CASE ~Effect(o)
      BY <1>1, <1>5, <3>2, SameNotes
    <3> QED
      BY <3>1, <3>2
  <2>2. run' = [Next_(run) EXCEPT !.clean = FALSE]
    BY <1>7 DEF MigrateAdd
  <2>3. /\ run' \in Runs /\ run'.stage = "entry" /\ run'.todo = Tail(run.todo)
        /\ run'.kind = run.kind /\ run'.complete = run.complete /\ run'.census = run.census
        /\ run'.results = run.results
    BY <1>1, <2>2, NextFields DEF Runs
  <2>4. SyncTypes'
    BY <1>1, <2>1, <2>3, TypesStay DEF NotesStep
  <2>5. Len(run'.todo) <= FreeIds'
    BY <1>1, <1>3, <2>1, <2>3
  <2>6. RoomInv' /\ DoomedInv' /\ StageInv'
    BY <1>1, <2>1, <2>3, <2>5 DEF RoomInv, DoomedInv, StageInv, Deleting
  <2> QED
    BY <1>1, <2>1, <2>3, <2>4, <2>6, FrameStays DEF RunInv, Goal, Idling
<1> QED
  BY <1>6, <1>7

\* Nothing is left to do but to save and to answer.
LEMMA EndingGoal ==
  ASSUME Stepping, MigrationDone \/ \E o \in Outcomes : Save(o)
  PROVE  Goal
<1>1. /\ run \in Runs /\ RunInv /\ SyncInv /\ ~Idling /\ Running /\ FreeIds \in Nat
      /\ loose' \in SUBSET Ids /\ registry \in [Ids -> Records] /\ notes' = notes
  BY SteppingFacts DEF Stepping, MigrationDone, Save
<1>2. NotesStep /\ FreeIds' = FreeIds
  BY <1>1, SameNotes
<1>3. /\ run' \in Runs /\ run'.todo = run.todo /\ run'.stage \in {"save", "reply"}
      /\ run'.kind = run.kind /\ run'.complete = run.complete /\ run'.census = run.census
      /\ run'.results = run.results /\ run.stage \in {"entry", "save"}
      /\ faults' \in Nat /\ registry' \in [Ids -> Records]
  <2>1. CASE MigrationDone
    BY <1>1, <2>1, SteppingFacts DEF MigrationDone, Runs
  <2>2. ASSUME NEW o \in Outcomes, Save(o) PROVE <1>3!:
    <3>1. Clean(o) \in BOOLEAN /\ run.reg \in [Ids -> Records]
      BY <1>1 DEF Clean, Runs
    <3> QED
      BY <1>1, <2>2, <3>1, OutcomeFacts DEF Save, Runs
  <2> QED
    BY <2>1, <2>2
<1>4. SyncTypes'
  BY <1>1, <1>2, <1>3, TypesStay DEF NotesStep
<1>5. Len(run.todo) <= FreeIds
  BY <1>1, <1>3 DEF RunInv, RoomInv, Deleting
<1>6. RoomInv' /\ DoomedInv' /\ StageInv'
  BY <1>1, <1>2, <1>3, <1>5 DEF RoomInv, DoomedInv, StageInv, Deleting
<1> QED
  BY <1>1, <1>2, <1>3, <1>4, <1>6, FrameStays DEF RunInv, Goal, Idling

LEMMA RunStepInv ==
  ASSUME SyncInv, RunStep
  PROVE  SyncInv' /\ NotesStep
<1>1. Stepping /\ Running
  <2>1. ~Idling
    BY DEF RunStep, PlannerStep, SkipEntry, RefuseEntry, AddNote, QueryNote, UpdateFields,
       UpdateTags, MoveDeck, Reconcile, Confirm, DeleteNotes, SkipMigration, MigrateAdd,
       MigrationDone, Save, AtEntry, Idling
  <2> QED
    BY <2>1 DEF Stepping, Running, RunStep
<1>2. Goal
  <2>1. CASE SkipEntry
    BY <1>1, <2>1, SteppingFacts, DropEntry DEF SkipEntry, AtEntry
  <2>2. CASE RefuseEntry
    <3>1. faults' \in Nat
      BY <1>1, <2>2, SteppingFacts DEF RefuseEntry
    <3> QED
      BY <1>1, <2>2, <3>1, SteppingFacts, DropEntry DEF RefuseEntry, AtEntry
  <2>3. CASE SkipMigration
    BY <1>1, <2>3, SteppingFacts, DropEntry DEF SkipMigration, AtEntry
  <2> QED
    BY <1>1, <2>1, <2>2, <2>3, AddNoteGoal, QueryNoteGoal, UpdateFieldsGoal, UpdateTagsGoal,
       MoveDeckGoal, ReconcileGoal, ConfirmGoal, DeleteNotesGoal, MigrateAddGoal, EndingGoal
       DEF RunStep, PlannerStep
<1> QED
  BY <1>1, <1>2, GoalSuffices DEF Goal
-----------------------------------------------------------------------------
(* The commands of the user *)

Good(h) == h \in Headings /\ (h.id # NoId => MadeOf(h.id, h.name))
AllGood(s) == s \in Seq(Headings) /\ \A k \in DOMAIN s : Good(s[k])

LEMMA GoodIs ==
  ASSUME NEW s
  PROVE  AllGood(s) <=> s \in Seq(Headings) /\ HeadingsInv(s)
<1>1. ASSUME s \in Seq(Headings), NEW k \in DOMAIN s PROVE s[k] \in Headings
  BY <1>1
<1> QED
  BY <1>1 DEF AllGood, Good, HeadingsInv

LEMMA GoodAdd ==
  ASSUME NEW s, AllGood(s), NEW h, Good(h)
  PROVE  AllGood(<<h>> \o s)
<1>1. s \in Seq(Headings) /\ h \in Headings
  BY DEF AllGood, Good
<1>2. <<h>> \o s \in Seq(Headings)
  BY <1>1
<1>3. \A k \in DOMAIN (<<h>> \o s) :
         (<<h>> \o s)[k] = h \/ \E l \in DOMAIN s : (<<h>> \o s)[k] = s[l]
  <2>1. SUFFICES ASSUME NEW k \in DOMAIN (<<h>> \o s), k # 1
                 PROVE  k - 1 \in DOMAIN s /\ (<<h>> \o s)[k] = s[k - 1]
    BY <1>1
  <2> QED
    BY <1>1, <2>1
<1> QED
  BY <1>2, <1>3 DEF AllGood

LEMMA GoodWithout ==
  ASSUME NEW s, AllGood(s), NEW k \in DOMAIN s
  PROVE  AllGood(Without(s, k))
<1>1. s \in Seq(Headings) /\ k \in 1 .. Len(s) /\ Len(s) \in Nat
  BY DEF AllGood
<1> DEFINE a == SubSeq(s, 1, k - 1)
           b == SubSeq(s, k + 1, Len(s))
<1>2. /\ a \in Seq(Headings) /\ Len(a) = k - 1
      /\ \A j \in 1 .. k - 1 : a[j] = s[j] /\ j \in DOMAIN s
  BY <1>1
<1>3. /\ b \in Seq(Headings) /\ Len(b) = Len(s) - k
      /\ \A j \in 1 .. Len(s) - k : b[j] = s[k + j] /\ k + j \in DOMAIN s
  BY <1>1
<1> HIDE DEF a, b
<1>4. a \o b \in Seq(Headings)
  BY <1>2, <1>3
<1>5. \A j \in DOMAIN (a \o b) : \E l \in DOMAIN s : (a \o b)[j] = s[l]
  <2>1. SUFFICES ASSUME NEW j \in 1 .. Len(a) + Len(b)
                 PROVE  \E l \in DOMAIN s : (a \o b)[j] = s[l]
    <3>1. DOMAIN (a \o b) = 1 .. Len(a) + Len(b)
      BY <1>2, <1>3
    <3> QED
      BY <3>1
  <2>2. CASE j <= Len(a)
    <3>1. (a \o b)[j] = a[j] /\ j \in 1 .. k - 1
      BY <1>1, <1>2, <1>3, <2>2
    <3> QED
      BY <1>2, <3>1
  <2>3. CASE j > Len(a)
    <3>1. Len(a) \in Nat /\ Len(b) \in Nat
      BY <1>2, <1>3
    <3>2. (a \o b)[j] = b[j - Len(a)]
      BY <1>2, <1>3, <2>3, <3>1
    <3>3. j - Len(a) \in 1 .. Len(b)
      BY <2>3, <3>1
    <3> QED
      BY <1>3, <3>2, <3>3
  <2> QED
    BY <1>1, <1>2, <2>2, <2>3
<1> QED
  BY <1>4, <1>5 DEF AllGood, Without, a, b

LEMMA GoodChange ==
  ASSUME NEW s, AllGood(s), NEW k \in DOMAIN s, NEW h, Good(h)
  PROVE  AllGood([s EXCEPT ![k] = h])
<1>1. s \in Seq(Headings) /\ h \in Headings
  BY DEF AllGood, Good
<1>2. [s EXCEPT ![k] = h] \in Seq(Headings)
  BY <1>1
<1> QED
  BY <1>2 DEF AllGood

\* What a command of the user of Emacs has to show.
LEMMA CommandInv ==
  ASSUME SyncInv, Idling, UNCHANGED <<notes, run, faults, loose>>,
         AllGood(buffer'), disk' \in {buffer', disk},
         registry' \in [Ids -> Records], archive' \in SUBSET Ids, edits' \in Nat,
         settled' = FALSE, doubled' \in SUBSET (0 .. MaxNames)
  PROVE  SyncInv'
<1>1. AllGood(disk) /\ notes' = notes /\ run' = run
  BY GoodIs DEF SyncInv, SyncTypes
<1>2. disk' \in Seq(Headings) /\ buffer' \in Seq(Headings)
  BY <1>1 DEF AllGood
<1>3. SyncTypes'
  BY <1>1, <1>2 DEF SyncInv, SyncTypes
<1>4. HeadingsInv(buffer)' /\ HeadingsInv(disk)'
  BY <1>1 DEF AllGood, Good, HeadingsInv, MadeOf, Exists
<1>5. GoneInv'
  BY <1>1 DEF SyncInv, GoneInv, Exists
<1> QED
  BY <1>1, <1>3, <1>4, <1>5 DEF SyncInv, Idling
LEMMA HeadingTyped ==
  ASSUME NEW n \in 1 .. MaxNames
  PROVE  Good(Heading(n, FirstText, FirstDeck))
<1>1. FirstText \in Texts /\ FirstDeck \in Decks
  BY SyncAssumption DEF FirstText, FirstDeck
<1>2. NoId \in 0 .. MaxNotes
  BY PlannerAssumption DEF NoId
<1> QED
  BY <1>1, <1>2 DEF Good, Heading, Headings, Types

LEMMA UsedNames ==
  ASSUME SyncTypes
  PROVE  Used \ {0} \subseteq 1 .. MaxNames
<1>1. \A k \in DOMAIN disk : disk[k].name \in 1 .. MaxNames
  <2>1. \A k \in DOMAIN disk : disk[k] \in Headings
    BY DEF SyncTypes
  <2> QED
    BY <2>1 DEF Headings
<1>2. \A k \in DOMAIN buffer : buffer[k].name \in 1 .. MaxNames
  <2>1. \A k \in DOMAIN buffer : buffer[k] \in Headings
    BY DEF SyncTypes
  <2> QED
    BY <2>1 DEF Headings
<1>3. \A i \in Ids : notes[i].from \in 0 .. MaxNames
  BY DEF SyncTypes, Cards
<1>4. \A x \in 0 .. MaxNames : x # 0 => x \in 1 .. MaxNames
  BY SyncAssumption
<1> QED
  <2>1. SUFFICES ASSUME NEW x \in Used, x # 0 PROVE x \in 1 .. MaxNames
    OBVIOUS
  <2> QED
    BY <1>1, <1>2, <1>3, <1>4, <2>1 DEF Used

LEMMA BufferCommands ==
  ASSUME SyncInv, EditHeading \/ InsertHeading \/ CopyHeading \/ ClearIds \/ RemoveHeading
  PROVE  SyncInv'
<1>1. Idling /\ UNCHANGED <<notes, run, faults, loose, registry, archive>>
      /\ settled' = FALSE /\ edits' = edits + 1
  BY DEF EditHeading, InsertHeading, CopyHeading, ClearIds, RemoveHeading, Command
<1>2. AllGood(buffer) /\ buffer \in Seq(Headings) /\ SyncTypes
  BY GoodIs DEF SyncInv, SyncTypes
<1>3. registry' \in [Ids -> Records] /\ archive' \in SUBSET Ids /\ edits' \in Nat
  BY <1>1, <1>2 DEF SyncTypes
<1>4. \A k \in DOMAIN buffer : Good(buffer[k]) /\ buffer[k] \in Headings
  BY <1>2 DEF AllGood, Good
<1>5. doubled' \in SUBSET (0 .. MaxNames)
  <2>1. CASE CopyHeading
    <3>1. \A k \in DOMAIN buffer : buffer[k].name \in 0 .. MaxNames
      BY <1>4, SyncAssumption DEF Headings
    <3> QED
      BY <1>2, <2>1, <3>1 DEF CopyHeading, SyncTypes
  <2>2. CASE ~CopyHeading
    BY <1>2, <2>2 DEF EditHeading, InsertHeading, ClearIds, RemoveHeading, SyncTypes
  <2> QED
    BY <2>1, <2>2
<1>6. AllGood(buffer') /\ disk' \in {buffer', disk}
  <2>1. CASE EditHeading
    <3>1. PICK k \in DOMAIN buffer, v \in Texts, d \in Decks :
             Becomes([buffer EXCEPT ![k].text = v, ![k].deck = d])
      BY <2>1 DEF EditHeading
    <3> DEFINE h == [buffer[k] EXCEPT !.text = v, !.deck = d]
    <3>2. Good(h)
      BY <1>4 DEF Good, Headings
    <3>3. [buffer EXCEPT ![k].text = v, ![k].deck = d] = [buffer EXCEPT ![k] = h]
      BY <1>2, <1>4 DEF Headings
    <3> HIDE DEF h
    <3> QED
      BY <1>2, <3>1, <3>2, <3>3, GoodChange DEF Becomes
  <2>2. CASE InsertHeading
    <3>1. FreshName \in 1 .. MaxNames
      BY <1>2, <2>2, UsedNames, FreshNamed DEF InsertHeading
    <3>2. Becomes(<<Heading(FreshName, FirstText, FirstDeck)>> \o buffer)
      BY <2>2 DEF InsertHeading
    <3> QED
      BY <1>2, <3>1, <3>2, HeadingTyped, GoodAdd DEF Becomes
  <2>3. CASE CopyHeading
    <3>1. PICK k \in DOMAIN buffer : Becomes(<<buffer[k]>> \o buffer)
      BY <2>3 DEF CopyHeading
    <3> QED
      BY <1>2, <1>4, <3>1, GoodAdd DEF Becomes
  <2>4. CASE ClearIds
    <3>1. PICK f \in 1 .. MaxNames : f = FreshName
      BY <1>2, <2>4, UsedNames, FreshNamed DEF ClearIds
    <3>2. PICK k \in DOMAIN buffer :
             Becomes([buffer EXCEPT ![k].name = f, ![k].id = NoId, ![k].linked = FALSE])
      BY <2>4, <3>1 DEF ClearIds
    <3> DEFINE h == [buffer[k] EXCEPT !.name = f, !.id = NoId, !.linked = FALSE]
    <3>3. NoId \in 0 .. MaxNotes
      BY PlannerAssumption DEF NoId
    <3>4. Good(h)
      BY <1>4, <3>3 DEF Good, Headings
    <3>5. [buffer EXCEPT ![k].name = f, ![k].id = NoId, ![k].linked = FALSE]
            = [buffer EXCEPT ![k] = h]
      BY <1>2, <1>4 DEF Headings
    <3> HIDE DEF h
    <3> QED
      <4>1. Becomes([buffer EXCEPT ![k] = h])
        BY <3>2, <3>5
      <4>2. AllGood([buffer EXCEPT ![k] = h])
        BY <1>2, <3>4, GoodChange
      <4> QED
        BY <4>1, <4>2 DEF Becomes
  <2>5. CASE RemoveHeading
    <3>1. PICK k \in DOMAIN buffer : Becomes(Without(buffer, k))
      BY <2>5 DEF RemoveHeading
    <3> QED
      BY <1>2, <3>1, GoodWithout DEF Becomes
  <2> QED
    BY <2>1, <2>2, <2>3, <2>4, <2>5
<1> QED
  BY <1>1, <1>3, <1>5, <1>6, CommandInv

LEMMA OtherCommands ==
  ASSUME SyncInv, ArchiveHeading \/ RemoveArchived \/ LoseRegistry \/ SaveBuffer
  PROVE  SyncInv'
<1>1. Idling /\ UNCHANGED <<notes, run, faults, loose, doubled>>
      /\ settled' = FALSE /\ edits' \in {edits, edits + 1}
  BY DEF ArchiveHeading, RemoveArchived, LoseRegistry, SaveBuffer, Command
<1>2. AllGood(buffer) /\ SyncTypes
  BY GoodIs DEF SyncInv, SyncTypes
<1>3. doubled' \in SUBSET (0 .. MaxNames) /\ edits' \in Nat
  BY <1>1, <1>2 DEF SyncTypes
<1>4. registry' \in [Ids -> Records]
  <2>1. Unregistered \in Records
    BY DEF Unregistered, Records, Hash, Hashes, Words, Places
  <2> QED
    BY <1>2, <2>1 DEF ArchiveHeading, RemoveArchived, LoseRegistry, SaveBuffer, SyncTypes
<1>5. archive' \in SUBSET Ids
  <2>1. CASE ArchiveHeading
    <3>1. PICK k \in DOMAIN buffer : archive' = archive \cup ({buffer[k].id} \ {NoId})
      BY <2>1 DEF ArchiveHeading
    <3>2. buffer[k].id \in 0 .. MaxNotes
      BY <1>2 DEF AllGood, Good, Headings
    <3>3. {buffer[k].id} \ {NoId} \subseteq Ids
      BY <3>2, PlannerAssumption DEF Ids, NoId
    <3> QED
      BY <1>2, <3>1, <3>3 DEF SyncTypes
  <2>2. CASE ~ArchiveHeading
    BY <1>2, <2>2 DEF RemoveArchived, LoseRegistry, SaveBuffer, SyncTypes, files
  <2> QED
    BY <2>1, <2>2
<1>6. AllGood(buffer') /\ disk' \in {buffer', disk}
  <2>1. CASE ArchiveHeading
    BY <1>2, <2>1, GoodWithout DEF ArchiveHeading
  <2>2. CASE ~ArchiveHeading
    BY <1>2, <2>2 DEF RemoveArchived, LoseRegistry, SaveBuffer, files
  <2> QED
    BY <2>1, <2>2
<1> QED
  BY <1>1, <1>3, <1>4, <1>5, <1>6, CommandInv
-----------------------------------------------------------------------------
(* The start and the end of a run *)

LEMMA SentTyped ==
  ASSUME NEW s \in Seq(Headings)
  PROVE  /\ Sent(s) \in Seq(Entries) /\ Len(Sent(s)) = Len(s)
         /\ \A k \in DOMAIN s : Sent(s)[k].n = k
<1>1. \A k \in DOMAIN s : s[k] \in Headings /\ k \in Nat \ {0}
  OBVIOUS
<1>2. \A k \in DOMAIN s : Links(s, k) \in BOOLEAN
  BY DEF Links
<1>3. \A k \in DOMAIN s : Sent(s)[k] \in Entries /\ Sent(s)[k].n = k
  BY <1>1, <1>2 DEF Sent, Headings, Entries
<1>4. DOMAIN Sent(s) = 1 .. Len(s) /\ Len(s) \in Nat /\ DOMAIN s = 1 .. Len(s)
      /\ Sent(s) = [k \in 1 .. Len(s) |-> Sent(s)[k]]
  BY DEF Sent
<1>5. Sent(s) \in Seq(Entries) /\ Len(Sent(s)) = Len(s)
  BY <1>3, <1>4
<1> QED
  BY <1>3, <1>5

LEMMA LinkedGood ==
  ASSUME NEW s, AllGood(s)
  PROVE  /\ AllGood(Linked(s)) /\ Len(Linked(s)) = Len(s) /\ Names(Linked(s)) = Names(s)
         /\ DOMAIN Linked(s) = DOMAIN s
<1>1. s \in Seq(Headings)
  BY DEF AllGood
<1>2. \A k \in DOMAIN s : Good(s[k])
  BY DEF AllGood
<1>3. \A k \in DOMAIN s : /\ Good([s[k] EXCEPT !.linked = TRUE])
                          /\ [s[k] EXCEPT !.linked = TRUE].name = s[k].name
                          /\ [s[k] EXCEPT !.linked = TRUE] \in Headings
  BY <1>2 DEF Good, Headings
<1>4. \A k \in DOMAIN s : Linked(s)[k] = [s[k] EXCEPT !.linked = TRUE]
  BY DEF Linked
<1>5. DOMAIN Linked(s) = 1 .. Len(s) /\ Len(s) \in Nat /\ DOMAIN s = 1 .. Len(s)
      /\ Linked(s) = [k \in 1 .. Len(s) |-> Linked(s)[k]]
  BY <1>1 DEF Linked
<1>6. Linked(s) \in Seq(Headings) /\ Len(Linked(s)) = Len(s)
  BY <1>3, <1>4, <1>5
<1>7. Names(Linked(s)) = Names(s)
  BY <1>3, <1>4, <1>5 DEF Names
<1> QED
  BY <1>3, <1>4, <1>5, <1>6, <1>7 DEF AllGood

LEMMA CensusTyped ==
  ASSUME NEW s \in Seq(Headings), archive \in SUBSET Ids
  PROVE  Census(s) \in SUBSET [id : Ids, path : {"in", "out"}]
<1>1. \A k \in DOMAIN s : s[k].id \in 0 .. MaxNotes
  <2>1. \A k \in DOMAIN s : s[k] \in Headings
    OBVIOUS
  <2> QED
    BY <2>1 DEF Headings
<1>2. Named(s) \subseteq Ids
  <2>1. SUFFICES ASSUME NEW k \in DOMAIN s, s[k].id # NoId PROVE s[k].id \in Ids
    BY DEF Named
  <2> QED
    BY <1>1, <2>1, PlannerAssumption DEF Ids, NoId
<1> QED
  BY <1>2 DEF Census

LEMMA IdleTyped == Idle \in Runs /\ Unregistered \in Records
<1>1. Unregistered \in Records
  BY DEF Unregistered, Records, Hash, Hashes, Words, Places
<1>2. NoId \in 0 .. MaxNotes /\ <<>> \in Seq(Entries)
  BY PlannerAssumption DEF NoId
<1>3. [i \in Ids |-> Unregistered] \in [Ids -> Records]
  BY <1>1
<1> QED
  BY <1>1, <1>2, <1>3 DEF Idle, Runs

\* The fields of a run that starts.
LEMMA StartFields ==
  ASSUME registry \in [Ids -> Records], NEW kind \in {"sync", "migrate"},
         NEW entries \in Seq(Entries), NEW census \in SUBSET [id : Ids, path : {"in", "out"}],
         NEW complete \in BOOLEAN, StartRun(kind, entries, census, complete)
  PROVE  /\ run' \in Runs /\ run'.stage = "entry" /\ run'.kind = kind
         /\ run'.sent = entries /\ run'.todo = entries /\ run'.census = census
         /\ run'.complete = complete /\ run'.reg = registry /\ run'.pre = Registered(registry)
         /\ run'.results = {} /\ run'.added = {} /\ run'.clean = TRUE /\ run'.doomed = {}
         /\ run'.fresh = NoId /\ run'.adopt = FALSE
<1>1. Idle \in Runs
  BY IdleTyped
<1>2. Registered(registry) \in SUBSET Ids
  BY DEF Registered
<1> QED
  BY <1>1, <1>2 DEF StartRun, Runs, Idle

LEMMA StartsEntry ==
  ASSUME registry \in [Ids -> Records], NEW kind \in {"sync", "migrate"},
         NEW entries \in Seq(Entries), NEW census \in SUBSET [id : Ids, path : {"in", "out"}],
         NEW complete \in BOOLEAN, StartRun(kind, entries, census, complete)
  PROVE  /\ run' \in Runs /\ run'.stage = "entry" /\ run'.kind = kind
         /\ run'.todo = entries /\ run'.census = census
         /\ run'.complete = complete /\ run'.results = {}
BY StartFields, Zenon

\* What the start of a run has to show: it is given the file as it will be on
\* disk, and the census of it if every file could be read.
LEMMA StartInv ==
  ASSUME SyncInv, UNCHANGED <<notes, registry, archive, loose, doubled>>, FreeIds >= Len(disk'),
         AllGood(disk'), AllGood(buffer'), Names(buffer') = Names(disk'),
         faults' \in Nat, edits' \in Nat, settled' \in BOOLEAN,
         NEW kind \in {"sync", "migrate"}, NEW entries, NEW census, NEW complete \in BOOLEAN,
         \/ entries = Sent(disk') /\ census = Census(disk')
         \/ entries = <<>> /\ census = Census(<<>>) /\ complete = FALSE,
         StartRun(kind, entries, census, complete)
  PROVE  SyncInv'
<1>1. /\ registry \in [Ids -> Records] /\ notes \in [Ids -> Cards] /\ archive \in SUBSET Ids
      /\ loose \in SUBSET Ids /\ doubled \in SUBSET (0 .. MaxNames) /\ ~Careless
      /\ GoneInv /\ FreeIds \in Nat
  BY UnusedFinite DEF SyncInv, SyncTypes
<1>2. /\ disk' \in Seq(Headings) /\ buffer' \in Seq(Headings)
      /\ HeadingsInv(disk)' /\ HeadingsInv(buffer)'
  BY <1>1 DEF AllGood, Good, HeadingsInv, MadeOf, Exists
<1>3. /\ entries \in Seq(Entries) /\ Len(entries) <= FreeIds
      /\ \A k \in DOMAIN entries :
           entries[k].n \in DOMAIN disk' /\ entries[k] = Sent(disk')[entries[k].n]
  <2>1. CASE entries = Sent(disk') /\ census = Census(disk')
    <3>1. Sent(disk') \in Seq(Entries) /\ Len(Sent(disk')) = Len(disk')
          /\ \A k \in DOMAIN disk' : Sent(disk')[k].n = k
      BY <1>2, SentTyped
    <3>2. DOMAIN Sent(disk') = DOMAIN disk'
      BY <1>2 DEF Sent
    <3> QED
      BY <2>1, <3>1, <3>2
  <2>2. CASE entries = <<>>
    BY <1>1, <2>2
  <2> QED
    BY <2>1, <2>2
<1>4. census \in SUBSET [id : Ids, path : {"in", "out"}] /\ (complete => census = Census(disk'))
  <2>1. \A s \in Seq(Headings) : Census(s) \in SUBSET [id : Ids, path : {"in", "out"}]
    BY <1>1, CensusTyped
  <2>2. <<>> \in Seq(Headings)
    OBVIOUS
  <2> QED
    BY <1>2, <2>1, <2>2
<1>5. /\ run' \in Runs /\ run'.stage = "entry" /\ run'.kind = kind
      /\ run'.todo = entries /\ run'.census = census /\ run'.complete = complete
      /\ run'.results = {}
  <2>1. PICK e \in Seq(Entries), c \in SUBSET [id : Ids, path : {"in", "out"}] :
           e = entries /\ c = census
    BY <1>3, <1>4
  <2>2. StartRun(kind, e, c, complete)
    BY <2>1
  <2>3. /\ run' \in Runs /\ run'.stage = "entry" /\ run'.kind = kind
        /\ run'.todo = e /\ run'.census = c /\ run'.complete = complete
        /\ run'.results = {}
    BY <1>1, <2>2, StartsEntry
  <2> QED
    BY <2>1, <2>3
<1>6. SyncTypes'
  BY <1>1, <1>2, <1>5 DEF SyncTypes
<1>7. FreeIds' = FreeIds
  BY AsMany
<1>8. TodoInv' /\ ResultsInv' /\ DoomedInv' /\ StageInv'
  <2>1. TodoInv'
    BY <1>3, <1>5 DEF TodoInv, Sent, Links
  <2>2. ResultsInv' /\ DoomedInv' /\ StageInv'
    BY <1>5 DEF ResultsInv, DoomedInv, StageInv, Deleting
  <2> QED
    BY <2>1, <2>2
<1>9. CensusInv' /\ RoomInv'
  <2>1. CensusInv'
    BY <1>4, <1>5 DEF CensusInv, Census, Named
  <2>2. RoomInv'
    BY <1>1, <1>3, <1>5, <1>7 DEF RoomInv, Deleting
  <2> QED
    BY <2>1, <2>2
<1>10. GoneInv' /\ (Names(buffer) = Names(disk))'
  BY <1>1 DEF GoneInv, Exists, Names
<1> QED
  BY <1>1, <1>2, <1>5, <1>6, <1>8, <1>9, <1>10 DEF SyncInv, RunInv

LEMMA StartsInv ==
  ASSUME SyncInv, Sync \/ SyncUnreadable \/ Setup
  PROVE  SyncInv'
<1>1. /\ UNCHANGED <<notes, registry, archive, loose, doubled>> /\ FreeIds >= Len(disk)
      /\ Names(buffer) = Names(disk) /\ edits' \in {edits, edits + 1}
      /\ faults' \in {faults, faults - 1} /\ (faults' # faults => faults > 0)
      /\ settled' \in {FALSE, settled}
  BY DEF SyncInv, Sync, SyncUnreadable, Setup, MayStart, files
<1>2. AllGood(disk) /\ AllGood(buffer) /\ SyncTypes
  BY GoodIs DEF SyncInv, SyncTypes
<1>3. faults' \in Nat /\ edits' \in Nat /\ settled' \in BOOLEAN
  <2>1. faults \in Nat /\ edits \in Nat /\ settled \in BOOLEAN
    BY <1>2 DEF SyncTypes
  <2>2. faults' \in Nat
    BY <1>1, <2>1
  <2>3. edits' \in Nat
    BY <1>1, <2>1
  <2> QED
    BY <1>1, <2>1, <2>2, <2>3
<1>4. CASE Sync
  <2>1. buffer' = Linked(buffer) /\ disk' \in {disk, Linked(disk)}
    BY <1>4 DEF Sync, PrepareIds
  <2>2. /\ AllGood(buffer') /\ AllGood(disk') /\ Len(disk') = Len(disk)
        /\ Names(buffer') = Names(disk')
    BY <1>1, <1>2, <2>1, LinkedGood
  <2>3. StartRun("sync", Sent(disk'), Census(disk'), TRUE)
    BY <1>4 DEF Sync
  <2> QED
    BY <1>1, <1>3, <2>2, <2>3, StartInv
<1>5. CASE SyncUnreadable
  <2>1. StartRun("sync", <<>>, Census(<<>>), FALSE) /\ disk' = disk /\ buffer' = buffer
    BY <1>5 DEF SyncUnreadable, files
  <2> QED
    BY <1>1, <1>2, <1>3, <2>1, StartInv
<1>6. CASE Setup
  <2>1. StartRun("migrate", Sent(disk'), Census(disk'), TRUE) /\ disk' = disk /\ buffer' = buffer
    BY <1>6 DEF Setup, files, Census, Named
  <2> QED
    BY <1>1, <1>2, <1>3, <2>1, StartInv
<1> QED
  BY <1>4, <1>5, <1>6
\* Written back, an identifier stands in the heading it was made of.
LEMMA WriteBackInv ==
  ASSUME SyncInv, WriteBack
  PROVE  SyncInv'
<1>1. /\ run.stage = "reply" /\ RunInv /\ SyncTypes /\ run \in Runs
      /\ UNCHANGED <<notes, registry, faults, archive, edits>>
      /\ AllGood(disk) /\ AllGood(buffer) /\ run' = Idle
  BY GoodIs DEF SyncInv, SyncTypes, WriteBack, Idling
<1>2. DOMAIN buffer = DOMAIN disk /\ \A k \in DOMAIN buffer : buffer[k].name = disk[k].name
  <2>1. Names(buffer) = Names(disk)
    BY <1>1 DEF RunInv
  <2>2. DOMAIN Names(buffer) = DOMAIN buffer /\ DOMAIN Names(disk) = DOMAIN disk
    BY DEF Names
  <2>3. \A k \in DOMAIN buffer : Names(buffer)[k] = buffer[k].name
    BY DEF Names
  <2>4. \A k \in DOMAIN disk : Names(disk)[k] = disk[k].name
    BY DEF Names
  <2> QED
    BY <2>1, <2>2, <2>3, <2>4
<1>3. \A k \in DOMAIN buffer : Good(WrittenBack[k])
  <2>1. SUFFICES ASSUME NEW k \in DOMAIN buffer PROVE Good(WrittenBack[k])
    OBVIOUS
  <2>2. Good(buffer[k]) /\ buffer[k] \in Headings
    BY <1>1 DEF AllGood, Good
  <2>3. CASE ResultsFor(k) = {}
    BY <2>2, <2>3 DEF WrittenBack
  <2>4. CASE ResultsFor(k) # {}
    <3> DEFINE r == CHOOSE r \in ResultsFor(k) : TRUE
    <3>1. r \in run.results /\ r.n = k /\ r.id \in Ids
      BY <1>1, <2>4 DEF ResultsFor, Runs
    <3>2. MadeOf(r.id, buffer[k].name)
      BY <1>1, <1>2, <3>1 DEF RunInv, ResultsInv
    <3>3. WrittenBack[k] = [buffer[k] EXCEPT
                !.id = r.id, !.linked = TRUE,
                !.type = IF run.kind = "migrate" THEN "own" ELSE buffer[k].type]
      BY <2>4 DEF WrittenBack
    <3> HIDE DEF r
    <3>4. r.id \in 0 .. MaxNotes
      BY <3>1, PlannerAssumption DEF Ids
    <3> QED
      BY <2>2, <3>2, <3>3, <3>4 DEF Good, Headings, Types
  <2> QED
    BY <2>3, <2>4
<1>4. AllGood(WrittenBack)
  <2>1. buffer \in Seq(Headings)
    BY <1>1 DEF AllGood
  <2>2. DOMAIN WrittenBack = 1 .. Len(buffer) /\ Len(buffer) \in Nat
        /\ DOMAIN buffer = 1 .. Len(buffer)
        /\ WrittenBack = [k \in 1 .. Len(buffer) |-> WrittenBack[k]]
    BY <2>1 DEF WrittenBack
  <2>3. \A k \in 1 .. Len(buffer) : WrittenBack[k] \in Headings
    BY <1>3, <2>2 DEF Good
  <2>4. WrittenBack \in Seq(Headings)
    BY <2>2, <2>3
  <2> QED
    BY <1>3, <2>2, <2>4 DEF AllGood
<1>5. AllGood(buffer') /\ AllGood(disk')
  BY <1>1, <1>4 DEF WriteBack
<1>6. settled' \in BOOLEAN
  <2>1. settled' = (run.clean /\ run.complete /\ run.kind = "sync" /\ buffer = disk)
    BY DEF WriteBack
  <2> QED
    BY <2>1
<1>7. loose' \in SUBSET Ids
  <2>1. \A k \in DOMAIN buffer : buffer[k].id # NoId => buffer[k].id \in Ids
    BY <1>1 DEF AllGood, Good, MadeOf
  <2> QED
    BY <1>1, <2>1 DEF WriteBack, Overwritten, SyncTypes
<1>8. SyncTypes'
  <2>1. \A k \in DOMAIN buffer : buffer[k].name \in 0 .. MaxNames
    BY <1>1, SyncAssumption DEF AllGood, Good, Headings
  <2>2. doubled' \in SUBSET (0 .. MaxNames)
    BY <1>1, <2>1 DEF WriteBack, Overwritten, SyncTypes
  <2> QED
    BY <1>1, <1>5, <1>6, <1>7, <2>2, IdleTyped DEF SyncTypes, AllGood
<1>9. HeadingsInv(disk)' /\ HeadingsInv(buffer)' /\ GoneInv'
  BY <1>1, <1>5 DEF AllGood, Good, HeadingsInv, MadeOf, Exists, GoneInv, SyncInv
<1>10. Idling'
  BY <1>1 DEF Idling, Idle
<1> QED
  BY <1>8, <1>9, <1>10 DEF SyncInv

LEMMA SameFiles ==
  ASSUME RunInv, disk' = disk, buffer' = buffer, archive' = archive, run' = run,
         FreeIds' = FreeIds
  PROVE  TodoInv' /\ CensusInv' /\ StageInv' /\ RoomInv' /\ (Names(buffer) = Names(disk))'
<1>1. TodoInv'
  BY DEF RunInv, TodoInv, Sent, Links
<1>2. CensusInv'
  BY DEF RunInv, CensusInv, Census, Named
<1>3. StageInv'
  BY DEF RunInv, StageInv, E
<1>4. RoomInv'
  BY DEF RunInv, RoomInv, Deleting
<1>5. (Names(buffer) = Names(disk))'
  BY DEF RunInv, Names
<1> QED
  BY <1>1, <1>2, <1>3, <1>4, <1>5

\* What the user of Anki does to a note, a run under way or not.
LEMMA CollectionInv ==
  ASSUME SyncInv, EditNote \/ DeleteNote
  PROVE  SyncInv' /\ NotesStep
<1>1. /\ SyncTypes /\ notes \in [Ids -> Cards] /\ run \in Runs
      /\ UNCHANGED <<registry, run, faults, files, settled, doubled>> /\ edits' = edits + 1
  BY DEF EditNote, DeleteNote, AnkiCommand, SyncInv, SyncTypes
<1>2. PICK i \in Live :
         \/ notes' = [notes EXCEPT ![i].text = IF run.stage = "delete" THEN "late" ELSE "user"]
         \/ notes' = [notes EXCEPT ![i] = Gone] /\ loose' = loose \cup {i}
  BY DEF EditNote, DeleteNote
<1>3. i \in Ids /\ Exists(i) /\ notes[i] \in Cards
  BY <1>1, <1>2 DEF Live
<1>4. PICK c \in Cards :
         /\ notes' = [notes EXCEPT ![i] = c]
         /\ \/ /\ c.type = notes[i].type /\ c.from = notes[i].from
               /\ c.text = IF run.stage = "delete" THEN "late" ELSE "user"
            \/ c.type = "gone" /\ c.from = 0 /\ c.text # "user" /\ loose' = loose \cup {i}
  <2>1. CASE notes' = [notes EXCEPT ![i].text = IF run.stage = "delete" THEN "late" ELSE "user"]
    <3> DEFINE t == IF run.stage = "delete" THEN "late" ELSE "user"
               c == [notes[i] EXCEPT !.text = t]
    <3>1. t \in {"late", "user"}
      OBVIOUS
    <3>2. notes' = [notes EXCEPT ![i].text = t]
      BY <2>1
    <3> HIDE DEF t
    <3>3. c \in Cards /\ c.type = notes[i].type /\ c.from = notes[i].from /\ c.text = t
      BY <1>3, <3>1 DEF Cards
    <3>4. notes' = [notes EXCEPT ![i] = c]
      BY <3>2
    <3> QED
      BY <3>3, <3>4 DEF t
  <2>2. CASE notes' = [notes EXCEPT ![i] = Gone] /\ loose' = loose \cup {i}
    <3>1. Gone.text # "user"
      BY DEF Gone, Never, NoText
    <3> QED
      BY <2>2, <3>1, GoneTyped
  <2> QED
    BY <1>2, <2>1, <2>2
<1>5. /\ notes' \in [Ids -> Cards] /\ notes'[i] = c
      /\ \A j \in Ids : j # i => notes'[j] = notes[j]
  BY <1>1, <1>3, <1>4
<1>6. NotesStep
  BY <1>1, <1>3, <1>4, <1>5 DEF NotesStep, SyncInv, GoneInv, Exists, Types
<1>7. FreeIds' = FreeIds
  <2>1. \A j \in Ids : notes'[j].type = "never" <=> notes[j].type = "never"
    BY <1>3, <1>4, <1>5 DEF Exists, Types
  <2> QED
    BY <2>1, AsMany
<1>8. loose \subseteq loose' /\ loose' \in SUBSET Ids
  BY <1>1, <1>3 DEF EditNote, DeleteNote, SyncTypes, Live
<1>9. SyncTypes'
  <2>1. edits \in Nat /\ edits' \in Nat
    BY <1>1 DEF SyncTypes
  <2> QED
    BY <1>1, <1>5, <1>8, <2>1 DEF SyncTypes, files
<1>10. disk' = disk /\ buffer' = buffer /\ archive' = archive /\ run' = run
  BY <1>1 DEF files
<1>11. HeadingsInv(disk)' /\ HeadingsInv(buffer)' /\ GoneInv'
  BY <1>6, <1>10, HeadingsStay DEF SyncInv
<1>12. ASSUME RunInv PROVE RunInv'
  <2>1. TodoInv' /\ CensusInv' /\ StageInv' /\ RoomInv' /\ (Names(buffer) = Names(disk))'
    BY <1>7, <1>10, <1>12, SameFiles
  <2>2. ResultsInv'
    BY <1>6, <1>10, <1>12 DEF RunInv, ResultsInv, NotesStep, MadeOf, Exists
  <2>3. DoomedInv'
    <3>1. run.stage = "delete" => \A j \in run.doomed : notes'[j].text # "user"
      <4>1. SUFFICES ASSUME run.stage = "delete", NEW j \in run.doomed
                     PROVE  notes'[j].text # "user"
        OBVIOUS
      <4>2. j \in Ids /\ notes[j].text # "user"
        BY <1>1, <1>12, <4>1 DEF Runs, RunInv, DoomedInv
      <4> QED
        BY <1>4, <1>5, <4>1, <4>2
    <3>2. run.kind = "migrate" /\ Deleting => Replaced'
      BY <1>3, <1>4, <1>5, <1>8, <1>10, <1>12
         DEF RunInv, DoomedInv, Replaced, E, MadeOf, Exists, Types
    <3> QED
      BY <1>10, <1>12, <3>1, <3>2 DEF RunInv, DoomedInv, Deleting, Named
  <2> QED
    BY <2>1, <2>2, <2>3 DEF RunInv
<1> QED
  BY <1>6, <1>9, <1>10, <1>11, <1>12 DEF SyncInv, Idling

LEMMA KillInv ==
  ASSUME SyncInv, Kill
  PROVE  SyncInv'
<1>1. /\ SyncTypes /\ run \in Runs /\ run' = Idle /\ faults > 0 /\ faults' = faults - 1
      /\ settled' = FALSE /\ UNCHANGED <<notes, registry, files, edits>>
  BY DEF Kill, SyncInv, SyncTypes
<1>2. loose' \in SUBSET Ids
  BY <1>1 DEF Kill, SyncTypes, Runs, Unsaved
<1>3. faults \in Nat /\ faults' \in Nat
  BY <1>1 DEF SyncTypes
<1>4. SyncTypes'
  <2>1. doubled' \in SUBSET (0 .. MaxNames)
    <3>1. \A i \in Ids : notes[i].from \in 0 .. MaxNames
      BY <1>1 DEF SyncTypes, Cards
    <3>2. run.added \subseteq Ids /\ doubled \in SUBSET (0 .. MaxNames)
      BY <1>1 DEF SyncTypes, Runs
    <3> QED
      BY <3>1, <3>2 DEF Kill
  <2> QED
    BY <1>1, <1>2, <1>3, <2>1, IdleTyped DEF SyncTypes, files
<1>5. HeadingsInv(disk)' /\ HeadingsInv(buffer)' /\ GoneInv'
  BY <1>1, SameNotes, HeadingsStay DEF SyncInv, files
<1>6. Idling'
  BY <1>1 DEF Idling, Idle
<1> QED
  BY <1>4, <1>5, <1>6 DEF SyncInv

LEMMA InitInv ==
  ASSUME Init, ~Careless
  PROVE  SyncInv
<1> DEFINE h == Heading(1, FirstText, FirstDeck)
<1>1. h \in Headings /\ h.id = NoId
  BY HeadingTyped, SyncAssumption DEF Good, Heading
<1>2. /\ disk = <<h>> /\ buffer = <<h>>
  BY DEF Init
<1> HIDE DEF h
<1>3. disk \in Seq(Headings) /\ buffer \in Seq(Headings) /\ DOMAIN disk = {1} /\ disk[1] = h
  BY <1>1, <1>2
<1>4. SyncTypes
  BY <1>3, IdleTyped, GoneTyped, SyncAssumption DEF Init, PlannerInit, SyncTypes
<1>5. HeadingsInv(disk) /\ HeadingsInv(buffer)
  BY <1>1, <1>2, <1>3 DEF HeadingsInv
<1>6. GoneInv
  BY GoneTyped DEF Init, PlannerInit, GoneInv
<1>7. Idling
  BY DEF Init, PlannerInit, Idle, Idling
<1> QED
  BY <1>4, <1>5, <1>6, <1>7 DEF SyncInv

LEMMA NextInv ==
  ASSUME SyncInv, [Next]_vars
  PROVE  SyncInv'
<1>1. CASE UNCHANGED vars
  <2>1. /\ disk' = disk /\ buffer' = buffer /\ archive' = archive /\ run' = run
        /\ notes' = notes /\ loose' = loose
    BY <1>1 DEF vars
  <2>2. SyncTypes'
    BY <1>1 DEF vars, SyncInv, SyncTypes
  <2>3. NotesStep /\ FreeIds' = FreeIds
    BY <2>1, SameNotes
  <2>4. HeadingsInv(disk)' /\ HeadingsInv(buffer)' /\ GoneInv'
    BY <2>1, <2>3, HeadingsStay DEF SyncInv
  <2>5. ASSUME RunInv PROVE RunInv'
    <3>1. ResultsInv'
      BY <2>1, <2>5 DEF RunInv, ResultsInv, MadeOf, Exists
    <3>2. DoomedInv'
      BY <2>1, <2>5 DEF RunInv, DoomedInv, Deleting, Named, Replaced, E, MadeOf, Exists
    <3> QED
      BY <2>1, <2>3, <2>5, <3>1, <3>2, SameFiles DEF RunInv
  <2> QED
    BY <2>1, <2>2, <2>4, <2>5 DEF SyncInv, Idling
<1> QED
  BY <1>1, BufferCommands, OtherCommands, StartsInv, WriteBackInv, CollectionInv, KillInv,
     RunStepInv DEF Next
-----------------------------------------------------------------------------
(* What follows *)

\* The invariant: what a run under way has in hand is of the file as it is, and
\* identifiers are where they belong.
THEOREM SyncInvariant == ASSUME ~Careless PROVE Spec => []SyncInv
<1>1. Init => SyncInv
  BY InitInv
<1>2. SyncInv /\ [Next]_vars => SyncInv'
  BY NextInv
<1> QED
  BY <1>1, <1>2, PTL DEF Spec

\* HeadingNamesItsNote: whatever the user of Emacs and the user of Anki do, and
\* whatever becomes of a request or of a run, the identifier in a heading is of
\* the note that was made of this heading (or of one deleted since): the answer
\* of a run, which names the headings by their position in the file, is written
\* into the right ones.
THEOREM IdentifiersAreTheirs == ASSUME ~Careless PROVE Spec => []HeadingNamesItsNote
<1>1. SyncInv => HeadingNamesItsNote
  BY DEF SyncInv, HeadingsInv, MadeOf, GoneInv, HeadingNamesItsNote
<1> QED
  BY <1>1, SyncInvariant, PTL
\* Only the request to delete takes a live note away.
LEMMA OnlyDeletes ==
  ASSUME SyncInv, RunStep, NEW i \in Ids, Exists(i), ~Exists(i)'
  PROVE  run.stage = "delete" /\ i \in run.doomed
<1>1. /\ RunInv /\ run \in Runs /\ notes \in [Ids -> Cards] /\ Stepping /\ Running /\ ~Idling
      /\ FreeIds \in Nat
  <2>1. ~Idling
    BY DEF RunStep, PlannerStep, SkipEntry, RefuseEntry, AddNote, QueryNote, UpdateFields,
       UpdateTags, MoveDeck, Reconcile, Confirm, DeleteNotes, SkipMigration, MigrateAdd,
       MigrationDone, Save, AtEntry, Idling
  <2> QED
    BY <2>1, SteppingFacts DEF Stepping, Running, RunStep
<1>2. notes[i].type \in Types /\ notes'[i].type \notin Types
  BY DEF Exists
<1>3. CASE SkipEntry \/ RefuseEntry \/ Reconcile \/ SkipMigration \/ MigrationDone
  BY <1>2, <1>3 DEF SkipEntry, RefuseEntry, Reconcile, SkipMigration, MigrationDone
<1>4. ASSUME NEW o \in Outcomes, QueryNote(o) \/ Confirm(o) \/ Save(o) PROVE FALSE
  BY <1>2, <1>4 DEF QueryNote, Confirm, Save
<1>5. ASSUME NEW o \in Outcomes, AddNote(o) \/ MigrateAdd(o) PROVE FALSE
  <2>1. run.todo # <<>> /\ ~(run.kind = "migrate" /\ Deleting)
    BY <1>1, <1>5 DEF AddNote, MigrateAdd, AtEntry, RunInv, StageInv, Deleting
  <2>2. FreeIds >= 1
    <3>1. Len(run.todo) \in Nat \ {0}
      BY <1>1, <2>1, EntryFacts
    <3>2. Len(run.todo) <= FreeIds
      BY <1>1, <2>1 DEF RunInv, RoomInv
    <3> QED
      BY <1>1, <3>1, <3>2
  <2>3. Fresh \in Ids /\ notes[Fresh].type = "never"
    BY <2>2, FreshUnused
  <2>4. i # Fresh
    BY <1>2, <2>3 DEF Types
  <2>5. notes'[i] = notes[i]
    <3>1. PICK c : notes' \in {notes, [notes EXCEPT ![Fresh] = c]}
      <4>1. CASE AddNote(o)
        BY <4>1 DEF AddNote
      <4>2. CASE MigrateAdd(o)
        BY <4>2 DEF MigrateAdd
      <4> QED
        BY <1>5, <4>1, <4>2
    <3> QED
      BY <1>1, <2>4, <3>1
  <2> QED
    BY <1>2, <2>5
<1>6. ASSUME NEW o \in Outcomes, UpdateFields(o) \/ UpdateTags(o) \/ MoveDeck(o) PROVE FALSE
  <2>1. run.todo # <<>> /\ E.id # NoId
    <3>1. CASE run.stage \in {"update", "tags", "move"}
      BY <1>1, <3>1 DEF RunInv, StageInv
    <3>2. CASE AtEntry("sync") /\ Decision(E) = "update"
      BY <3>2, DecisionFacts DEF AtEntry
    <3> QED
      BY <1>6, <3>1, <3>2 DEF UpdateFields, UpdateTags, MoveDeck
  <2>2. E \in Entries /\ E.id \in Ids
    BY <1>1, <2>1, InHand
  <2>3. \/ notes' = notes
        \/ notes' = [notes EXCEPT ![E.id].text = E.text, ![E.id].link = E.link]
        \/ notes' = [notes EXCEPT ![E.id].tags = E.text]
        \/ notes' = [notes EXCEPT ![E.id].deck = E.deck]
    BY <1>6 DEF UpdateFields, UpdateTags, MoveDeck, Moved
  <2>4. notes'[i].type = notes[i].type
    BY <1>1, <2>2, <2>3, WrittenNotes
  <2> QED
    BY <1>2, <2>4
<1>7. ASSUME NEW o \in Outcomes, DeleteNotes(o) PROVE run.stage = "delete" /\ i \in run.doomed
  BY <1>1, <1>2, <1>7 DEF DeleteNotes
<1> QED
  BY <1>3, <1>4, <1>5, <1>6, <1>7 DEF RunStep, PlannerStep

\* DeletesOnlyOrphans: a run deletes no note of a heading that stands in the
\* file or in an excluded one, read or not, a migrated note only when its
\* replacement is there, and none that was edited in Anki before the run
\* confirmed its deletions.
THEOREM OnlyOrphansGo == ASSUME ~Careless PROVE Spec => DeletesOnlyOrphans
<1> DEFINE Harmless ==
      \A i \in Live \ Live' :
          /\ \/ i \notin Named(disk) \cup archive
             \/ \E j \in Ids : /\ j = run.fresh
                               /\ \/ notes[j].type = "own" /\ notes[j].from = notes[i].from
                                  \/ j \in loose
          /\ notes[i].text # "user"
<1>1. ASSUME SyncInv, RunStep PROVE Harmless
  <2>1. SUFFICES ASSUME NEW i \in Live \ Live'
                 PROVE  /\ \/ i \notin Named(disk) \cup archive
                           \/ \E j \in Ids :
                                /\ j = run.fresh
                                /\ \/ notes[j].type = "own" /\ notes[j].from = notes[i].from
                                   \/ j \in loose
                        /\ notes[i].text # "user"
    OBVIOUS
  <2>2. i \in Ids /\ Exists(i) /\ ~Exists(i)'
    BY DEF Live, Ids
  <2>3. run.stage = "delete" /\ i \in run.doomed
    BY <1>1, <2>2, OnlyDeletes
  <2>4. RunInv /\ run \in Runs /\ ~Idling
    BY <1>1, <2>3 DEF SyncInv, SyncTypes, Idling
  <2>5. notes[i].text # "user"
    BY <2>3, <2>4 DEF RunInv, DoomedInv
  <2>6. CASE run.kind = "sync"
    BY <2>3, <2>4, <2>5, <2>6 DEF RunInv, DoomedInv, Deleting
  <2>7. CASE run.kind = "migrate"
    <3>1. Replaced /\ i = E.id
      BY <2>3, <2>4, <2>7 DEF RunInv, DoomedInv, Deleting, Replaced
    <3>2. run.todo # <<>> /\ run.fresh \in Ids
      BY <3>1 DEF Replaced, MadeOf
    <3>3. E.n \in DOMAIN disk /\ E.name = disk[E.n].name /\ E.id = disk[E.n].id
      BY <1>1, <2>4, <3>2, EntryFacts
    <3>4. notes[i].from = E.name
      <4>1. i # NoId
        BY <2>2 DEF Ids, NoId
      <4> QED
        BY <1>1, <2>2, <3>1, <3>3, <4>1 DEF SyncInv, HeadingsInv, MadeOf
    <3>5. CASE Exists(run.fresh)
      <4>1. notes[run.fresh].type = "own" /\ notes[run.fresh].from = E.name
        BY <3>1, <3>5 DEF Replaced, MadeOf
      <4> QED
        BY <2>5, <3>2, <3>4, <4>1
    <3>6. CASE ~Exists(run.fresh)
      BY <2>5, <3>1, <3>2, <3>6 DEF Replaced
    <3> QED
      BY <3>5, <3>6
  <2> QED
    BY <2>4, <2>6, <2>7 DEF Runs
<1>2. SyncInv /\ [Next]_vars => [RunStep => Harmless]_vars
  BY <1>1
<1>3. Spec => []SyncInv
  BY SyncInvariant
<1> HIDE DEF Harmless
<1>4. Spec => [][RunStep => Harmless]_vars
  BY <1>2, <1>3, PTL DEF Spec
<1> QED
  BY <1>4 DEF DeletesOnlyOrphans, Harmless

-----------------------------------------------------------------------------
(* What the records say is true                                            *)

\* A note keeps its type until it is deleted.
Kinds == \A i \in Ids : notes[i].type # "never" => notes'[i].type \in {notes[i].type, "gone"}

LEMMA KnownStays ==
  ASSUME NotesStep, Kinds, Known(run.reg),
         \A i \in Ids : run'.reg[i].type \in {"none", run.reg[i].type}
  PROVE  Known(run.reg)'
<1> SUFFICES ASSUME NEW i \in Ids, run'.reg[i].type # "none"
             PROVE  /\ notes'[i].type # "never"
                    /\ notes'[i].type \in Types => run'.reg[i].type = notes'[i].type
  BY DEF Known, Exists, Ids
<1>1. run.reg[i].type # "none" /\ run'.reg[i].type = run.reg[i].type
  OBVIOUS
<1>2. notes[i].type # "never" /\ (notes[i].type \in Types => run.reg[i].type = notes[i].type)
  BY <1>1 DEF Known, Exists
<1> QED
  BY <1>1, <1>2 DEF NotesStep, Kinds, Types

LEMMA RegistryKnownStays ==
  ASSUME NotesStep, Kinds, Known(registry), registry' = registry
  PROVE  Known(registry)'
<1> SUFFICES ASSUME NEW i \in Ids, registry[i].type # "none"
             PROVE  /\ notes'[i].type # "never"
                    /\ notes'[i].type \in Types => registry[i].type = notes'[i].type
  BY DEF Known, Exists, Ids
<1>2. notes[i].type # "never" /\ (notes[i].type \in Types => registry[i].type = notes[i].type)
  BY DEF Known, Exists
<1> QED
  BY <1>2 DEF NotesStep, Kinds, Types

\* A record stays true as long as neither it nor its note changes.
LEMMA TrueStays ==
  ASSUME NEW i \in Ids, TrueOf(run.reg, i), notes'[i] = notes[i],
         run'.reg[i].type = run.reg[i].type, run'.reg[i].deck = run.reg[i].deck,
         run'.reg[i].hash = run.reg[i].hash
  PROVE  TrueOf(run.reg, i)'
BY DEF TrueOf, Content, Hash

\* A step of the process that neither takes up nor ends a run.
Recording == Stepping /\ TruthInv /\ HandInv /\ run.stage # "reply"

LEMMA RecordingFacts ==
  ASSUME Recording
  PROVE  /\ Stepping /\ Running /\ SyncInv /\ RunInv /\ ~Idling /\ run \in Runs
         /\ notes \in [Ids -> Cards] /\ registry \in [Ids -> Records] /\ loose \in SUBSET Ids
         /\ run.reg \in [Ids -> Records] /\ Known(registry) /\ Known(run.reg)
         /\ \A i \in Live \ loose : Writing(i) \/ TrueOf(run.reg, i)
         /\ disk' = disk /\ run.stage \notin {"idle", "reply"}
BY SteppingFacts DEF Recording, Stepping, Running, TruthInv, Idling, Runs, SyncInv, SyncTypes,
   Book, files

LEMMA TruthAfter ==
  ASSUME Recording, NotesStep, Kinds, registry' = registry, Known(run.reg)',
         run'.stage \notin {"idle", "reply"},
         \A i \in Ids : Exists(i)' /\ i \notin loose' => Writing(i)' \/ TrueOf(run.reg, i)'
  PROVE  TruthInv'
<1>1. Known(registry)'
  BY RecordingFacts, RegistryKnownStays
<1>2. \A i \in (Live \ loose)' : (Writing(i) \/ TrueOf(Book, i))'
  BY DEF Live, Ids, Book
<1> QED
  BY <1>1, <1>2 DEF TruthInv


\* A note that is not loose after a step was not before, or has been recorded.
LEMMA NotLoose ==
  ASSUME Stepping, NEW i \in Ids, i \notin loose'
  PROVE  i \in Recorded \/ (i \notin loose /\ i \notin Loosened)
BY DEF Stepping

\* An entry that is dropped, or for which a note is added without an answer.
LEMMA PassTruth ==
  ASSUME Recording, run.todo # <<>>, run.stage \in {"entry", "add"}, registry' = registry,
         \/ notes' = notes
         \/ /\ FreeIds >= 1
            /\ \E c \in Cards : c.type \in Types /\ notes' = [notes EXCEPT ![Fresh] = c],
         run'.reg = run.reg, run'.stage = "entry"
  PROVE  TruthInv' /\ HandInv'
<1>1. NotesStep /\ Kinds /\ \A i \in Ids : notes'[i] # notes[i] => notes[i].type = "never"
  <2>1. CASE notes' = notes
    BY <2>1, RecordingFacts, SameNotes DEF Kinds
  <2>2. ASSUME NEW c \in Cards, FreeIds >= 1, c.type \in Types, notes' = [notes EXCEPT ![Fresh] = c]
        PROVE  <1>1!:
    <3>1. /\ NotesStep /\ Fresh \in Ids /\ notes[Fresh].type = "never"
          /\ \A i \in Ids : i # Fresh => notes'[i] = notes[i]
      BY <2>2, RecordingFacts, AddedStep
    <3> QED
      BY <3>1 DEF Kinds
  <2> QED
    BY <2>1, <2>2
<1>2. Known(run.reg)'
  BY <1>1, RecordingFacts, KnownStays
<1>3. ASSUME NEW i \in Ids, Exists(i)', i \notin loose'
      PROVE  TrueOf(run.reg, i)'
  <2>1. i \notin loose
    BY <1>3, SteppingFacts DEF Recording
  <2>2. CASE notes'[i] = notes[i]
    <3>1. i \in Live /\ ~Writing(i)
      BY <1>3, <2>2 DEF Live, Exists, Writing
    <3>2. TrueOf(run.reg, i)
      BY <2>1, <3>1, RecordingFacts
    <3> QED
      BY <2>2, <3>2, TrueStays
  <2>3. CASE notes'[i] # notes[i]
    <3>1. run.reg[i].type = "none"
      BY <1>1, <2>3, RecordingFacts DEF Known
    <3> QED
      BY <3>1 DEF TrueOf
  <2> QED
    BY <2>2, <2>3
<1>4. TruthInv'
  BY <1>1, <1>2, <1>3, TruthAfter
<1>5. HandInv'
  BY DEF HandInv, Deleting
<1> QED
  BY <1>4, <1>5

\* What stays the same throughout a run.
SameRun(r) ==
  /\ r.kind = run.kind /\ r.sent = run.sent /\ r.census = run.census
  /\ r.complete = run.complete /\ r.pre = run.pre

LEMMA FailedFields ==
  ASSUME Running, run.todo # <<>>, run' = [Next_(run) EXCEPT !.clean = FALSE]
  PROVE  /\ run' \in Runs /\ SameRun(run') /\ run'.stage = "entry"
         /\ run'.todo = Tail(run.todo) /\ run'.reg = run.reg /\ run'.results = run.results
         /\ run'.doomed = run.doomed /\ ~run'.clean
BY NextFields DEF Runs, SameRun

LEMMA AddedFields ==
  ASSUME Running, run.todo # <<>>, NEW reg \in [Ids -> Records],
         NEW results \in SUBSET [n : Nat \ {0}, id : Ids], NEW added \in SUBSET Ids,
         run' = [Next_(run) EXCEPT !.reg = reg, !.results = results, !.added = added]
  PROVE  /\ run' \in Runs /\ SameRun(run') /\ run'.stage = "entry"
         /\ run'.todo = Tail(run.todo) /\ run'.reg = reg /\ run'.results = results
         /\ run'.added = added /\ run'.doomed = run.doomed /\ run'.clean = run.clean
BY NextFields DEF Runs, SameRun

LEMMA UpdatedFields ==
  ASSUME Running, run.todo # <<>>, E.id \in Ids, NEW deck \in Places, NEW clean \in BOOLEAN,
         run' = Updated(deck, clean)
  PROVE  /\ run' \in Runs /\ SameRun(run') /\ run'.stage = "entry"
         /\ run'.todo = Tail(run.todo) /\ run'.results = run.results
         /\ run'.reg \in [Ids -> Records]
         /\ run'.reg[E.id].type = E.type /\ run'.reg[E.id].deck = deck
         /\ run'.reg[E.id].hash = EntryHash(E, E.type)
         /\ \A j \in Ids : j # E.id => run'.reg[j] = run.reg[j]
         /\ run'.doomed = run.doomed /\ run'.clean = (run.clean /\ clean)
<1>1. run \in Runs /\ SyncInv /\ ~Idling
  BY DEF Running, SyncInv, SyncTypes
<1>2. E \in Entries /\ EntryHash(E, E.type) \in Hashes /\ EntryHash(E, E.type).type = E.type
  BY <1>1, EntryFacts, NewTyped DEF Entries
<1>3. PICK path \in {"in", "out"} : path = IF run.adopt THEN "in" ELSE run.reg[E.id].path
  BY <1>1 DEF Runs, Records
<1>4. PICK hash \in Hashes : hash = EntryHash(E, E.type) /\ hash.type = E.type
  BY <1>2
<1>5. /\ Put(E.id, path, deck, hash) \in [Ids -> Records]
      /\ Put(E.id, path, deck, hash)[E.id] = Entry(hash.type, path, deck, hash)
      /\ \A j \in Ids : j # E.id => Put(E.id, path, deck, hash)[j] = run.reg[j]
  BY <1>1, PutTyped DEF Runs
<1>6. PICK reg \in [Ids -> Records] :
         /\ reg = Put(E.id, path, deck, hash)
         /\ reg[E.id] = Entry(hash.type, path, deck, hash)
         /\ \A j \in Ids : j # E.id => reg[j] = run.reg[j]
  BY <1>5
<1>7. PICK c \in BOOLEAN : c = (run.clean /\ clean)
  BY <1>1 DEF Runs
<1>8. run' = [Next_(run) EXCEPT !.reg = reg, !.clean = c]
  BY <1>3, <1>4, <1>6, <1>7, Zenon DEF Updated
<1>9. /\ run' \in Runs /\ SameRun(run') /\ run'.stage = "entry"
      /\ run'.todo = Tail(run.todo) /\ run'.results = run.results /\ run'.reg = reg
      /\ run'.doomed = run.doomed /\ run'.clean = c
  BY <1>8, NextFields DEF Runs, SameRun
<1> QED
  BY <1>4, <1>6, <1>7, <1>9 DEF Entry


LEMMA AddTruth ==
  ASSUME Recording, NEW o \in Outcomes, AddNote(o)
  PROVE  TruthInv' /\ HandInv'
<1>1. /\ run.todo # <<>> /\ run.kind = "sync" /\ run.stage \in {"entry", "add"}
      /\ run \in Runs /\ RunInv /\ SyncInv /\ ~Idling /\ Running /\ Stepping
      /\ registry' = registry /\ FreeIds \in Nat
  BY RecordingFacts, SteppingFacts DEF AddNote, AtEntry, RunInv, StageInv
<1>2. /\ E \in Entries /\ E.type \in Types /\ New(E, E.type) \in Cards
      /\ New(E, E.type).type \in Types /\ EntryHash(E, E.type) \in Hashes
      /\ EntryHash(E, E.type).type = E.type /\ E.deck \in Places
  BY <1>1, EntryFacts, NewTyped DEF Entries, Places
<1>3. FreeIds >= 1
  <2>1. Len(run.todo) \in Nat \ {0}
    BY <1>1, EntryFacts
  <2>2. Len(run.todo) <= FreeIds
    BY <1>1 DEF RunInv, RoomInv, Deleting
  <2> QED
    BY <1>1, <2>1, <2>2
<1>4. CASE o = "ok"
  <2>1. /\ notes' = [notes EXCEPT ![Fresh] = New(E, E.type)]
        /\ run' = [Next_(run) EXCEPT
                      !.reg = Put(Fresh, "in", E.deck, EntryHash(E, E.type)),
                      !.results = run.results \cup {[n |-> E.n, id |-> Fresh]},
                      !.added = run.added \cup {Fresh}]
    BY <1>4 DEF AddNote, Effect
  <2>2. /\ NotesStep /\ Fresh \in Ids /\ notes[Fresh].type = "never"
        /\ notes'[Fresh] = New(E, E.type)
        /\ \A i \in Ids : i # Fresh => notes'[i] = notes[i]
    BY <1>1, <1>2, <1>3, <2>1, AddedStep
  <2>3. PICK f \in Ids : f = Fresh
    BY <2>2
  <2>4. PICK reg \in [Ids -> Records] :
           /\ reg = Put(f, "in", E.deck, EntryHash(E, E.type))
           /\ reg[f] = Entry(E.type, "in", E.deck, EntryHash(E, E.type))
           /\ \A j \in Ids : j # f => reg[j] = run.reg[j]
    BY <1>1, <1>2, <2>3, PutTyped DEF Runs
  <2>5. run'.reg = reg /\ run'.stage = "entry" /\ run'.kind = "sync"
    <3>1. PICK results \in SUBSET [n : Nat \ {0}, id : Ids] :
             results = run.results \cup {[n |-> E.n, id |-> f]}
      <4>1. E.n \in Nat \ {0} /\ run.results \in SUBSET [n : Nat \ {0}, id : Ids]
        BY <1>1, <1>2 DEF Runs, Entries
      <4>2. [n |-> E.n, id |-> f] \in [n : Nat \ {0}, id : Ids]
        BY <4>1
      <4> QED
        BY <4>1, <4>2, Zenon
    <3>2. PICK added \in SUBSET Ids : added = run.added \cup {f}
      BY <1>1 DEF Runs
    <3>3. run' = [Next_(run) EXCEPT !.reg = reg, !.results = results, !.added = added]
      BY <2>1, <2>3, <2>4, <3>1, <3>2
    <3> QED
      BY <1>1, <3>3, AddedFields DEF SameRun
  <2>6. Kinds
    BY <2>2 DEF Kinds
  <2>7. Known(run.reg)'
    <3> SUFFICES ASSUME NEW i \in Ids, run'.reg[i].type # "none"
                 PROVE  /\ notes'[i].type # "never"
                        /\ notes'[i].type \in Types => run'.reg[i].type = notes'[i].type
      BY DEF Known, Exists, Ids
    <3>1. CASE i = f
      BY <1>2, <2>2, <2>3, <2>4, <2>5, <3>1, NewTyped DEF Entry, Types
    <3>2. CASE i # f
      BY <2>2, <2>3, <2>4, <2>5, <3>2, RecordingFacts DEF Known, Exists
    <3> QED
      BY <3>1, <3>2
  <2>8. ASSUME NEW i \in Ids, Exists(i)', i \notin loose'
        PROVE  TrueOf(run.reg, i)'
    <3>1. i \notin loose
      BY <1>1, <2>8, SteppingFacts
    <3>2. CASE i = f
      BY <2>2, <2>3, <2>4, <2>5, <3>2 DEF TrueOf, Content, New, EntryHash, Entry
    <3>3. CASE i # f
      <4>1. notes'[i] = notes[i] /\ run'.reg[i] = run.reg[i]
        BY <2>2, <2>3, <2>4, <2>5, <3>3
      <4>2. i \in Live /\ ~Writing(i)
        BY <1>1, <2>8, <4>1 DEF Live, Exists, Writing
      <4>3. TrueOf(run.reg, i)
        BY <3>1, <4>2, RecordingFacts
      <4> QED
        BY <4>1, <4>3, TrueStays
    <3> QED
      BY <3>2, <3>3
  <2>9. TruthInv'
    BY <1>1, <2>2, <2>5, <2>6, <2>7, <2>8, TruthAfter
  <2>10. HandInv'
    BY <2>5 DEF HandInv, Deleting
  <2> QED
    BY <2>9, <2>10
<1>5. CASE o # "ok"
  <2>1. notes' = notes \/ notes' = [notes EXCEPT ![Fresh] = New(E, E.type)]
    BY DEF AddNote
  <2>2. run'.reg = run.reg /\ run'.stage = "entry"
    BY <1>1, <1>5, FailedFields DEF AddNote
  <2> QED
    BY <1>1, <1>2, <1>3, <2>1, <2>2, PassTruth
<1> QED
  BY <1>4, <1>5

LEMMA QueryTruth ==
  ASSUME Recording, NEW o \in Outcomes, QueryNote(o)
  PROVE  TruthInv' /\ HandInv'
<1>1. /\ run.todo # <<>> /\ run.kind = "sync" /\ run.stage = "entry"
      /\ run \in Runs /\ SyncInv /\ ~Idling /\ Stepping
      /\ registry' = registry /\ notes' = notes
  BY RecordingFacts DEF QueryNote, AtEntry
<1>2. NotesStep /\ Kinds
  BY <1>1, SameNotes DEF Kinds
<1>3. Clean(o) \in BOOLEAN
  BY <1>1 DEF Clean, Runs
<1>4. /\ run'.reg = run.reg /\ run'.todo = run.todo
      /\ \/ run'.stage = "add"
         \/ run'.stage = "update" /\ run'.adopt /\ Adoptable(E)
  <2>1. CASE o = "ok" /\ Adoptable(E)
    BY <1>1, <2>1 DEF QueryNote, Runs
  <2>2. CASE ~(o = "ok" /\ Adoptable(E))
    BY <1>1, <1>3, <2>2 DEF QueryNote, Runs
  <2> QED
    BY <2>1, <2>2
<1>5. Known(run.reg)'
  BY <1>2, <1>4, RecordingFacts, KnownStays
<1>6. ASSUME NEW i \in Ids, Exists(i)', i \notin loose' PROVE TrueOf(run.reg, i)'
  <2>1. i \in Live \ loose /\ ~Writing(i)
    BY <1>1, <1>6, SteppingFacts DEF Live, Exists, Writing
  <2> QED
    BY <1>1, <1>4, <2>1, RecordingFacts, TrueStays
<1>7. TruthInv'
  BY <1>1, <1>2, <1>4, <1>5, <1>6, TruthAfter
<1>8. HandInv'
  <2>1. E' = E
    BY <1>4 DEF E
  <2> QED
    BY <1>1, <1>4, <2>1 DEF HandInv, Deleting, Adoptable, Exists
<1> QED
  BY <1>7, <1>8

\* The note of the entry in hand was added once, and may be gone.
LEMMA HandFacts ==
  ASSUME Recording, run.stage \in {"update", "tags", "move"}
  PROVE  /\ run.todo # <<>> /\ run.kind = "sync" /\ E \in Entries /\ E.id \in Ids
         /\ E.deck \in Places /\ notes[E.id].type # "never"
         /\ Exists(E.id) => notes[E.id].type = E.type
<1>1. run.todo # <<>> /\ run.kind = "sync" /\ E.id # NoId /\ Stepping
  BY RecordingFacts DEF RunInv, StageInv
<1>2. E \in Entries /\ E.id \in Ids /\ E.deck \in Places
  BY <1>1, InHand
<1>3. notes[E.id].type # "never"
  BY <1>1, RecordingFacts, EntryFacts DEF SyncInv, HeadingsInv, MadeOf
<1>4. Exists(E.id) => notes[E.id].type = E.type
  BY DEF Recording, HandInv
<1> QED
  BY <1>1, <1>2, <1>3, <1>4

\* What a request about the note of the entry in hand may leave of the notes.
Wrote ==
  \/ notes' = notes
  \/ notes' = [notes EXCEPT ![E.id].text = E.text, ![E.id].link = E.link]
  \/ notes' = [notes EXCEPT ![E.id].tags = E.text]
  \/ notes' = [notes EXCEPT ![E.id].deck = E.deck]

LEMMA WroteFacts ==
  ASSUME Recording, Wrote, E \in Entries, E.id \in Ids
  PROVE  /\ NotesStep /\ Kinds
         /\ \A j \in Ids : notes'[j].type = notes[j].type /\ (Exists(j)' <=> Exists(j))
         /\ \A j \in Ids : j # E.id => notes'[j] = notes[j]
<1>1. notes \in [Ids -> Cards] /\ SyncInv
  BY RecordingFacts
<1>2. /\ notes' \in [Ids -> Cards]
      /\ \A j \in Ids : notes'[j].type = notes[j].type /\ notes'[j].from = notes[j].from
  BY <1>1, WrittenNotes DEF Wrote
<1>3. NotesStep
  BY <1>1, <1>2, ChangedStep
<1>4. \A j \in Ids : j # E.id => notes'[j] = notes[j]
  BY <1>1 DEF Wrote
<1> QED
  BY <1>2, <1>3, <1>4 DEF Kinds, Exists

\* A note that is not in hand is as true as it was.
LEMMA OthersTrue ==
  ASSUME Recording, Wrote, run.todo # <<>>, E \in Entries, E.id \in Ids, NEW i \in Ids, i # E.id,
         Exists(i)', i \notin loose', run'.reg[i] = run.reg[i]
  PROVE  TrueOf(run.reg, i)'
<1>1. i \in Live /\ notes'[i] = notes[i]
  BY WroteFacts DEF Live
<1>2. i \notin Recorded
  BY DEF Recorded
<1>3. i \notin loose /\ ~Writing(i)
  BY <1>2, NotLoose, RecordingFacts DEF Writing
<1>4. TrueOf(run.reg, i)
  BY <1>1, <1>3, RecordingFacts
<1> QED
  BY <1>1, <1>4, TrueStays

LEMMA FailTruth ==
  ASSUME Recording, run.todo # <<>>, run.stage \in {"entry", "update", "tags"},
         E \in Entries, E.id \in Ids, Wrote, registry' = registry,
         faults' # faults \/ ~Exists(E.id),
         run' = [Next_(run) EXCEPT !.clean = FALSE]
  PROVE  TruthInv' /\ HandInv'
<1>1. NotesStep /\ Kinds /\ \A j \in Ids : Exists(j)' <=> Exists(j)
  BY WroteFacts
<1>2. run'.reg = run.reg /\ run'.stage = "entry"
  BY RecordingFacts, FailedFields
<1>3. Known(run.reg)'
  BY <1>1, <1>2, RecordingFacts, KnownStays
<1>4. ASSUME NEW i \in Ids, Exists(i)', i \notin loose'
      PROVE  TrueOf(run.reg, i)'
  <2>1. CASE i = E.id
    <3>1. i \in Live /\ faults' # faults
      BY <1>1, <1>4, <2>1 DEF Live
    <3>2. i \in Loosened /\ i \notin Recorded
      BY <2>1, <3>1 DEF Loosened, Unanswered, Abandoned, Recorded
    <3> QED
      BY <1>4, <3>2, NotLoose, RecordingFacts
  <2>2. CASE i # E.id
    BY <1>2, <1>4, <2>2, OthersTrue
  <2> QED
    BY <2>1, <2>2
<1>5. TruthInv'
  BY <1>1, <1>2, <1>3, <1>4, TruthAfter
<1>6. HandInv'
  BY <1>2 DEF HandInv, Deleting
<1> QED
  BY <1>5, <1>6

\* The request after which the run records the note of the entry in hand.
LEMMA UpdatedTruth ==
  ASSUME Recording, run.stage \in {"tags", "move"}, Wrote, registry' = registry,
         NEW deck \in Places, NEW clean \in BOOLEAN, run' = Updated(deck, clean),
         Exists(E.id) /\ E.id \notin loose' =>
            /\ notes'[E.id].text = E.text /\ notes'[E.id].tags = E.text
            /\ notes'[E.id].link = E.link /\ notes'[E.id].deck = E.deck /\ deck = E.deck
  PROVE  TruthInv' /\ HandInv'
<1>1. /\ run.todo # <<>> /\ run.kind = "sync" /\ E \in Entries /\ E.id \in Ids
      /\ notes[E.id].type # "never" /\ (Exists(E.id) => notes[E.id].type = E.type)
  BY HandFacts
<1>2. /\ NotesStep /\ Kinds
      /\ \A j \in Ids : notes'[j].type = notes[j].type /\ (Exists(j)' <=> Exists(j))
      /\ \A j \in Ids : j # E.id => notes'[j] = notes[j]
  BY <1>1, WroteFacts
<1>3. /\ run'.stage = "entry"
      /\ run'.reg[E.id].type = E.type /\ run'.reg[E.id].deck = deck
      /\ run'.reg[E.id].hash = EntryHash(E, E.type)
      /\ \A j \in Ids : j # E.id => run'.reg[j] = run.reg[j]
  BY <1>1, RecordingFacts, UpdatedFields
<1>4. Known(run.reg)'
  <2> SUFFICES ASSUME NEW i \in Ids, run'.reg[i].type # "none"
               PROVE  /\ notes'[i].type # "never"
                      /\ notes'[i].type \in Types => run'.reg[i].type = notes'[i].type
    BY DEF Known, Exists, Ids
  <2>1. CASE i = E.id
    BY <1>1, <1>2, <1>3, <2>1 DEF Exists
  <2>2. CASE i # E.id
    BY <1>2, <1>3, <2>2, RecordingFacts DEF Known, Exists
  <2> QED
    BY <2>1, <2>2
<1>5. ASSUME NEW i \in Ids, Exists(i)', i \notin loose'
      PROVE  TrueOf(run.reg, i)'
  <2>1. CASE i = E.id
    <3>1. /\ notes'[i].text = E.text /\ notes'[i].tags = E.text
          /\ notes'[i].link = E.link /\ notes'[i].deck = E.deck /\ deck = E.deck
          /\ notes'[i].type = E.type
      BY <1>1, <1>2, <1>5, <2>1
    <3>2. run'.reg[i].deck = deck /\ run'.reg[i].hash = EntryHash(E, E.type)
      BY <1>3, <2>1
    <3>3. Content(i)' = EntryHash(E, E.type)
      BY <1>1, <3>1 DEF Content, EntryHash, Hash, Entries
    <3> QED
      BY <3>1, <3>2, <3>3 DEF TrueOf
  <2>2. CASE i # E.id
    BY <1>1, <1>3, <1>5, <2>2, OthersTrue
  <2> QED
    BY <2>1, <2>2
<1>6. TruthInv'
  BY <1>2, <1>3, <1>4, <1>5, TruthAfter
<1>7. HandInv'
  BY <1>3 DEF HandInv, Deleting
<1> QED
  BY <1>6, <1>7

LEMMA FieldsTruth ==
  ASSUME Recording, NEW o \in Outcomes, UpdateFields(o)
  PROVE  TruthInv' /\ HandInv'
<1>1. /\ run.todo # <<>> /\ run.kind = "sync" /\ run.stage \in {"entry", "update"}
      /\ run \in Runs /\ SyncInv /\ ~Idling /\ Running /\ Stepping /\ notes \in [Ids -> Cards]
      /\ registry' = registry
  BY RecordingFacts DEF UpdateFields, AtEntry, RunInv, StageInv
<1>2. E.id # NoId
  <2>1. CASE run.stage = "update"
    BY <2>1, RecordingFacts DEF RunInv, StageInv
  <2>2. CASE Decision(E) = "update"
    BY <2>2, DecisionFacts
  <2> QED
    BY <2>1, <2>2 DEF UpdateFields
<1>3. E \in Entries /\ E.id \in Ids
  BY <1>1, <1>2, InHand
<1>4. Wrote
  BY DEF UpdateFields, Wrote
<1>5. CASE o = "ok" /\ Exists(E.id)
  <2>1. /\ run' = [run EXCEPT !.stage = "tags"]
        /\ notes' = [notes EXCEPT ![E.id].text = E.text, ![E.id].link = E.link]
    BY <1>5 DEF UpdateFields, Effect
  <2>2. /\ run'.reg = run.reg /\ run'.stage = "tags" /\ run'.todo = run.todo
        /\ run'.kind = "sync" /\ run'.adopt = run.adopt
    BY <1>1, <2>1 DEF Runs
  <2>3. /\ NotesStep /\ Kinds
        /\ \A j \in Ids : notes'[j].type = notes[j].type /\ (Exists(j)' <=> Exists(j))
    BY <1>3, <1>4, WroteFacts
  <2>4. Known(run.reg)'
    BY <2>2, <2>3, RecordingFacts, KnownStays
  <2>5. E' = E
    BY <2>2 DEF E
  <2>6. ASSUME NEW i \in Ids, Exists(i)', i \notin loose'
        PROVE  Writing(i)' \/ TrueOf(run.reg, i)'
    <3>1. CASE i = E.id
      BY <2>2, <2>5, <3>1 DEF Writing
    <3>2. CASE i # E.id
      BY <1>1, <1>3, <1>4, <2>2, <2>6, <3>2, OthersTrue
    <3> QED
      BY <3>1, <3>2
  <2>7. TruthInv'
    BY <1>1, <2>2, <2>3, <2>4, <2>6, TruthAfter
  <2>8. notes[E.id].type = E.type
    <3>1. CASE run.stage = "update"
      BY <1>5, <3>1, HandFacts
    <3>2. CASE Decision(E) = "update"
      <4>1. run.reg[E.id].type # "none" /\ run.reg[E.id].type = E.type
        BY <3>2 DEF Decision
      <4> QED
        BY <1>3, <1>5, <4>1, RecordingFacts DEF Known
    <3> QED
      BY <3>1, <3>2 DEF UpdateFields
  <2>9. /\ notes'[E.id].text = E.text /\ notes'[E.id].link = E.link
        /\ notes'[E.id].type = E.type /\ notes'[E.id].deck = notes[E.id].deck
    BY <1>1, <1>3, <2>1, <2>3, <2>8 DEF Cards
  <2>10. ~run.adopt /\ E.id \notin loose' => notes[E.id].deck = run.reg[E.id].deck
    <3>1. SUFFICES ASSUME ~run.adopt, E.id \notin loose'
                   PROVE  notes[E.id].deck = run.reg[E.id].deck
      OBVIOUS
    <3>2. Decision(E) = "update"
      BY <3>1 DEF UpdateFields, Recording, HandInv
    <3>3. run.reg[E.id].type # "none"
      BY <3>2 DEF Decision
    <3>4. E.id \in Live \ loose /\ ~Writing(E.id)
      BY <1>1, <1>3, <1>5, <3>1, SteppingFacts DEF Live, Writing
    <3>5. TrueOf(run.reg, E.id)
      BY <3>4, RecordingFacts
    <3> QED
      BY <3>3, <3>5 DEF TrueOf
  <2>11. HandInv'
    BY <2>2, <2>5, <2>9, <2>10 DEF HandInv, Deleting
  <2> QED
    BY <2>7, <2>11
<1>6. CASE ~(o = "ok" /\ Exists(E.id))
  <2>1. run' = [Next_(run) EXCEPT !.clean = FALSE]
    BY <1>6 DEF UpdateFields
  <2>2. faults' # faults \/ ~Exists(E.id)
    BY <1>1, <1>6, OutcomeFacts DEF UpdateFields
  <2> QED
    BY <1>1, <1>3, <1>4, <2>1, <2>2, FailTruth
<1> QED
  BY <1>5, <1>6

\* What is known of the note in hand once its fields are written.
LEMMA WritingFacts ==
  ASSUME Recording, run.stage \in {"tags", "move"}, Exists(E.id)
  PROVE  /\ notes[E.id].link = E.link /\ notes[E.id].type = E.type
         /\ notes[E.id].text = E.text
              \/ (notes[E.id].text \in {"user", "late"} /\ E.id \in loose)
         /\ run.stage = "move" => notes[E.id].tags = E.text
         /\ ~run.adopt /\ E.id \notin loose => notes[E.id].deck = run.reg[E.id].deck
BY DEF Recording, HandInv

LEMMA TagsTruth ==
  ASSUME Recording, NEW o \in Outcomes, UpdateTags(o)
  PROVE  TruthInv' /\ HandInv'
<1>1. /\ run.todo # <<>> /\ run.kind = "sync" /\ run.stage = "tags"
      /\ E \in Entries /\ E.id \in Ids /\ E.deck \in Places
      /\ run \in Runs /\ SyncInv /\ ~Idling /\ Running /\ Stepping /\ notes \in [Ids -> Cards]
      /\ registry' = registry
  BY RecordingFacts, HandFacts DEF UpdateTags
<1>2. Wrote
  BY DEF UpdateTags, Wrote
<1>3. /\ NotesStep /\ Kinds
      /\ \A j \in Ids : notes'[j].type = notes[j].type /\ (Exists(j)' <=> Exists(j))
  BY <1>1, <1>2, WroteFacts
<1>4. CASE o # "ok" \/ ~Exists(E.id)
  <2>1. run' = [Next_(run) EXCEPT !.clean = FALSE]
    BY <1>4 DEF UpdateTags
  <2>2. faults' # faults \/ ~Exists(E.id)
    BY <1>1, <1>4, OutcomeFacts DEF UpdateTags
  <2> QED
    BY <1>1, <1>2, <2>1, <2>2, FailTruth
<1>5. ASSUME o = "ok", Exists(E.id)
      PROVE  /\ notes' = [notes EXCEPT ![E.id].tags = E.text]
             /\ notes'[E.id].tags = E.text /\ notes'[E.id].text = notes[E.id].text
             /\ notes'[E.id].link = notes[E.id].link /\ notes'[E.id].deck = notes[E.id].deck
  <2>1. notes' = [notes EXCEPT ![E.id].tags = E.text]
    BY <1>5 DEF UpdateTags, Effect
  <2> QED
    BY <1>1, <2>1 DEF Cards
<1>6. CASE o = "ok" /\ Exists(E.id) /\ (run.adopt \/ run.reg[E.id].deck # E.deck)
  <2>1. run' = [run EXCEPT !.stage = "move"]
    BY <1>6 DEF UpdateTags
  <2>2. /\ run'.reg = run.reg /\ run'.stage = "move" /\ run'.todo = run.todo
        /\ run'.kind = "sync" /\ run'.adopt = run.adopt
    BY <1>1, <2>1 DEF Runs
  <2>3. E' = E
    BY <2>2 DEF E
  <2>4. Known(run.reg)'
    BY <1>3, <2>2, RecordingFacts, KnownStays
  <2>5. ASSUME NEW i \in Ids, Exists(i)', i \notin loose'
        PROVE  Writing(i)' \/ TrueOf(run.reg, i)'
    <3>1. CASE i = E.id
      BY <2>2, <2>3, <3>1 DEF Writing
    <3>2. CASE i # E.id
      BY <1>1, <1>2, <2>2, <2>5, <3>2, OthersTrue
    <3> QED
      BY <3>1, <3>2
  <2>6. TruthInv'
    BY <1>1, <1>3, <2>2, <2>4, <2>5, TruthAfter
  <2>7. E.id \in loose' <=> E.id \in loose
    <3>1. E.id \in Live /\ E.id \notin Recorded
      BY <1>1, <1>6, <2>2 DEF Live, Recorded
    <3>2. faults' = faults
      BY <1>1, <1>6, OutcomeFacts DEF UpdateTags
    <3>3. E.id \notin Loosened
      BY <1>1, <1>6, <2>2, <3>1, <3>2 DEF Loosened, Unanswered, Abandoned
    <3> QED
      BY <1>1, <3>1, <3>3 DEF Stepping
  <2>8. HandInv'
    BY <1>1, <1>3, <1>5, <1>6, <2>2, <2>3, <2>7, WritingFacts DEF HandInv, Deleting
  <2> QED
    BY <2>6, <2>8
<1>7. CASE o = "ok" /\ Exists(E.id) /\ ~(run.adopt \/ run.reg[E.id].deck # E.deck)
  <2>1. run' = Updated(E.deck, TRUE) /\ run.reg[E.id].deck = E.deck /\ ~run.adopt
    BY <1>7 DEF UpdateTags
  <2>2. ASSUME E.id \notin loose'
        PROVE  notes[E.id].text = E.text /\ notes[E.id].deck = E.deck
    <3>1. CASE E.id \in Recorded
      <4>1. notes[E.id].text \notin {"user", "late"} /\ notes[E.id].deck = run.reg[E.id].deck
        BY <1>1, <3>1 DEF Recorded
      <4> QED
        BY <1>1, <1>7, <2>1, <4>1, WritingFacts
    <3>2. CASE E.id \notin loose
      BY <1>1, <1>7, <2>1, <3>2, WritingFacts
    <3> QED
      BY <1>1, <2>2, <3>1, <3>2, NotLoose
  <2>3. TRUE \in BOOLEAN
    OBVIOUS
  <2>4. Exists(E.id) /\ E.id \notin loose' =>
            /\ notes'[E.id].text = E.text /\ notes'[E.id].tags = E.text
            /\ notes'[E.id].link = E.link /\ notes'[E.id].deck = E.deck /\ E.deck = E.deck
    BY <1>1, <1>5, <1>7, <2>2, WritingFacts
  <2> QED
    BY <1>1, <1>2, <2>1, <2>3, <2>4, UpdatedTruth
<1> QED
  BY <1>4, <1>6, <1>7

LEMMA MoveTruth ==
  ASSUME Recording, NEW o \in Outcomes, MoveDeck(o)
  PROVE  TruthInv' /\ HandInv'
<1>1. /\ run.todo # <<>> /\ run.kind = "sync" /\ run.stage = "move"
      /\ E \in Entries /\ E.id \in Ids /\ E.deck \in Places
      /\ run \in Runs /\ SyncInv /\ ~Idling /\ Running /\ Stepping /\ notes \in [Ids -> Cards]
      /\ registry' = registry
  BY RecordingFacts, HandFacts DEF MoveDeck
<1>2. Wrote
  BY DEF MoveDeck, Moved, Wrote
<1>3. PICK deck \in Places : deck = IF o = "ok" \/ run.adopt THEN E.deck ELSE run.reg[E.id].deck
  BY <1>1 DEF Runs, Records
<1>4. PICK clean \in BOOLEAN : clean = (o = "ok")
  OBVIOUS
<1>5. run' = Updated(deck, clean)
  BY <1>3, <1>4 DEF MoveDeck
<1>6. ASSUME Exists(E.id), E.id \notin loose'
      PROVE  /\ notes'[E.id].text = E.text /\ notes'[E.id].tags = E.text
             /\ notes'[E.id].link = E.link /\ notes'[E.id].deck = E.deck /\ deck = E.deck
  <2>1. E.id \in Live
    BY <1>1, <1>6 DEF Live
  <2>2. o = "ok"
    <3>1. CASE faults' # faults
      BY <1>1, <1>6, <2>1, <3>1, NotLoose DEF Loosened, Unanswered, Abandoned, Recorded
    <3> QED
      BY <1>1, <3>1, OutcomeFacts DEF MoveDeck
  <2>3. notes' = [notes EXCEPT ![E.id].deck = E.deck] /\ deck = E.deck
    BY <1>3, <1>6, <2>2 DEF MoveDeck, Effect, Moved
  <2>4. /\ notes'[E.id].deck = E.deck /\ notes'[E.id].text = notes[E.id].text
        /\ notes'[E.id].link = notes[E.id].link /\ notes'[E.id].tags = notes[E.id].tags
    BY <1>1, <2>3 DEF Cards
  <2>5. notes[E.id].text = E.text
    <3>1. CASE E.id \in Recorded
      BY <1>1, <1>6, <3>1, WritingFacts DEF Recorded
    <3>2. CASE E.id \notin loose
      BY <1>1, <1>6, <3>2, WritingFacts
    <3> QED
      BY <1>1, <1>6, <3>1, <3>2, NotLoose
  <2> QED
    BY <1>1, <1>6, <2>3, <2>4, <2>5, WritingFacts
<1> QED
  BY <1>1, <1>2, <1>5, <1>6, UpdatedTruth

LEMMA RefreshedFields ==
  ASSUME run \in Runs
  PROVE  /\ Refreshed \in [Ids -> Records]
         /\ \A i \in Ids : /\ Refreshed[i].type = run.reg[i].type
                           /\ Refreshed[i].deck = run.reg[i].deck
                           /\ Refreshed[i].hash = run.reg[i].hash
                           /\ SeenAt(i) = {} => Refreshed[i].path = run.reg[i].path
<1>1. \A i \in Ids : run.reg[i] \in Records
  BY DEF Runs
<1>2. \A i \in Ids : SeenAt(i) # {} => (CHOOSE p \in SeenAt(i) : TRUE) \in {"in", "out"}
  <2>1. \A i \in Ids : SeenAt(i) \subseteq {"in", "out"}
    BY DEF SeenAt, Runs
  <2> QED
    BY <2>1
<1>3. ASSUME NEW i \in Ids
      PROVE  /\ Refreshed[i] \in Records
             /\ Refreshed[i].type = run.reg[i].type
             /\ Refreshed[i].deck = run.reg[i].deck
             /\ Refreshed[i].hash = run.reg[i].hash
             /\ SeenAt(i) = {} => Refreshed[i].path = run.reg[i].path
  BY <1>1, <1>2, <1>3 DEF Refreshed, Records
<1>4. Refreshed \in [Ids -> Records]
  BY <1>3 DEF Refreshed
<1> QED
  BY <1>3, <1>4

LEMMA ReconcileFields ==
  ASSUME Stepping, Reconcile
  PROVE  /\ run' \in Runs /\ SameRun(run') /\ run'.reg = Refreshed
         /\ run'.todo = run.todo /\ run'.results = run.results /\ run'.clean = run.clean
         /\ run'.doomed = (IF run.complete THEN Candidates(Refreshed) ELSE {})
         /\ run'.stage = (IF run'.doomed = {} THEN "save" ELSE "confirm")
<1>1. run \in Runs
  BY SteppingFacts
<1>2. PICK reg \in [Ids -> Records] : reg = Refreshed
  BY <1>1, RefreshedFields
<1>3. PICK cs \in SUBSET Ids : cs = IF run.complete THEN Candidates(Refreshed) ELSE {}
  BY DEF Candidates, Registered
<1>4. PICK stage \in {"save", "confirm"} : stage = IF cs = {} THEN "save" ELSE "confirm"
  OBVIOUS
<1>5. run' = [run EXCEPT !.reg = reg, !.doomed = cs, !.stage = stage]
  BY <1>2, <1>3, <1>4 DEF Reconcile
<1>6. /\ run' \in Runs /\ SameRun(run') /\ run'.reg = reg
      /\ run'.todo = run.todo /\ run'.results = run.results /\ run'.clean = run.clean
      /\ run'.doomed = cs /\ run'.stage = stage
  BY <1>1, <1>5 DEF Runs, SameRun
<1> QED
  BY <1>2, <1>3, <1>4, <1>6

\* What a run knows when it has deleted the notes `removed'.
LEMMA DeletedFields ==
  ASSUME Stepping, Deleting, NEW removed, NEW clean \in BOOLEAN,
         run' = AfterDelete(removed, clean)
  PROVE  /\ run' \in Runs /\ SameRun(run') /\ run'.doomed = {} /\ run'.clean = clean
         /\ run.kind = "sync" =>
               /\ run'.stage = "save" /\ run'.todo = run.todo /\ run'.results = run.results
               /\ \A i \in Ids :
                     run'.reg[i] = IF i \in removed THEN Unregistered ELSE run.reg[i]
         /\ run.kind = "migrate" =>
               /\ run.todo # <<>> /\ run.fresh \in Ids /\ run'.stage = "entry"
               /\ run'.todo = Tail(run.todo)
               /\ run'.reg[run.fresh] = Entry("own", "in", E.deck, LinklessHash(E, "own"))
               /\ \A i \in Ids : i # run.fresh => run'.reg[i] \in {Unregistered, run.reg[i]}
<1>1. run \in Runs /\ RunInv /\ SyncInv /\ ~Idling /\ Running
  BY SteppingFacts DEF Stepping
<1>2. Unregistered \in Records
  BY DEF Unregistered, Records, Hash, Hashes, Words, Places
<1>3. Removed(removed) \in [Ids -> Records]
  BY <1>1, <1>2 DEF Removed, Runs
<1>4. PICK reg \in [Ids -> Records] : reg = Removed(removed)
  BY <1>3
<1>5. \A i \in Ids : reg[i] = IF i \in removed THEN Unregistered ELSE run.reg[i]
  BY <1>4 DEF Removed
<1>6. CASE run.kind = "sync"
  <2>1. run' = [run EXCEPT !.stage = "save", !.doomed = {}, !.reg = reg, !.clean = clean]
    BY <1>4, <1>6 DEF AfterDelete
  <2>2. /\ run' \in Runs /\ SameRun(run') /\ run'.doomed = {} /\ run'.clean = clean
        /\ run'.stage = "save" /\ run'.todo = run.todo /\ run'.results = run.results
        /\ run'.reg = reg
    BY <1>1, <2>1 DEF Runs, SameRun
  <2> QED
    BY <1>5, <1>6, <2>2
<1>7. CASE run.kind = "migrate"
  <2>1. run.todo # <<>> /\ run.fresh \in Ids
    BY <1>1, <1>7 DEF RunInv, DoomedInv, Replaced, MadeOf
  <2>2. E \in Entries /\ LinklessHash(E, "own") \in Hashes
    BY <1>1, <2>1, EntryFacts, NewTyped DEF Types
  <2>3. PICK new \in Records : new = Entry("own", "in", E.deck, LinklessHash(E, "own"))
    BY <2>2 DEF Entry, Records, Types, Entries, Places
  <2>4. PICK f \in Ids : f = run.fresh
    BY <2>1
  <2>5. PICK reg2 \in [Ids -> Records] :
           /\ reg2 = [reg EXCEPT ![E.id] = Unregistered, ![f] = new]
           /\ reg2[f] = new
           /\ \A i \in Ids : i # f => reg2[i] \in {Unregistered, reg[i]}
    <3>1. PICK r1 \in [Ids -> Records] :
             /\ r1 = [reg EXCEPT ![E.id] = Unregistered]
             /\ \A i \in Ids : r1[i] \in {Unregistered, reg[i]}
      BY <1>2
    <3>2. PICK r2 \in [Ids -> Records] :
             /\ r2 = [r1 EXCEPT ![f] = new]
             /\ r2[f] = new
             /\ \A i \in Ids : i # f => r2[i] = r1[i]
      <4>1. /\ [r1 EXCEPT ![f] = new] \in [Ids -> Records]
            /\ [r1 EXCEPT ![f] = new][f] = new
            /\ \A i \in Ids : i # f => [r1 EXCEPT ![f] = new][i] = r1[i]
        OBVIOUS
      <4> QED
        BY <4>1
    <3> QED
      BY <3>1, <3>2
  <2>6. PICK res \in SUBSET [n : Nat \ {0}, id : Ids] :
           res = run.results \cup {[n |-> E.n, id |-> f]}
    <3>1. E.n \in Nat \ {0} /\ run.results \in SUBSET [n : Nat \ {0}, id : Ids]
      BY <1>1, <2>2 DEF Runs, Entries
    <3>2. [n |-> E.n, id |-> f] \in [n : Nat \ {0}, id : Ids]
      BY <3>1
    <3> QED
      BY <3>1, <3>2, Zenon
  <2>7. run' = [Next_(run) EXCEPT !.doomed = {}, !.clean = clean, !.reg = reg2, !.results = res]
    BY <1>4, <1>7, <2>3, <2>4, <2>5, <2>6 DEF AfterDelete
  <2>8. /\ run' \in Runs /\ SameRun(run') /\ run'.doomed = {} /\ run'.clean = clean
        /\ run'.stage = "entry" /\ run'.todo = Tail(run.todo) /\ run'.reg = reg2
    <3>1. /\ Next_(run) \in Runs
          /\ Next_(run).stage = "entry" /\ Next_(run).todo = Tail(run.todo)
          /\ SameRun(Next_(run))
      BY <1>1, <2>1, NextFields DEF SameRun
    <3> QED
      BY <2>7, <3>1 DEF Runs, SameRun
  <2> QED
    BY <1>5, <1>7, <2>1, <2>3, <2>4, <2>5, <2>8
<1> QED
  BY <1>1, <1>6, <1>7 DEF Runs

LEMMA ReconcileTruth ==
  ASSUME Recording, Reconcile
  PROVE  TruthInv' /\ HandInv'
<1>1. /\ run \in Runs /\ SyncInv /\ ~Idling /\ Stepping /\ run.stage = "entry"
      /\ run.kind = "sync" /\ registry' = registry /\ notes' = notes
  BY RecordingFacts DEF Reconcile
<1>2. NotesStep /\ Kinds
  BY <1>1, SameNotes DEF Kinds
<1>3. /\ run'.stage \in {"save", "confirm"} /\ run'.kind = "sync"
      /\ \A i \in Ids : /\ run'.reg[i].type = run.reg[i].type
                        /\ run'.reg[i].deck = run.reg[i].deck
                        /\ run'.reg[i].hash = run.reg[i].hash
  BY <1>1, ReconcileFields, RefreshedFields DEF SameRun
<1>4. Known(run.reg)'
  BY <1>2, <1>3, RecordingFacts, KnownStays
<1>5. ASSUME NEW i \in Ids, Exists(i)', i \notin loose' PROVE TrueOf(run.reg, i)'
  <2>1. i \in Live \ loose /\ ~Writing(i)
    BY <1>1, <1>5, SteppingFacts DEF Live, Exists, Writing
  <2> QED
    BY <1>1, <1>3, <2>1, RecordingFacts, TrueStays
<1>6. TruthInv'
  BY <1>1, <1>2, <1>3, <1>4, <1>5, TruthAfter
<1> QED
  BY <1>3, <1>6 DEF HandInv, Deleting

LEMMA DeletedTruth ==
  ASSUME Recording, Deleting, NEW removed, NEW clean \in BOOLEAN, registry' = registry,
         run' = AfterDelete(removed, clean), NotesStep, Kinds,
         \A i \in Ids : Exists(i)' => notes'[i] = notes[i]
  PROVE  TruthInv' /\ HandInv'
<1>1. /\ run \in Runs /\ RunInv /\ SyncInv /\ ~Idling /\ Stepping /\ Running
      /\ run.stage \in {"confirm", "delete"}
  BY RecordingFacts DEF Deleting
<1>2. run'.stage \in {"save", "entry"} /\ run'.kind = run.kind /\ run.kind \in {"sync", "migrate"}
  BY <1>1, DeletedFields DEF SameRun, Runs
<1>3. ASSUME NEW i \in Ids, Exists(i)', i \notin loose'
      PROVE  i \in Live \ loose /\ TrueOf(run.reg, i) /\ notes'[i] = notes[i]
  <2>1. i \in Live \ loose /\ ~Writing(i) /\ notes'[i] = notes[i]
    BY <1>1, <1>3, SteppingFacts DEF Live, Exists, Writing
  <2> QED
    BY <2>1, RecordingFacts
<1>4. Unregistered.type = "none"
  BY DEF Unregistered
<1>5. CASE run.kind = "sync"
  <2>1. \A i \in Ids : run'.reg[i] \in {Unregistered, run.reg[i]}
    BY <1>1, <1>5, DeletedFields
  <2>2. Known(run.reg)'
    BY <1>4, <2>1, RecordingFacts, KnownStays
  <2>3. ASSUME NEW i \in Ids, Exists(i)', i \notin loose' PROVE TrueOf(run.reg, i)'
    <3>1. CASE run'.reg[i] = Unregistered
      BY <1>4, <3>1 DEF TrueOf
    <3>2. CASE run'.reg[i] = run.reg[i]
      BY <1>3, <2>3, <3>2, TrueStays
    <3> QED
      BY <2>1, <3>1, <3>2
  <2> QED
    BY <1>2, <2>2, <2>3, TruthAfter DEF HandInv, Deleting
<1>6. CASE run.kind = "migrate"
  <2>1. PICK f \in Ids :
           /\ f = run.fresh
           /\ run'.reg[f] = Entry("own", "in", E.deck, LinklessHash(E, "own"))
           /\ \A i \in Ids : i # f => run'.reg[i] \in {Unregistered, run.reg[i]}
    BY <1>1, <1>6, DeletedFields
  <2>2. run.todo # <<>> /\ MadeOf(f, E.name) /\ (Exists(f) => notes[f].type = "own")
    BY <1>1, <1>6, <2>1 DEF RunInv, DoomedInv, Deleting, Replaced
  <2>3. E \in Entries
    BY <1>1, <2>2, EntryFacts
  <2>4. Known(run.reg)'
    <3> SUFFICES ASSUME NEW i \in Ids, run'.reg[i].type # "none"
                 PROVE  /\ notes'[i].type # "never"
                        /\ notes'[i].type \in Types => run'.reg[i].type = notes'[i].type
      BY DEF Known, Exists, Ids
    <3>1. CASE i = f
      BY <2>1, <2>2, <3>1 DEF Entry, MadeOf, Kinds, NotesStep, Exists, Types
    <3>2. CASE i # f
      <4>1. run'.reg[i] = run.reg[i]
        BY <1>4, <2>1, <3>2
      <4>2. notes[i].type # "never" /\ (Exists(i) => run.reg[i].type = notes[i].type)
        BY <4>1, RecordingFacts DEF Known
      <4> QED
        BY <4>1, <4>2 DEF Exists, Kinds, NotesStep, Types
    <3> QED
      BY <3>1, <3>2
  <2>5. ASSUME NEW i \in Ids, Exists(i)', i \notin loose' PROVE TrueOf(run.reg, i)'
    <3>1. CASE i = f
      <4>1. i \in Live \ loose /\ notes'[i] = notes[i]
        BY <1>3, <2>5
      <4>2. notes[i] = New([E EXCEPT !.link = FALSE], "own")
        BY <1>6, <2>1, <3>1, <4>1 DEF Recording, HandInv
      <4>3. /\ notes[i].type = "own" /\ notes[i].text = E.text /\ notes[i].tags = E.text
            /\ notes[i].link = FALSE /\ notes[i].deck = E.deck
        BY <2>3, <4>2 DEF New, Entries
      <4>4. Content(i)' = LinklessHash(E, "own") /\ notes'[i].deck = E.deck
        BY <4>1, <4>3 DEF Content, LinklessHash, Hash
      <4>5. run'.reg[i].deck = E.deck /\ run'.reg[i].hash = LinklessHash(E, "own")
        BY <2>1, <3>1 DEF Entry
      <4> QED
        BY <4>4, <4>5 DEF TrueOf
    <3>2. CASE i # f /\ run'.reg[i] = Unregistered
      BY <1>4, <3>2 DEF TrueOf
    <3>3. CASE i # f /\ run'.reg[i] = run.reg[i]
      BY <1>3, <2>5, <3>3, TrueStays
    <3> QED
      BY <2>1, <3>1, <3>2, <3>3
  <2>6. run'.stage = "entry"
    BY <1>1, <1>6, DeletedFields
  <2>7. TruthInv'
    BY <1>2, <2>4, <2>5, TruthAfter
  <2> QED
    BY <2>6, <2>7 DEF HandInv, Deleting
<1> QED
  BY <1>2, <1>5, <1>6

LEMMA ConfirmFields ==
  ASSUME Stepping, NEW o \in Outcomes, Confirm(o)
  PROVE  \/ /\ o = "ok" /\ run' \in Runs /\ SameRun(run') /\ run'.stage = "delete"
            /\ run'.todo = run.todo /\ run'.reg = run.reg /\ run'.results = run.results
            /\ run'.doomed = {i \in run.doomed : Owned(i)} /\ run'.doomed # {}
            /\ run'.fresh = run.fresh /\ run'.clean = run.clean
         \/ /\ run' = AfterDelete({}, Clean(o)) /\ Clean(o) \in BOOLEAN
            /\ o = "ok" => {i \in run.doomed : Owned(i)} = {}
<1>1. run \in Runs
  BY SteppingFacts
<1>2. PICK cs \in SUBSET Ids : cs = {i \in run.doomed : Owned(i)}
  BY <1>1 DEF Runs
<1>3. CASE o = "ok" /\ cs # {}
  <2>1. run' = [run EXCEPT !.stage = "delete", !.doomed = cs]
    BY <1>2, <1>3 DEF Confirm
  <2> QED
    BY <1>1, <1>2, <1>3, <2>1 DEF Runs, SameRun
<1>4. CASE ~(o = "ok" /\ cs # {})
  BY <1>1, <1>2, <1>4 DEF Confirm, Clean, Runs
<1> QED
  BY <1>3, <1>4

LEMMA ConfirmTruth ==
  ASSUME Recording, NEW o \in Outcomes, Confirm(o)
  PROVE  TruthInv' /\ HandInv'
<1>1. /\ run.stage = "confirm" /\ Deleting
      /\ run \in Runs /\ RunInv /\ SyncInv /\ ~Idling /\ Running /\ Stepping
      /\ registry' = registry /\ notes' = notes
  BY RecordingFacts DEF Confirm, Deleting
<1>2. NotesStep /\ Kinds
  BY <1>1, SameNotes DEF Kinds
<1>3. CASE run' = AfterDelete({}, Clean(o)) /\ Clean(o) \in BOOLEAN
  BY <1>1, <1>2, <1>3, DeletedTruth
<1>4. CASE /\ run'.stage = "delete" /\ run'.todo = run.todo /\ run'.reg = run.reg
           /\ run'.fresh = run.fresh /\ SameRun(run')
  <2>1. Known(run.reg)'
    BY <1>2, <1>4, RecordingFacts, KnownStays
  <2>2. \A i \in Ids : i \notin loose' => i \notin loose
    BY <1>1, SteppingFacts
  <2>3. ASSUME NEW i \in Ids, Exists(i)', i \notin loose' PROVE TrueOf(run.reg, i)'
    <3>1. i \in Live \ loose /\ ~Writing(i)
      BY <1>1, <2>2, <2>3 DEF Live, Exists, Writing
    <3> QED
      BY <1>1, <1>4, <3>1, RecordingFacts, TrueStays
  <2>4. TruthInv'
    BY <1>1, <1>2, <1>4, <2>1, <2>3, TruthAfter
  <2>5. ASSUME run.kind = "migrate", run'.fresh \in (Live \ loose)'
        PROVE  notes'[run'.fresh] = New([E' EXCEPT !.link = FALSE], "own")
    <3>1. run.fresh \in Live \ loose
      BY <1>1, <1>4, <2>2, <2>5 DEF Live, Exists, Ids
    <3>2. notes[run.fresh] = New([E EXCEPT !.link = FALSE], "own")
      BY <1>1, <2>5, <3>1 DEF Recording, HandInv
    <3>3. E' = E
      BY <1>4 DEF E
    <3> QED
      BY <1>1, <1>4, <3>2, <3>3
  <2>6. HandInv'
    BY <1>4, <2>5 DEF HandInv, SameRun, New
  <2> QED
    BY <2>4, <2>6
<1> QED
  BY <1>1, <1>3, <1>4, ConfirmFields

\* The request to delete takes notes away and does nothing else.
LEMMA GoneNotes ==
  ASSUME Stepping, NEW o \in Outcomes, DeleteNotes(o)
  PROVE  /\ NotesStep /\ Kinds
         /\ \A i \in Ids : Exists(i)' => notes'[i] = notes[i] /\ Exists(i)
         /\ o = "ok" => \A i \in run.doomed : ~Exists(i)'
<1>1. /\ run \in Runs /\ SyncInv /\ notes \in [Ids -> Cards]
  BY SteppingFacts
<1>2. Gone \in Cards /\ Gone.type = "gone" /\ Gone.from = 0
  BY GoneTyped
<1>3. CASE Effect(o)
  <2>1. notes' = [i \in Ids |-> IF i \in run.doomed /\ Exists(i) THEN Gone ELSE notes[i]]
    BY <1>3 DEF DeleteNotes
  <2>2. notes' \in [Ids -> Cards]
    BY <1>1, <1>2, <2>1
  <2>3. \A i \in Ids : notes'[i] = notes[i] \/ (notes'[i] = Gone /\ notes[i].type \in Types)
    BY <2>1 DEF Exists
  <2>4. NotesStep
    BY <1>1, <1>2, <2>2, <2>3 DEF NotesStep, SyncInv, GoneInv, Exists, Types
  <2>5. Kinds
    BY <1>2, <2>3 DEF Kinds, Types
  <2>6. \A i \in Ids : Exists(i)' => notes'[i] = notes[i] /\ Exists(i)
    BY <1>2, <2>3 DEF Exists, Types
  <2>7. \A i \in run.doomed : ~Exists(i)'
    <3>1. run.doomed \subseteq Ids
      BY <1>1 DEF Runs
    <3> QED
      BY <1>2, <2>1, <3>1 DEF Exists, Types
  <2> QED
    BY <2>4, <2>5, <2>6, <2>7
<1>4. CASE ~Effect(o)
  <2>1. notes' = notes /\ o # "ok"
    BY <1>4 DEF DeleteNotes, Effect
  <2> QED
    BY <1>1, <2>1, SameNotes DEF Kinds, Exists
<1> QED
  BY <1>3, <1>4

LEMMA DeleteTruth ==
  ASSUME Recording, NEW o \in Outcomes, DeleteNotes(o)
  PROVE  TruthInv' /\ HandInv'
<1>1. /\ run.stage = "delete" /\ Deleting /\ run \in Runs /\ Stepping /\ registry' = registry
  BY RecordingFacts DEF DeleteNotes, Deleting
<1>2. PICK removed : run' = AfterDelete(removed, Clean(o))
  BY DEF DeleteNotes
<1>3. Clean(o) \in BOOLEAN
  BY <1>1 DEF Clean, Runs
<1> QED
  BY <1>1, <1>2, <1>3, GoneNotes, DeletedTruth

LEMMA MigrateAddTruth ==
  ASSUME Recording, NEW o \in Outcomes, MigrateAdd(o)
  PROVE  TruthInv' /\ HandInv'
<1>1. /\ run.todo # <<>> /\ run.kind = "migrate" /\ run.stage = "entry"
      /\ run \in Runs /\ RunInv /\ SyncInv /\ ~Idling /\ Running /\ Stepping
      /\ FreeIds \in Nat /\ registry' = registry
  BY RecordingFacts, SteppingFacts DEF MigrateAdd, AtEntry
<1>2. E \in Entries /\ E.id \in Ids
  <2>1. E.id # NoId
    BY DEF MigrateAdd, Migrates
  <2> QED
    BY <1>1, <2>1, InHand
<1>3. FreeIds >= 1
  <2>1. Len(run.todo) \in Nat \ {0}
    BY <1>1, EntryFacts
  <2>2. Len(run.todo) <= FreeIds
    BY <1>1 DEF RunInv, RoomInv, Deleting
  <2> QED
    BY <1>1, <2>1, <2>2
<1>4. PICK c \in Cards : c = New([E EXCEPT !.link = FALSE], "own") /\ c.type \in Types
  <2>1. [E EXCEPT !.link = FALSE] \in Entries
    BY <1>2 DEF Entries
  <2> QED
    BY <2>1, NewTyped DEF Types
<1>5. notes' = IF Effect(o) THEN [notes EXCEPT ![Fresh] = c] ELSE notes
  BY <1>4 DEF MigrateAdd
<1>6. CASE o = "ok"
  <2>1. /\ NotesStep /\ Fresh \in Ids /\ notes[Fresh].type = "never" /\ notes'[Fresh] = c
        /\ \A i \in Ids : i # Fresh => notes'[i] = notes[i]
    BY <1>1, <1>3, <1>4, <1>5, <1>6, AddedStep DEF Effect
  <2>2. PICK f \in Ids : f = Fresh
    BY <2>1
  <2>3. /\ run'.todo = run.todo /\ run'.stage = "confirm" /\ run'.reg = run.reg
        /\ run'.kind = run.kind /\ run'.fresh = f
    <3>1. f \in 0 .. MaxNotes
      BY PlannerAssumption DEF Ids
    <3>2. run.added \cup {f} \in SUBSET Ids /\ {E.id} \in SUBSET Ids
      BY <1>1, <1>2 DEF Runs
    <3>3. run' = [run EXCEPT !.stage = "confirm", !.fresh = f, !.doomed = {E.id},
                             !.added = run.added \cup {f}]
      BY <1>6, <2>2 DEF MigrateAdd
    <3> QED
      BY <1>1, <3>1, <3>2, <3>3 DEF Runs
  <2>4. Kinds
    BY <2>1 DEF Kinds
  <2>5. Known(run.reg)'
    BY <2>1, <2>3, <2>4, RecordingFacts, KnownStays
  <2>6. ASSUME NEW i \in Ids, Exists(i)', i \notin loose' PROVE TrueOf(run.reg, i)'
    <3>1. CASE i = f
      <4>1. run.reg[f].type = "none"
        BY <2>1, <2>2, RecordingFacts DEF Known
      <4> QED
        BY <2>3, <3>1, <4>1 DEF TrueOf
    <3>2. CASE i # f
      <4>1. notes'[i] = notes[i]
        BY <2>1, <2>2, <3>2
      <4>2. i \in Live \ loose /\ ~Writing(i)
        BY <1>1, <2>6, <4>1, SteppingFacts DEF Live, Exists, Writing
      <4> QED
        BY <2>3, <4>1, <4>2, RecordingFacts, TrueStays
    <3> QED
      BY <3>1, <3>2
  <2>7. TruthInv'
    BY <1>1, <2>1, <2>3, <2>4, <2>5, <2>6, TruthAfter
  <2>8. E' = E
    BY <2>3 DEF E
  <2>9. notes'[run'.fresh] = New([E' EXCEPT !.link = FALSE], "own")
    BY <1>4, <2>1, <2>2, <2>3, <2>8
  <2>10. HandInv'
    BY <2>3, <2>9 DEF HandInv, New
  <2> QED
    BY <2>7, <2>10
<1>7. CASE o # "ok"
  <2>1. run'.reg = run.reg /\ run'.stage = "entry"
    BY <1>1, <1>7, FailedFields DEF MigrateAdd
  <2> QED
    BY <1>1, <1>3, <1>4, <1>5, <2>1, PassTruth
<1> QED
  BY <1>6, <1>7

\* What a step that only ends a stage leaves of the run.
LEMMA SaveFields ==
  ASSUME Stepping, MigrationDone \/ \E o \in Outcomes : Save(o)
  PROVE  /\ run' \in Runs /\ SameRun(run') /\ run'.todo = run.todo /\ run'.reg = run.reg
         /\ run'.results = run.results /\ run'.doomed = run.doomed
         /\ run'.clean => run.clean
<1>1. run \in Runs
  BY SteppingFacts
<1>2. CASE MigrationDone
  BY <1>1, <1>2 DEF MigrationDone, Runs, SameRun
<1>3. CASE \E o \in Outcomes : Save(o)
  BY <1>1, <1>3 DEF Save, Runs, SameRun, Clean
<1> QED
  BY <1>2, <1>3

LEMMA EndTruth ==
  ASSUME Recording, MigrationDone
  PROVE  TruthInv' /\ HandInv'
<1>1. /\ Stepping /\ SyncInv /\ notes' = notes /\ registry' = registry
      /\ run'.reg = run.reg /\ run'.stage = "save" /\ run.stage = "entry"
  BY RecordingFacts, SaveFields DEF MigrationDone, Runs
<1>2. NotesStep /\ Kinds
  BY <1>1, SameNotes DEF Kinds
<1>3. Known(run.reg)'
  BY <1>1, <1>2, RecordingFacts, KnownStays
<1>4. ASSUME NEW i \in Ids, Exists(i)', i \notin loose' PROVE TrueOf(run.reg, i)'
  <2>1. i \in Live \ loose /\ ~Writing(i)
    BY <1>1, <1>4, SteppingFacts DEF Live, Exists, Writing
  <2> QED
    BY <1>1, <2>1, RecordingFacts, TrueStays
<1> QED
  BY <1>1, <1>2, <1>3, <1>4, TruthAfter DEF HandInv, Deleting

LEMMA SaveTruth ==
  ASSUME Recording, NEW o \in Outcomes, Save(o)
  PROVE  TruthInv' /\ HandInv'
<1>1. /\ Stepping /\ SyncInv /\ notes' = notes /\ run \in Runs
      /\ run'.reg = run.reg /\ run'.stage = "reply" /\ run.stage = "save"
  BY RecordingFacts, SaveFields DEF Save, Runs
<1>2. NotesStep /\ Kinds
  BY <1>1, SameNotes DEF Kinds
<1>3. Known(run.reg)'
  BY <1>1, <1>2, RecordingFacts, KnownStays
<1>4. Known(registry)' /\ (o = "ok" => registry' = run.reg) /\ (o # "ok" => registry' = registry)
  <2>1. CASE o = "ok"
    BY <1>1, <1>3, <2>1 DEF Save, Known, Exists
  <2>2. CASE o # "ok"
    BY <1>2, <2>2, RecordingFacts, RegistryKnownStays DEF Save
  <2> QED
    BY <2>1, <2>2 DEF Save
<1>5. ASSUME NEW i \in Ids, Exists(i)', i \notin loose' PROVE TrueOf(registry, i)'
  <2>1. i \in Live \ loose /\ ~Writing(i) /\ i \notin Loosened
    BY <1>1, <1>5, NotLoose DEF Live, Exists, Writing, Recorded
  <2>2. TrueOf(run.reg, i)
    BY <2>1, RecordingFacts
  <2>3. registry'[i] = run.reg[i]
    <3>1. CASE o = "ok"
      BY <1>4, <3>1
    <3>2. CASE o # "ok"
      <4>1. faults' # faults
        BY <1>1, <3>2, OutcomeFacts DEF Save
      <4>2. i \notin Unsaved
        BY <1>1, <2>1, <4>1 DEF Loosened, Unanswered, Abandoned
      <4> QED
        BY <1>4, <3>2, <4>2 DEF Unsaved
    <3> QED
      BY <3>1, <3>2
  <2> QED
    BY <1>1, <2>2, <2>3 DEF TrueOf, Content, Hash
<1>6. TruthInv'
  BY <1>1, <1>3, <1>4, <1>5 DEF TruthInv, Book, Live, Exists, Ids
<1> QED
  BY <1>1, <1>6 DEF HandInv, Deleting

LEMMA RunTruth ==
  ASSUME SyncInv, TruthInv, HandInv, RunStep
  PROVE  TruthInv' /\ HandInv'
<1>1. Recording /\ Stepping
  <2>1. run.stage \notin {"idle", "reply"}
    BY DEF RunStep, PlannerStep, SkipEntry, RefuseEntry, AddNote, QueryNote, UpdateFields,
       UpdateTags, MoveDeck, Reconcile, Confirm, DeleteNotes, SkipMigration, MigrateAdd,
       MigrationDone, Save, AtEntry
  <2> QED
    BY <2>1 DEF Recording, Stepping, Running, RunStep, Idling
<1>2. CASE SkipEntry \/ RefuseEntry \/ SkipMigration
  <2>1. /\ run.todo # <<>> /\ run.stage = "entry" /\ registry' = registry /\ notes' = notes
        /\ run' = Next_(run) \/ run' = [Next_(run) EXCEPT !.clean = FALSE]
    BY <1>2 DEF SkipEntry, RefuseEntry, SkipMigration, AtEntry
  <2>2. run'.reg = run.reg /\ run'.stage = "entry"
    BY <1>1, <2>1, RecordingFacts, NextFields, FailedFields
  <2> QED
    BY <1>1, <2>1, <2>2, PassTruth
<1> QED
  BY <1>1, <1>2, AddTruth, QueryTruth, FieldsTruth, TagsTruth, MoveTruth, ReconcileTruth,
     ConfirmTruth, DeleteTruth, MigrateAddTruth, EndTruth, SaveTruth DEF RunStep, PlannerStep

-----------------------------------------------------------------------------
\* The commands that start a run give it the registry and, a whole sync, the file.
Starts == Sync \/ SyncUnreadable \/ Setup

LEMMA StartsFields ==
  ASSUME SyncInv, Starts
  PROVE  /\ run' \in Runs /\ run'.stage = "entry" /\ run'.reg = registry
         /\ run'.pre = Registered(registry) /\ run'.results = {} /\ run'.doomed = {}
         /\ run'.adopt = FALSE /\ run'.clean = TRUE
         /\ Idling /\ UNCHANGED <<notes, registry, archive, loose>>
         /\ disk' \in Seq(Headings) /\ buffer' \in Seq(Headings)
         /\ ~Sync => run'.kind = "migrate" \/ ~run'.complete
         /\ Sync => /\ run'.kind = "sync" /\ run'.complete
                    /\ run'.sent = Sent(disk)' /\ run'.todo = Sent(disk)'
<1>1. /\ UNCHANGED <<notes, registry, archive, loose>> /\ Idling
      /\ registry \in [Ids -> Records] /\ archive \in SUBSET Ids
      /\ disk' \in Seq(Headings) /\ buffer' \in Seq(Headings)
  <2>1. SyncInv'
    BY StartsInv DEF Starts
  <2>2. disk' \in Seq(Headings) /\ buffer' \in Seq(Headings)
    BY <2>1 DEF SyncInv, SyncTypes
  <2>3. registry \in [Ids -> Records] /\ archive \in SUBSET Ids
    BY DEF SyncInv, SyncTypes
  <2>4. UNCHANGED <<notes, registry, archive, loose>> /\ Idling
    BY DEF Sync, SyncUnreadable, Setup, MayStart, Starts, files
  <2> QED
    BY <2>2, <2>3, <2>4
<1>2. /\ Sent(disk') \in Seq(Entries) /\ <<>> \in Seq(Entries) /\ TRUE \in BOOLEAN
      /\ FALSE \in BOOLEAN /\ Sent(disk)' = Sent(disk')
  BY <1>1, SentTyped DEF Sent, Links
<1>3. /\ Census(disk') \in SUBSET [id : Ids, path : {"in", "out"}]
      /\ Census(<<>>) \in SUBSET [id : Ids, path : {"in", "out"}]
  <2>1. <<>> \in Seq(Headings)
    OBVIOUS
  <2> QED
    BY <1>1, <2>1, CensusTyped
<1>4. CASE Sync
  <2>1. StartRun("sync", Sent(disk'), Census(disk'), TRUE)
    BY <1>4 DEF Sync
  <2> QED
    BY <1>1, <1>2, <1>3, <1>4, <2>1, StartFields
<1>5. CASE SyncUnreadable /\ ~Sync
  <2>1. StartRun("sync", <<>>, Census(<<>>), FALSE)
    BY <1>5 DEF SyncUnreadable
  <2> QED
    BY <1>1, <1>2, <1>3, <1>5, <2>1, StartFields
<1>6. CASE Setup /\ ~Sync
  <2>1. StartRun("migrate", Sent(disk'), Census(disk'), TRUE)
    BY <1>6 DEF Setup, files, Census, Named, Sent, Links
  <2> QED
    BY <1>1, <1>2, <1>3, <1>6, <2>1, StartFields
<1> QED
  BY <1>4, <1>5, <1>6 DEF Starts

\* While no process runs the registry file is the record.
LEMMA RestTruth ==
  ASSUME TruthInv, run.stage \in {"idle", "reply"}
  PROVE  \A i \in Live \ loose : TrueOf(registry, i)
BY DEF TruthInv, Book, Writing

LEMMA StartTruth ==
  ASSUME SyncInv, TruthInv, Starts
  PROVE  TruthInv' /\ HandInv'
<1>1. /\ run'.stage = "entry" /\ run'.reg = registry /\ Idling
      /\ notes' = notes /\ registry' = registry /\ loose' = loose
  BY StartsFields
<1>2. \A i \in Live \ loose : TrueOf(registry, i)
  BY <1>1, RestTruth DEF Idling
<1>3. Known(registry)' /\ Known(run.reg)'
  BY <1>1 DEF TruthInv, Known, Exists
<1>4. \A i \in (Live \ loose)' : TrueOf(Book, i)'
  BY <1>1, <1>2 DEF Live, Exists, Book, TrueOf, Content, Hash
<1> QED
  BY <1>1, <1>3, <1>4 DEF TruthInv, HandInv, Deleting

\* The registry file stays, or is lost, while no process runs.
LEMMA CommandTruth ==
  ASSUME TruthInv, Idling, UNCHANGED <<notes, run, loose>>,
         registry' = registry \/ registry' = [i \in Ids |-> Unregistered]
  PROVE  TruthInv' /\ HandInv'
<1>1. notes' = notes /\ run' = run /\ loose' = loose /\ Unregistered.type = "none"
  BY DEF Unregistered
<1>2. \A i \in Live \ loose : TrueOf(registry, i)
  BY RestTruth DEF Idling
<1>3. Known(registry)'
  BY <1>1 DEF TruthInv, Known, Exists
<1>4. \A i \in (Live \ loose)' : TrueOf(registry, i)'
  BY <1>1, <1>2 DEF Live, Exists, TrueOf, Content, Hash
<1> QED
  BY <1>1, <1>3, <1>4 DEF TruthInv, HandInv, Deleting, Idling, Book

LEMMA WriteBackTruth ==
  ASSUME TruthInv, WriteBack
  PROVE  TruthInv' /\ HandInv'
<1>1. /\ run.stage = "reply" /\ notes' = notes /\ registry' = registry /\ loose \subseteq loose'
      /\ run'.stage = "idle"
  BY DEF WriteBack, Idle
<1>2. \A i \in Live \ loose : TrueOf(registry, i)
  BY <1>1, RestTruth
<1>3. Known(registry)'
  BY <1>1 DEF TruthInv, Known, Exists
<1>4. \A i \in (Live \ loose)' : TrueOf(registry, i)'
  BY <1>1, <1>2 DEF Live, Exists, TrueOf, Content, Hash
<1> QED
  BY <1>1, <1>3, <1>4 DEF TruthInv, HandInv, Deleting, Idling, Book

\* What a killed run knew and had not saved is loose.
LEMMA KillTruth ==
  ASSUME SyncInv, TruthInv, Kill
  PROVE  TruthInv' /\ HandInv'
<1>1. /\ ~Idling /\ notes' = notes /\ registry' = registry /\ loose \subseteq loose'
      /\ Unsaved \subseteq loose' /\ run'.stage = "idle"
      /\ run.todo # <<>> => {E.id} \cap Ids \subseteq loose'
  BY DEF Kill, Idle
<1>2. Known(registry)'
  BY <1>1 DEF TruthInv, Known, Exists
<1>3. ASSUME NEW i \in Ids, Exists(i)', i \notin loose' PROVE TrueOf(registry, i)'
  <2>1. i \in Live \ loose /\ registry[i] = run.reg[i]
    BY <1>1, <1>3 DEF Live, Exists, Unsaved
  <2>2. TrueOf(registry, i)
    <3>1. CASE run.stage = "reply"
      BY <2>1, <3>1, RestTruth
    <3>2. CASE run.stage # "reply"
      <4>1. ~Writing(i)
        <5>1. SUFFICES ASSUME run.stage \in {"tags", "move"}, i = E.id PROVE FALSE
          BY DEF Writing
        <5>2. run.todo # <<>>
          BY <1>1, <5>1 DEF SyncInv, RunInv, StageInv
        <5> QED
          BY <1>1, <1>3, <5>1, <5>2
      <4>2. TrueOf(run.reg, i)
        BY <1>1, <2>1, <3>2, <4>1 DEF TruthInv, Book, Idling
      <4> QED
        BY <2>1, <4>2 DEF TrueOf
    <3> QED
      BY <3>1, <3>2
  <2> QED
    BY <1>1, <2>2 DEF TrueOf, Content, Hash
<1>4. \A i \in (Live \ loose)' : TrueOf(registry, i)'
  BY <1>3 DEF Live, Exists, Ids
<1> QED
  BY <1>1, <1>2, <1>4 DEF TruthInv, HandInv, Deleting, Idling, Book

\* A note that the user of Anki changes is loose from then on.
LEMMA UserStep ==
  ASSUME SyncInv, EditNote \/ DeleteNote
  PROVE  /\ UNCHANGED <<registry, run, files, settled>> /\ loose \subseteq loose'
         /\ \E i \in Ids : /\ Exists(i) /\ \A j \in Ids : j # i => notes'[j] = notes[j]
                           /\ notes'[i] = notes[i] \/ i \in loose'
                           /\ \/ notes'[i].type = "gone"
                              \/ /\ notes'[i].type = notes[i].type
                                 /\ notes'[i].tags = notes[i].tags
                                 /\ notes'[i].link = notes[i].link
                                 /\ notes'[i].deck = notes[i].deck
                                 /\ notes'[i].text \in {"user", "late"}
<1>1. notes \in [Ids -> Cards] /\ notes' \in [Ids -> Cards]
  BY CollectionInv DEF SyncInv, SyncTypes
<1>2. CASE EditNote
  <2>1. PICK t \in {"user", "late"} : t = IF run.stage = "delete" THEN "late" ELSE "user"
    OBVIOUS
  <2>2. PICK i \in Live : notes' = [notes EXCEPT ![i].text = t]
    BY <1>2, <2>1 DEF EditNote
  <2>3. i \in Ids /\ Exists(i) /\ notes[i] \in Cards
    BY <1>1, <2>2 DEF Live
  <2>4. notes'[i] = [notes[i] EXCEPT !.text = t] /\ \A j \in Ids : j # i => notes'[j] = notes[j]
    BY <1>1, <2>2, <2>3
  <2>5. /\ notes'[i].type = notes[i].type /\ notes'[i].tags = notes[i].tags
        /\ notes'[i].link = notes[i].link /\ notes'[i].deck = notes[i].deck
        /\ notes'[i].text = t
    BY <2>3, <2>4 DEF Cards
  <2>6. loose' = loose \cup {j \in Live : notes'[j] # notes[j]}
    BY <1>2 DEF EditNote
  <2>7. notes'[i] = notes[i] \/ i \in loose'
    BY <2>2, <2>6
  <2> QED
    BY <1>2, <2>1, <2>3, <2>4, <2>5, <2>6, <2>7 DEF EditNote
<1>3. CASE DeleteNote
  <2>1. PICK i \in Live : notes' = [notes EXCEPT ![i] = Gone] /\ loose' = loose \cup {i}
    BY <1>3 DEF DeleteNote
  <2>2. i \in Ids /\ Exists(i)
    BY <2>1 DEF Live
  <2>3. notes'[i].type = "gone" /\ \A j \in Ids : j # i => notes'[j] = notes[j]
    BY <1>1, <2>1, <2>2, GoneTyped
  <2> QED
    BY <1>3, <2>1, <2>2, <2>3 DEF DeleteNote
<1> QED
  BY <1>2, <1>3

LEMMA UserTruth ==
  ASSUME SyncInv, TruthInv, HandInv, EditNote \/ DeleteNote
  PROVE  TruthInv' /\ HandInv'
<1>1. run' = run /\ registry' = registry /\ loose \subseteq loose' /\ NotesStep
  BY UserStep, CollectionInv
<1>2. PICK i \in Ids :
         /\ Exists(i) /\ \A j \in Ids : j # i => notes'[j] = notes[j]
         /\ notes'[i] = notes[i] \/ i \in loose'
         /\ \/ notes'[i].type = "gone"
            \/ /\ notes'[i].type = notes[i].type /\ notes'[i].tags = notes[i].tags
               /\ notes'[i].link = notes[i].link /\ notes'[i].deck = notes[i].deck
               /\ notes'[i].text \in {"user", "late"}
  BY UserStep
<1>3. Kinds
  BY <1>2 DEF Kinds
<1>4. Known(registry)' /\ (~Idling' => Known(run.reg)')
  <2>1. Known(registry)'
    BY <1>1, <1>3, RegistryKnownStays DEF TruthInv
  <2>2. ASSUME ~Idling' PROVE Known(run.reg)'
    BY <1>1, <1>3, <2>2, KnownStays DEF TruthInv, Idling
  <2> QED
    BY <2>1, <2>2
<1>5. ASSUME NEW j \in Ids, Exists(j)', j \notin loose'
      PROVE  notes'[j] = notes[j] /\ j \in Live \ loose
  BY <1>1, <1>2, <1>5 DEF Live, Exists
<1>6. E' = E /\ Book' = Book
  BY <1>1 DEF E, Book
<1>7. \A j \in (Live \ loose)' : (Writing(j) \/ TrueOf(Book, j))'
  <2>1. SUFFICES ASSUME NEW j \in Ids, Exists(j)', j \notin loose'
                 PROVE  (Writing(j) \/ TrueOf(Book, j))'
    BY DEF Live, Exists, Ids
  <2>2. notes'[j] = notes[j] /\ (Writing(j) \/ TrueOf(Book, j))
    BY <1>5, <2>1 DEF TruthInv
  <2> QED
    BY <1>1, <1>6, <2>2 DEF Writing, TrueOf, Content, Hash
<1>8. TruthInv'
  BY <1>4, <1>7 DEF TruthInv
<1>9. ASSUME run.stage \in {"update", "tags", "move"} PROVE E.id \in Ids
  <2>1. ~Idling /\ RunInv
    BY <1>9 DEF SyncInv, Idling
  <2>2. run.todo # <<>> /\ E.id # NoId
    BY <1>9, <2>1 DEF RunInv, StageInv
  <2>3. E.id \in 0 .. MaxNotes
    BY <2>1, <2>2, EntryFacts DEF Entries
  <2> QED
    BY <2>2, <2>3, PlannerAssumption DEF Ids, NoId
<1>10. run.stage \in {"update", "tags", "move"} /\ Exists(E.id)' =>
         /\ Exists(E.id) /\ notes'[E.id].type = notes[E.id].type
         /\ notes'[E.id].tags = notes[E.id].tags /\ notes'[E.id].link = notes[E.id].link
         /\ notes'[E.id].deck = notes[E.id].deck
         /\ \/ notes'[E.id].text = notes[E.id].text
            \/ notes'[E.id].text \in {"user", "late"} /\ E.id \in loose'
  BY <1>2, <1>6, <1>9 DEF Exists, Types
<1>11. run'.kind = "migrate" /\ Deleting' /\ run'.fresh \in (Live \ loose)' =>
         notes'[run'.fresh] = New([E' EXCEPT !.link = FALSE], "own")
  <2>1. SUFFICES ASSUME run'.kind = "migrate", Deleting', run'.fresh \in (Live \ loose)'
                 PROVE  notes'[run'.fresh] = New([E' EXCEPT !.link = FALSE], "own")
    OBVIOUS
  <2>2. notes'[run'.fresh] = notes[run.fresh] /\ run.fresh \in Live \ loose
    BY <1>1, <1>5, <2>1 DEF Live, Exists, Ids
  <2> QED
    BY <1>1, <1>6, <2>1, <2>2 DEF HandInv, Deleting
<1>12. HandInv'
  BY <1>1, <1>6, <1>10, <1>11 DEF HandInv, New
<1> QED
  BY <1>8, <1>12

\* The records are true of the notes that are not loose, whatever happens.
LEMMA TruthNext ==
  ASSUME SyncInv, TruthInv, HandInv, [Next]_vars
  PROVE  TruthInv' /\ HandInv'
<1>1. CASE UNCHANGED vars
  <2>1. notes' = notes /\ run' = run /\ registry' = registry /\ loose' = loose
    BY <1>1 DEF vars
  <2>2. TruthInv'
    BY <2>1 DEF TruthInv, Known, Exists, Live, Book, TrueOf, Content, Hash, Writing, E, Idling
  <2>3. HandInv'
    BY <2>1 DEF HandInv, Exists, Live, E, Deleting, New
  <2> QED
    BY <2>2, <2>3
<1>2. CASE \/ EditHeading \/ InsertHeading \/ CopyHeading \/ ClearIds \/ RemoveHeading
           \/ ArchiveHeading \/ RemoveArchived \/ LoseRegistry \/ SaveBuffer
  BY <1>2, CommandTruth DEF EditHeading, InsertHeading, CopyHeading, ClearIds, RemoveHeading,
     ArchiveHeading, RemoveArchived, LoseRegistry, SaveBuffer, Command
<1> QED
  BY <1>1, <1>2, StartTruth, WriteBackTruth, UserTruth, KillTruth, RunTruth DEF Next, Starts

LEMMA TruthInit ==
  ASSUME Init
  PROVE  TruthInv /\ HandInv
BY DEF Init, PlannerInit, Never, Idle, Unregistered, TruthInv, HandInv, Known, Exists, Types,
   Live, Idling, Deleting

-----------------------------------------------------------------------------
(* A whole sync                                                            *)

\* Two headings with one identifier, and only those, are claimed.
LEMMA ClaimedTwice ==
  ASSUME run.sent = Sent(disk), disk \in Seq(Headings), NEW k \in DOMAIN disk
  PROVE  Claimed(disk[k].id) <=> \E l \in DOMAIN disk : l # k /\ disk[l].id = disk[k].id
<1> DEFINE S == {l \in DOMAIN run.sent : run.sent[l].id = disk[k].id}
<1>1. DOMAIN run.sent = DOMAIN disk /\ \A l \in DOMAIN disk : run.sent[l].id = disk[l].id
  BY DEF Sent
<1>2. S = {l \in DOMAIN disk : disk[l].id = disk[k].id}
  BY <1>1
<1>3. IsFiniteSet(S) /\ k \in S
  <2>1. IsFiniteSet(1 .. Len(disk)) /\ S \subseteq 1 .. Len(disk)
    <3>1. DOMAIN disk = 1 .. Len(disk) /\ Len(disk) \in Nat
      OBVIOUS
    <3> QED
      BY <1>2, <3>1, FS_Interval
  <2> QED
    BY <1>2, <2>1, FS_Subset
<1>4. Claimed(disk[k].id) <=> Cardinality(S) > 1
  BY DEF Claimed
<1> HIDE DEF S
<1>5. /\ IsFiniteSet(S \ {k}) /\ Cardinality(S \ {k}) = Cardinality(S) - 1
      /\ Cardinality(S) \in Nat /\ Cardinality(S \ {k}) \in Nat
  BY <1>3, FS_RemoveElement, FS_CardinalityType
<1>6. Cardinality(S \ {k}) = 0 <=> S \ {k} = {}
  BY <1>5, FS_EmptySet
<1> QED
  BY <1>2, <1>4, <1>5, <1>6

\* A whole sync that is under way and clean so far.
Syncing ==
  /\ Stepping /\ TruthInv /\ HandInv /\ Whole /\ OrderInv /\ NewInv
  /\ run.clean => DoneInv /\ GoneOrphans
  /\ run.stage # "reply"

LEMMA SyncingFacts ==
  ASSUME Syncing
  PROVE  /\ Recording /\ Stepping /\ Running /\ SyncInv /\ RunInv /\ ~Idling /\ run \in Runs
         /\ run.kind = "sync" /\ run.complete /\ OrderInv /\ NewInv
         /\ run.sent = Sent(disk) /\ disk \in Seq(Headings) /\ disk' = disk
         /\ buffer' = buffer /\ archive' = archive /\ Known(run.reg)
         /\ Len(run.todo) \in Nat /\ Len(disk) \in Nat /\ Len(run.todo) <= Len(disk)
         /\ DOMAIN disk = 1 .. Len(disk) /\ Through \subseteq DOMAIN disk
<1>1. Recording
  BY DEF Syncing, Recording
<1>2. /\ Stepping /\ Running /\ SyncInv /\ RunInv /\ ~Idling /\ run \in Runs
      /\ Known(run.reg) /\ disk' = disk
  BY <1>1, RecordingFacts
<1>3. /\ run.kind = "sync" /\ run.complete /\ OrderInv /\ NewInv /\ run.sent = Sent(disk)
      /\ Len(run.todo) <= Len(disk)
  BY DEF Syncing, Whole, OrderInv
<1>4. disk \in Seq(Headings) /\ run.todo \in Seq(Entries)
  BY <1>2 DEF SyncInv, SyncTypes, Runs
<1>5. Len(run.todo) \in Nat /\ Len(disk) \in Nat /\ DOMAIN disk = 1 .. Len(disk)
  BY <1>4
<1>6. Through \subseteq DOMAIN disk
  BY <1>5 DEF Through
<1>7. buffer' = buffer /\ archive' = archive
  BY <1>2 DEF Running, files
<1> QED
  BY <1>1, <1>2, <1>3, <1>4, <1>5, <1>6, <1>7

\* The entry in hand is the first heading the run is not through with.
LEMMA NextHeading ==
  ASSUME Syncing, run.todo # <<>>
  PROVE  /\ E \in Entries /\ E.n \in DOMAIN disk /\ E.n \notin Through
         /\ E = Sent(disk)[E.n] /\ E.id = disk[E.n].id
         /\ Len(Tail(run.todo)) = Len(run.todo) - 1
         /\ 1 .. Len(disk) - Len(Tail(run.todo)) = Through \cup {E.n}
         /\ Claimed(E.id) <=> \E l \in DOMAIN disk : l # E.n /\ disk[l].id = E.id
<1>1. /\ E \in Entries /\ E.n \in DOMAIN disk /\ E = Sent(disk)[E.n] /\ E.id = disk[E.n].id
      /\ Len(Tail(run.todo)) = Len(run.todo) - 1 /\ Len(run.todo) \in Nat \ {0}
  BY SyncingFacts, EntryFacts
<1>2. E = run.todo[1] /\ 1 \in DOMAIN run.todo
  <2>1. run.todo \in Seq(Entries)
    BY SyncingFacts DEF Runs
  <2> QED
    BY <1>1, <2>1 DEF E
<1>3. E.n = Len(disk) - Len(run.todo) + 1
  BY <1>2, SyncingFacts DEF OrderInv
<1>4. PICK a \in Nat, b \in Nat, n \in Nat :
         a = Len(disk) /\ b = Len(run.todo) /\ n = E.n /\ b <= a
  BY <1>1, SyncingFacts DEF Entries
<1>5. Through = 1 .. a - b /\ Len(Tail(run.todo)) = b - 1 /\ n = a - b + 1
  BY <1>1, <1>3, <1>4 DEF Through
<1>6. n \notin 1 .. a - b /\ 1 .. a - (b - 1) = (1 .. a - b) \cup {n}
  <2>0. a \in Nat /\ b \in Nat /\ b <= a
    BY <1>4
  <2>1. PICK c : c = a - b /\ c \in Nat
    BY <2>0
  <2>2. n = c + 1 /\ a - (b - 1) = c + 1
    BY <2>0, <1>5, <2>1
  <2>3. 1 .. c + 1 = (1 .. c) \cup {c + 1} /\ c + 1 \notin 1 .. c
    BY <2>1
  <2> QED
    BY <2>1, <2>2, <2>3
<1>7. Claimed(E.id) <=> \E l \in DOMAIN disk : l # E.n /\ disk[l].id = E.id
  <2>1. PICK m \in DOMAIN disk : m = E.n
    BY <1>1
  <2>2. Claimed(disk[m].id) <=> \E l \in DOMAIN disk : l # m /\ disk[l].id = disk[m].id
    BY ClaimedTwice, SyncingFacts
  <2> QED
    BY <1>1, <2>1, <2>2
<1> QED
  BY <1>1, <1>4, <1>5, <1>6, <1>7

\* The order is kept when an entry is dealt with, and within one.
LEMMA OrderStays ==
  ASSUME Syncing, SameRun(run'),
         \/ run'.todo = run.todo
         \/ run.todo # <<>> /\ run'.todo = Tail(run.todo) /\ run'.stage = "entry",
         run'.stage \in {"add", "update", "tags", "move"} =>
            run'.todo = run.todo /\ run.todo # <<>> /\ ~Claimed(E.id),
         run'.stage = "add" => E.id # NoId /\ run'.reg[E.id].type = "none",
         run'.stage \in {"confirm", "delete", "save", "reply"} => run.todo = <<>>
  PROVE  OrderInv'
<1>1. /\ disk' = disk /\ buffer' = buffer /\ run'.sent = run.sent /\ run'.sent = Sent(disk)'
      /\ \A i : Claimed(i)' <=> Claimed(i)
  BY SyncingFacts DEF SameRun, Sent, Links, Claimed
<1>2. /\ Len(run'.todo) <= Len(disk)
      /\ \A j \in DOMAIN run'.todo : run'.todo[j].n = Len(disk) - Len(run'.todo) + j
  <2>1. CASE run'.todo = run.todo
    BY <2>1, SyncingFacts DEF OrderInv
  <2>2. CASE run.todo # <<>> /\ run'.todo = Tail(run.todo)
    <3>1. run.todo \in Seq(Entries) /\ run.todo # <<>>
      BY <2>2, SyncingFacts DEF Runs
    <3>2. Len(run'.todo) = Len(run.todo) - 1 /\ Len(run.todo) \in Nat
      BY <2>2, NextHeading, SyncingFacts
    <3>3. \A j \in DOMAIN run'.todo :
             j \in Nat /\ j + 1 \in DOMAIN run.todo /\ run'.todo[j] = run.todo[j + 1]
      BY <2>2, <3>1
    <3>4. \A j \in DOMAIN run.todo : run.todo[j].n = Len(disk) - Len(run.todo) + j
      BY SyncingFacts DEF OrderInv
    <3>5. PICK a \in Nat, b \in Nat :
             a = Len(disk) /\ b = Len(run.todo) /\ b <= a /\ Len(run'.todo) = b - 1
      BY <3>2, SyncingFacts
    <3>6. ASSUME NEW j \in DOMAIN run'.todo PROVE run'.todo[j].n = a - (b - 1) + j
      <4>1. j \in Nat /\ run'.todo[j].n = a - b + (j + 1)
        BY <3>3, <3>4, <3>5
      <4>2. \A x, y, z \in Int : x - y + (z + 1) = x - (y - 1) + z
        OBVIOUS
      <4>3. a - b + (j + 1) = a - (b - 1) + j
        BY <4>1, <4>2
      <4> QED
        BY <4>1, <4>3
    <3>7. b - 1 <= a
      BY <3>5
    <3> QED
      BY <3>5, <3>6, <3>7
  <2> QED
    BY <2>1, <2>2
<1>3. \A k \in DOMAIN buffer' : buffer'[k].linked
  BY <1>1, SyncingFacts DEF OrderInv
<1>4. Final' => run'.todo = <<>>
  BY DEF Final
<1>5. run'.stage \in {"add", "update", "tags", "move"} => E' = E
  BY DEF E
<1> QED
  BY <1>1, <1>2, <1>3, <1>4, <1>5 DEF OrderInv

\* A heading the run was through with it stays through with, as long as its
\* record stays.
LEMMA DoneStays ==
  ASSUME Syncing, SameRun(run'), NEW k \in DOMAIN disk, DoneAt(k),
         run.results \subseteq run'.results,
         \A r \in run'.results : r.n = k => r \in run.results,
         \A i \in Ids : /\ run.reg[i].type # "none"
                        /\ \/ i = disk[k].id /\ ~Claimed(i)
                           \/ \E r \in run.results : r.n = k /\ r.id = i
                        => /\ run'.reg[i].type = run.reg[i].type
                           /\ run'.reg[i].hash = run.reg[i].hash
  PROVE  DoneAt(k)'
<1>1. PICK e : e = Sent(disk)[k]
  OBVIOUS
<1>2. Sent(disk)'[k] = e /\ e.id = disk[k].id /\ e.id \in 0 .. MaxNotes
  <2>1. disk[k] \in Headings /\ disk' = disk
    BY SyncingFacts
  <2> QED
    BY <1>1, <2>1 DEF Sent, Links, Headings
<1>3. \A i : Claimed(i)' <=> Claimed(i)
  BY DEF SameRun, Claimed
<1>4. CASE e.text \in Invalid
  BY <1>1, <1>2, <1>4 DEF DoneAt
<1>5. CASE e.id # NoId /\ Claimed(e.id)
  BY <1>1, <1>2, <1>3, <1>5 DEF DoneAt
<1>6. ASSUME NEW r \in run.results, r.n = k, Settles(run.reg, r.id, e) PROVE DoneAt(k)'
  <2>1. r.id \in Ids /\ run.reg[r.id].type # "none" /\ r \in run'.results
    BY <1>6, SyncingFacts DEF Runs, Settles
  <2>2. /\ run'.reg[r.id].type = run.reg[r.id].type
        /\ run'.reg[r.id].hash = run.reg[r.id].hash
    BY <1>6, <2>1
  <2>3. Settles(run'.reg, r.id, e)
    BY <1>6, <2>2 DEF Settles
  <2> QED
    BY <1>2, <1>6, <2>1, <2>3 DEF DoneAt, Settles, EntryHash, Hash
<1>7. CASE Settles(run.reg, e.id, e) /\ ResultOf(k) = {} /\ ~(e.id # NoId /\ Claimed(e.id))
  <2>1. e.id \in Ids /\ run.reg[e.id].type # "none"
    BY <1>2, <1>7, PlannerAssumption DEF Settles, Ids, NoId
  <2>2. /\ run'.reg[e.id].type = run.reg[e.id].type
        /\ run'.reg[e.id].hash = run.reg[e.id].hash
    BY <1>2, <1>7, <2>1 DEF Ids, NoId
  <2>3. Settles(run'.reg, e.id, e)
    BY <1>7, <2>2 DEF Settles
  <2>4. ResultOf(k)' = {}
    BY <1>7 DEF ResultOf
  <2> QED
    BY <1>2, <2>3, <2>4 DEF DoneAt, Settles, EntryHash, Hash
<1> QED
  BY <1>1, <1>4, <1>5, <1>6, <1>7 DEF DoneAt

\* No result is of a heading with the identifier of an entry still to come that
\* has it for itself.
LEMMA ResultsElsewhere ==
  ASSUME Syncing, run.todo # <<>>, ~Claimed(E.id)
  PROVE  /\ \A k \in Through : disk[k].id # E.id
         /\ \A r \in run.results : r.n \in Through /\ r.n # E.n /\ disk[r.n].id # E.id
<1>1. \A k \in Through : k \in DOMAIN disk /\ k # E.n /\ disk[k].id # E.id
  BY NextHeading, SyncingFacts
<1>2. \A r \in run.results : r.n \in Through
  BY SyncingFacts DEF NewInv
<1> QED
  BY <1>1, <1>2

LEMMA NewStays ==
  ASSUME Syncing, NotesStep, SameRun(run'), run'.results = run.results,
         run'.todo = run.todo \/ (run.todo # <<>> /\ run'.todo = Tail(run.todo)),
         run'.doomed \subseteq run.pre,
         Deleting' => \A i \in run'.doomed : run'.reg[i].path = "in",
         \A i \in Ids : run'.reg[i].type # "none" =>
            \/ run.reg[i].type # "none"
            \/ i \in Named(disk) /\ \A r \in run.results : disk[r.n].id # i
  PROVE  NewInv'
<1>1. /\ disk' = disk /\ run'.pre = run.pre /\ Named(disk)' = Named(disk)
      /\ ResultIds' = ResultIds /\ \A i : Claimed(i)' <=> Claimed(i)
  BY SyncingFacts DEF SameRun, Named, ResultIds, Claimed
<1>2. Through \subseteq Through'
  <2>1. CASE run'.todo = run.todo
    BY <1>1, <2>1 DEF Through
  <2>2. CASE run.todo # <<>> /\ run'.todo = Tail(run.todo)
    BY <1>1, <2>2, NextHeading DEF Through
  <2> QED
    BY <2>1, <2>2
<1>3. \A i \in run'.pre : notes'[i].type # "never"
  <2>1. \A i \in run.pre : i \in Ids /\ notes[i].type # "never"
    BY SyncingFacts DEF NewInv, Runs
  <2> QED
    BY <1>1, <2>1 DEF NotesStep
<1>4. Registered(run'.reg) \subseteq run'.pre \cup Named(disk)' \cup ResultIds'
  <2>1. Registered(run.reg) \subseteq run.pre \cup Named(disk) \cup ResultIds
    BY SyncingFacts DEF NewInv
  <2> QED
    BY <1>1, <2>1 DEF Registered
<1>5. ASSUME NEW r \in run.results
      PROVE  /\ r.n \in Through' /\ r.id \notin Named(disk) \cup run.pre
             /\ disk[r.n].id # NoId =>
                  run'.reg[disk[r.n].id].type = "none" /\ ~Claimed(disk[r.n].id)
             /\ \A q \in run.results : q.n = r.n => q = r
  <2>1. /\ r.n \in Through /\ r.id \notin Named(disk) \cup run.pre
        /\ disk[r.n].id # NoId =>
             run.reg[disk[r.n].id].type = "none" /\ ~Claimed(disk[r.n].id)
        /\ \A q \in run.results : q.n = r.n => q = r
    BY SyncingFacts DEF NewInv
  <2>2. disk[r.n].id # NoId => disk[r.n].id \in Ids
    <3>1. disk[r.n] \in Headings
      BY <2>1, SyncingFacts
    <3> QED
      BY <3>1, PlannerAssumption DEF Headings, Ids, NoId
  <2> QED
    BY <1>2, <2>1, <2>2
<1> QED
  BY <1>1, <1>3, <1>4, <1>5 DEF NewInv, Registered

\* Before its orphans are counted a run cannot have left any.
LEMMA NotFinal ==
  ASSUME run'.stage \notin {"confirm", "delete", "save", "reply"}
  PROVE  GoneOrphans'
BY DEF GoneOrphans, Final

\* What a step of a whole sync has to show.
WholeGoal ==
  /\ OrderInv' /\ NewInv'
  /\ run'.clean => DoneInv' /\ GoneOrphans'

LEMMA DoneGrows ==
  ASSUME Syncing, run.todo # <<>>, run'.todo = Tail(run.todo), NEW n, n = E.n,
         \A k \in Through : DoneAt(k)', DoneAt(n)'
  PROVE  DoneInv'
<1>1. Through' = Through \cup {n}
  BY NextHeading, SyncingFacts DEF Through
<1> QED
  BY <1>1 DEF DoneInv

\* An entry passed over, or given up; a clean run only passes one over that needs
\* no request.
LEMMA PassWhole ==
  ASSUME Syncing, NotesStep, run.todo # <<>>, SameRun(run'), run'.stage = "entry",
         run'.todo = Tail(run.todo), run'.reg = run.reg, run'.results = run.results,
         run'.doomed = run.doomed,
         run'.clean => run.clean /\ Decision(E) = "skip"
  PROVE  WholeGoal
<1>1. OrderInv'
  BY OrderStays
<1>2. NewInv'
  <2>1. run'.doomed \subseteq run.pre
    BY SyncingFacts DEF NewInv
  <2> QED
    BY <2>1, NewStays DEF Deleting
<1>3. ASSUME run'.clean PROVE DoneInv'
  <2>1. PICK n \in DOMAIN disk, e \in Entries : n = E.n /\ e = E
    BY NextHeading
  <2>2. \A k \in Through : DoneAt(k)'
    <3>1. \A k \in Through : k \in DOMAIN disk /\ DoneAt(k)
      BY <1>3, SyncingFacts DEF Syncing, DoneInv
    <3> QED
      BY <3>1, DoneStays
  <2>3. DoneAt(n)'
    <3>1. ResultOf(n) = {}
      BY <2>1, NextHeading, SyncingFacts DEF NewInv, ResultOf
    <3>2. \/ e.text \in Invalid \/ (e.id # NoId /\ Claimed(e.id))
          \/ Settles(run.reg, e.id, e)
      BY <1>3, <2>1 DEF Decision, Settles
    <3>3. DoneAt(n)
      BY <2>1, <3>1, <3>2, NextHeading DEF DoneAt
    <3> QED
      BY <3>3, DoneStays
  <2> QED
    BY <2>1, <2>2, <2>3, DoneGrows
<1> QED
  BY <1>1, <1>2, <1>3, NotFinal DEF WholeGoal

LEMMA AddWhole ==
  ASSUME Syncing, NEW o \in Outcomes, AddNote(o), NotesStep
  PROVE  WholeGoal
<1>1. /\ run.todo # <<>> /\ run.stage \in {"entry", "add"}
      /\ run \in Runs /\ RunInv /\ SyncInv /\ ~Idling /\ Running /\ Recording
      /\ run.kind = "sync"
  BY SyncingFacts DEF AddNote, AtEntry, RunInv, StageInv
<1>2. /\ E \in Entries /\ E.type \in Types
      /\ EntryHash(E, E.type) \in Hashes
      /\ EntryHash(E, E.type).type = E.type /\ E.deck \in Places
  BY <1>1, EntryFacts, NewTyped DEF Entries, Places
<1>3. CASE o # "ok"
  <2>1. run' = [Next_(run) EXCEPT !.clean = FALSE]
    BY <1>3 DEF AddNote
  <2> QED
    BY <1>1, <2>1, FailedFields, PassWhole
<1>4. CASE o = "ok"
  <2>1. Fresh \in Ids /\ notes[Fresh].type = "never"
    <3>1. Len(run.todo) \in Nat \ {0} /\ FreeIds \in Nat
      BY <1>1, EntryFacts, UnusedFinite
    <3>2. Len(run.todo) <= FreeIds
      BY <1>1, <3>1 DEF RunInv, RoomInv, Deleting
    <3>3. FreeIds >= 1
      BY <3>1, <3>2
    <3> QED
      BY <3>3, FreshUnused
  <2>2. PICK f \in Ids, n \in DOMAIN disk, e \in Entries : f = Fresh /\ n = E.n /\ e = E
    BY <1>1, <2>1, NextHeading
  <2>3. PICK reg \in [Ids -> Records] :
           /\ reg = Put(f, "in", E.deck, EntryHash(E, E.type))
           /\ reg[f] = Entry(E.type, "in", E.deck, EntryHash(E, E.type))
           /\ \A j \in Ids : j # f => reg[j] = run.reg[j]
    BY <1>1, <1>2, PutTyped DEF Runs
  <2>4. PICK results \in SUBSET [n : Nat \ {0}, id : Ids] :
           results = run.results \cup {[n |-> n, id |-> f]}
    <3>1. n \in Nat \ {0} /\ run.results \in SUBSET [n : Nat \ {0}, id : Ids]
      BY <1>1, <1>2, <2>2 DEF Runs, Entries
    <3>2. [n |-> n, id |-> f] \in [n : Nat \ {0}, id : Ids]
      BY <3>1
    <3> QED
      BY <3>1, <3>2, Zenon
  <2>5. PICK added \in SUBSET Ids : added = run.added \cup {f}
    BY <1>1 DEF Runs
  <2>6. run' = [Next_(run) EXCEPT !.reg = reg, !.results = results, !.added = added]
    BY <1>4, <2>2, <2>3, <2>4, <2>5 DEF AddNote
  <2>7. /\ run' \in Runs /\ SameRun(run') /\ run'.stage = "entry"
        /\ run'.todo = Tail(run.todo) /\ run'.reg = reg /\ run'.results = results
        /\ run'.doomed = run.doomed /\ run'.clean = run.clean
    BY <1>1, <2>6, AddedFields
  <2>8. /\ disk' = disk /\ run'.pre = run.pre /\ Named(disk)' = Named(disk)
        /\ \A i : Claimed(i)' <=> Claimed(i)
    BY <2>7, SyncingFacts DEF SameRun, Named, Claimed
  <2>9. /\ Through' = Through \cup {n} /\ n \notin Through /\ e = Sent(disk)[n]
        /\ e.id = disk[n].id
    BY <1>1, <2>2, <2>7, <2>8, NextHeading DEF Through
  <2>10. /\ \A i \in Named(disk) : i \in Ids /\ i # f
         /\ f \notin run.pre /\ run.reg[f].type = "none"
    <3>1. ASSUME NEW i \in Named(disk) PROVE i \in Ids /\ i # f
      <4>1. PICK k \in DOMAIN disk : i = disk[k].id /\ i # NoId
        BY DEF Named
      <4>2. i \in Ids /\ notes[i].type # "never"
        BY <1>1, <4>1 DEF SyncInv, HeadingsInv, MadeOf
      <4> QED
        BY <2>1, <2>2, <4>2
    <3>2. f \notin run.pre
      BY <2>1, <2>2, SyncingFacts DEF NewInv
    <3>3. run.reg[f].type = "none"
      BY <2>1, <2>2, SyncingFacts DEF Known
    <3> QED
      BY <3>1, <3>2, <3>3
  <2>11. e.id # NoId => run.reg[e.id].type = "none" /\ ~Claimed(e.id) /\ e.id \in Named(disk)
    <3>1. CASE run.stage = "entry"
      <4>1. Decision(E) = "add"
        BY <3>1 DEF AddNote
      <4>2. E.id = NoId \/ run.reg[E.id].type = "none"
        BY <4>1 DEF Decision
      <4>3. E.id = NoId
        BY <4>1 DEF Decision
      <4> QED
        BY <2>2, <4>3
    <3>2. CASE run.stage = "add"
      <4>1. run.reg[E.id].type = "none" /\ ~Claimed(E.id)
        BY <3>2, SyncingFacts DEF OrderInv
      <4> QED
        BY <2>2, <2>9, <4>1 DEF Named
    <3> QED
      BY <1>1, <3>1, <3>2
  <2>12. OrderInv'
    BY <1>1, <2>7, OrderStays
  <2>13. NewInv'
    <3>1. \A i \in run'.pre : notes'[i].type # "never"
      <4>1. \A i \in run.pre : i \in Ids /\ notes[i].type # "never"
        BY SyncingFacts DEF NewInv, Runs
      <4> QED
        BY <2>8, <4>1 DEF NotesStep
    <3>2. run'.doomed \subseteq run'.pre
      BY <2>7, <2>8, SyncingFacts DEF NewInv
    <3>3. Registered(run'.reg) \subseteq run'.pre \cup Named(disk)' \cup ResultIds'
      <4>1. Registered(run.reg) \subseteq run.pre \cup Named(disk) \cup ResultIds
        BY SyncingFacts DEF NewInv
      <4>2. ResultIds' = ResultIds \cup {f}
        <5> DEFINE new == [n |-> n, id |-> f]
        <5>1. new.id = f
          OBVIOUS
        <5>2. run'.results = run.results \cup {new}
          BY <2>4, <2>7
        <5> HIDE DEF new
        <5> QED
          BY <5>1, <5>2 DEF ResultIds
      <4>3. Registered(run'.reg) \subseteq Registered(run.reg) \cup {f}
        BY <2>3, <2>7 DEF Registered
      <4> QED
        BY <2>8, <4>1, <4>2, <4>3
    <3>4. ASSUME NEW r \in results
          PROVE  /\ r.n \in Through' /\ r.id \notin Named(disk) \cup run.pre
                 /\ disk[r.n].id # NoId =>
                      reg[disk[r.n].id].type = "none" /\ ~Claimed(disk[r.n].id)
                 /\ \A q \in results : q.n = r.n => q = r
      <4>1. \A q \in run.results :
              /\ q.n \in Through /\ q.id \notin Named(disk) \cup run.pre
              /\ disk[q.n].id # NoId =>
                   run.reg[disk[q.n].id].type = "none" /\ ~Claimed(disk[q.n].id)
              /\ \A p \in run.results : p.n = q.n => p = q
        BY SyncingFacts DEF NewInv
      <4>2. \A q \in run.results : disk[q.n].id # NoId => disk[q.n].id \in Named(disk)
        BY <4>1, SyncingFacts DEF Named
      <4>3. CASE r \in run.results
        <5>1. disk[r.n].id # NoId => reg[disk[r.n].id].type = "none"
          BY <2>3, <2>10, <4>1, <4>2, <4>3
        <5>2. \A q \in results : q.n = r.n => q = r
          BY <2>4, <2>9, <4>1, <4>3
        <5> QED
          BY <2>9, <4>1, <4>3, <5>1, <5>2
      <4>4. CASE r = [n |-> n, id |-> f]
        <5>1. disk[n].id # NoId => reg[disk[n].id].type = "none" /\ ~Claimed(disk[n].id)
          BY <2>3, <2>9, <2>10, <2>11
        <5>2. f \notin Named(disk) \cup run.pre
          BY <2>10
        <5>3. \A q \in results : q.n = n => q = r
          BY <2>4, <2>9, <4>1, <4>4
        <5> QED
          BY <2>9, <4>4, <5>1, <5>2, <5>3
      <4> QED
        BY <2>4, <4>3, <4>4
    <3> QED
      BY <2>7, <2>8, <3>1, <3>2, <3>3, <3>4 DEF NewInv, Deleting
  <2>14. ASSUME run'.clean PROVE DoneInv'
    <3>1. ASSUME NEW k \in Through PROVE DoneAt(k)'
      <4>1. k \in DOMAIN disk /\ DoneAt(k) /\ k # n
        BY <2>7, <2>9, <2>14, <3>1, SyncingFacts DEF Syncing, DoneInv
      <4>2. /\ run.results \subseteq run'.results
            /\ \A r \in run'.results : r.n = k => r \in run.results
        BY <2>4, <2>7, <4>1
      <4>3. \A i \in Ids : run.reg[i].type # "none" => run'.reg[i] = run.reg[i]
        BY <2>3, <2>7, <2>10
      <4> QED
        BY <2>7, <4>1, <4>2, <4>3, DoneStays
    <3>2. DoneAt(n)'
      <4>1. Sent(disk)'[n] = e
        BY <2>8, <2>9 DEF Sent, Links
      <4>2. [n |-> n, id |-> f] \in run'.results
        BY <2>4, <2>7
      <4>3. run'.reg[f].type = e.type /\ run'.reg[f].hash = EntryHash(e, e.type) /\ f # NoId
        BY <2>2, <2>3, <2>7, PlannerAssumption DEF Entry, Ids, NoId
      <4>4. e.type # "none"
        BY <1>2, <2>2 DEF Types
      <4>5. Settles(run'.reg, f, e)
        BY <4>3, <4>4 DEF Settles
      <4>6. \E r \in run'.results : r.n = n /\ Settles(run'.reg, r.id, e)
        BY <4>2, <4>5
      <4> QED
        BY <4>1, <4>6 DEF DoneAt, Settles, EntryHash, Hash
    <3> QED
      BY <1>1, <2>2, <2>7, <3>1, <3>2, DoneGrows
  <2> QED
    BY <2>7, <2>12, <2>13, <2>14, NotFinal DEF WholeGoal
<1> QED
  BY <1>3, <1>4

\* Headings dealt with stay so when their records do.
LEMMA DoneKept ==
  ASSUME Syncing, run.clean, SameRun(run'), run'.todo = run.todo, run'.results = run.results,
         \A i \in Named(disk) \cup ResultIds :
            run'.reg[i].type = run.reg[i].type /\ run'.reg[i].hash = run.reg[i].hash
  PROVE  DoneInv'
<1>1. Through' = Through /\ \A k \in Through : k \in DOMAIN disk /\ DoneAt(k)
  BY SyncingFacts DEF Through, Syncing, DoneInv
<1>2. ASSUME NEW k \in Through PROVE DoneAt(k)'
  <2>1. \A i \in Ids : i = disk[k].id => i \in Named(disk)
    BY <1>1, <1>2, PlannerAssumption DEF Named, Ids, NoId
  <2>2. \A r \in run.results : r.id \in ResultIds
    BY DEF ResultIds
  <2> QED
    BY <1>1, <1>2, <2>1, <2>2, DoneStays
<1> QED
  BY <1>1, <1>2 DEF DoneInv

\* A request of an entry that goes on to the next one.
LEMMA WithinWhole ==
  ASSUME Syncing, NotesStep, SameRun(run'), run'.todo = run.todo, run'.reg = run.reg,
         run'.results = run.results, run'.doomed = run.doomed, run'.clean => run.clean,
         run'.stage \in {"add", "update", "tags", "move"}, run.todo # <<>>, ~Claimed(E.id),
         run'.stage = "add" => E.id # NoId /\ run.reg[E.id].type = "none"
  PROVE  WholeGoal
<1>1. OrderInv'
  BY OrderStays
<1>2. NewInv'
  <2>1. run'.doomed \subseteq run.pre
    BY SyncingFacts DEF NewInv
  <2> QED
    BY <2>1, NewStays DEF Deleting
<1> QED
  BY <1>1, <1>2, DoneKept, NotFinal DEF WholeGoal

\* An entry that sets out on a request is alone with its identifier.
LEMMA DecisionAlone ==
  ASSUME Decision(E) \in {"query", "update"}
  PROVE  /\ E.id # NoId /\ ~Claimed(E.id)
         /\ Decision(E) = "query" => run.reg[E.id].type = "none"
BY DEF Decision

LEMMA QueryWhole ==
  ASSUME Syncing, NEW o \in Outcomes, QueryNote(o), NotesStep
  PROVE  WholeGoal
<1>1. run.todo # <<>> /\ run \in Runs /\ Decision(E) = "query"
  BY SyncingFacts DEF QueryNote, AtEntry
<1>2. /\ SameRun(run') /\ run'.todo = run.todo /\ run'.reg = run.reg
      /\ run'.results = run.results /\ run'.doomed = run.doomed /\ (run'.clean => run.clean)
      /\ run'.stage \in {"add", "update"}
  <2>1. Clean(o) \in BOOLEAN /\ (Clean(o) => run.clean)
    BY <1>1 DEF Clean, Runs
  <2>2. CASE o = "ok" /\ Adoptable(E)
    BY <1>1, <2>2 DEF QueryNote, Runs, SameRun
  <2>3. CASE ~(o = "ok" /\ Adoptable(E))
    <3>1. PICK c \in BOOLEAN : c = Clean(o)
      BY <2>1
    <3>2. run' = [run EXCEPT !.stage = "add", !.clean = c]
      BY <2>3, <3>1 DEF QueryNote
    <3> QED
      BY <1>1, <2>1, <3>1, <3>2 DEF Runs, SameRun
  <2> QED
    BY <2>2, <2>3
<1> QED
  BY <1>1, <1>2, DecisionAlone, WithinWhole

\* An update that goes on, and one that was refused.
LEMMA StageWhole ==
  ASSUME Syncing, NotesStep, run.todo # <<>>, ~Claimed(E.id), NEW stage \in {"tags", "move"},
         \/ run' = [run EXCEPT !.stage = stage]
         \/ run' = [Next_(run) EXCEPT !.clean = FALSE]
  PROVE  WholeGoal
<1>1. CASE run' = [run EXCEPT !.stage = stage]
  <2>1. /\ SameRun(run') /\ run'.todo = run.todo /\ run'.reg = run.reg
        /\ run'.results = run.results /\ run'.doomed = run.doomed /\ (run'.clean => run.clean)
        /\ run'.stage \in {"tags", "move"}
    BY <1>1, SyncingFacts DEF Runs, SameRun
  <2> QED
    BY <2>1, WithinWhole
<1>2. CASE run' = [Next_(run) EXCEPT !.clean = FALSE]
  BY <1>2, SyncingFacts, FailedFields, PassWhole
<1> QED
  BY <1>1, <1>2

LEMMA UpdatedWhole ==
  ASSUME Syncing, NotesStep, run.stage \in {"tags", "move"}, NEW deck \in Places,
         NEW clean \in BOOLEAN, run' = Updated(deck, clean)
  PROVE  WholeGoal
<1>1. run.todo # <<>> /\ E \in Entries /\ E.id \in Ids /\ E.type \in Types /\ Running
  BY SyncingFacts, HandFacts DEF Entries
<1>2. PICK n \in DOMAIN disk, e \in Entries : n = E.n /\ e = E
  BY <1>1, NextHeading
<1>3. /\ SameRun(run') /\ run'.stage = "entry"
      /\ run'.todo = Tail(run.todo) /\ run'.results = run.results
      /\ run'.reg[e.id].type = e.type /\ run'.reg[e.id].hash = EntryHash(e, e.type)
      /\ \A j \in Ids : j # e.id => run'.reg[j] = run.reg[j]
      /\ run'.doomed = run.doomed /\ run'.clean = (run.clean /\ clean)
  BY <1>1, <1>2, UpdatedFields
<1>4. ~Claimed(E.id)
  BY SyncingFacts DEF OrderInv
<1>5. /\ \A k \in Through : disk[k].id # e.id
      /\ \A r \in run.results : r.n \in Through /\ r.n # n /\ disk[r.n].id # e.id
  BY <1>1, <1>2, <1>4, ResultsElsewhere
<1>6. e.id \in Named(disk) /\ e.id # NoId /\ e = Sent(disk)[n]
  <2>1. e.id # NoId
    BY <1>1, <1>2, PlannerAssumption DEF Ids, NoId
  <2> QED
    BY <1>1, <1>2, <2>1, NextHeading DEF Named
<1>7. OrderInv'
  BY <1>1, <1>3, OrderStays
<1>8. NewInv'
  <2>1. run'.doomed \subseteq run.pre
    BY <1>3, SyncingFacts DEF NewInv
  <2>2. ASSUME NEW i \in Ids, run'.reg[i].type # "none"
        PROVE  \/ run.reg[i].type # "none"
               \/ i \in Named(disk) /\ \A r \in run.results : disk[r.n].id # i
    <3>1. CASE i = e.id
      BY <1>5, <1>6, <3>1
    <3>2. CASE i # e.id
      BY <1>3, <2>2, <3>2
    <3> QED
      BY <3>1, <3>2
  <2> QED
    BY <1>1, <1>3, <2>1, <2>2, NewStays DEF Deleting
<1>9. ASSUME run'.clean PROVE DoneInv'
  <2>1. ASSUME NEW k \in Through PROVE DoneAt(k)'
    <3>1. k \in DOMAIN disk /\ DoneAt(k)
      BY <1>3, <1>9, <2>1, SyncingFacts DEF Syncing, DoneInv
    <3>2. disk[k].id # e.id
      BY <1>5, <2>1
    <3>3. \A r \in run.results : r.id # e.id
      BY <1>6, SyncingFacts DEF NewInv
    <3>4. \A i \in Ids : i = disk[k].id \/ (\E r \in run.results : r.n = k /\ r.id = i)
                         => run'.reg[i] = run.reg[i]
      BY <1>3, <3>2, <3>3
    <3> QED
      BY <1>3, <3>1, <3>4, DoneStays
  <2>2. DoneAt(n)'
    <3>1. Sent(disk)'[n] = e
      BY <1>6, SyncingFacts DEF Sent, Links
    <3>2. ResultOf(n)' = {}
      BY <1>3, <1>5 DEF ResultOf
    <3>3. e.type # "none"
      BY <1>1, <1>2 DEF Types
    <3>4. Settles(run'.reg, e.id, e)
      BY <1>3, <1>6, <3>3 DEF Settles
    <3> QED
      BY <3>1, <3>2, <3>4 DEF DoneAt, Settles, EntryHash, Hash
  <2> QED
    BY <1>1, <1>2, <1>3, <2>1, <2>2, DoneGrows
<1> QED
  BY <1>3, <1>7, <1>8, <1>9, NotFinal DEF WholeGoal

LEMMA EntryWhole ==
  ASSUME Syncing, NotesStep, NEW o \in Outcomes, UpdateFields(o) \/ UpdateTags(o) \/ MoveDeck(o)
  PROVE  WholeGoal
<1>1. run.todo # <<>> /\ ~Claimed(E.id)
  <2>1. CASE Decision(E) = "update" /\ run.todo # <<>>
    BY <2>1, DecisionAlone
  <2>2. CASE run.stage \in {"update", "tags", "move"}
    BY <2>2, SyncingFacts DEF OrderInv, RunInv, StageInv
  <2> QED
    BY <2>1, <2>2 DEF UpdateFields, UpdateTags, MoveDeck, AtEntry
<1>2. CASE UpdateFields(o)
  BY <1>1, <1>2, StageWhole DEF UpdateFields
<1>3. CASE UpdateTags(o)
  <2>1. CASE run' = Updated(E.deck, TRUE)
    <3>1. E.deck \in Places /\ run.stage = "tags"
      BY <1>3, SyncingFacts, HandFacts DEF UpdateTags
    <3> QED
      BY <2>1, <3>1, UpdatedWhole
  <2>2. CASE run' # Updated(E.deck, TRUE)
    BY <1>1, <1>3, <2>2, StageWhole DEF UpdateTags
  <2> QED
    BY <2>1, <2>2
<1>4. CASE MoveDeck(o)
  <2>1. run.stage = "move" /\ E.deck \in Places /\ E.id \in Ids
    BY <1>4, SyncingFacts, HandFacts DEF MoveDeck
  <2>2. PICK deck \in Places : deck = IF o = "ok" \/ run.adopt THEN E.deck ELSE run.reg[E.id].deck
    BY <2>1, SyncingFacts DEF Runs, Records
  <2>3. PICK clean \in BOOLEAN : clean = (o = "ok")
    OBVIOUS
  <2>4. run' = Updated(deck, clean)
    BY <1>4, <2>2, <2>3 DEF MoveDeck
  <2> QED
    BY <2>1, <2>4, UpdatedWhole
<1> QED
  BY <1>2, <1>3, <1>4

LEMMA ReconcileWhole ==
  ASSUME Syncing, NotesStep, Reconcile
  PROVE  WholeGoal
<1>1. /\ run.stage = "entry" /\ run.todo = <<>> /\ notes' = notes /\ run \in Runs /\ Stepping
      /\ run.complete /\ archive' = archive /\ disk' = disk
  BY SyncingFacts DEF Reconcile
<1>2. /\ SameRun(run') /\ run'.reg = Refreshed /\ run'.todo = run.todo
      /\ run'.results = run.results /\ run'.clean = run.clean
      /\ run'.doomed = Candidates(Refreshed)
      /\ run'.stage = (IF run'.doomed = {} THEN "save" ELSE "confirm")
  BY <1>1, ReconcileFields
<1>3. \A i \in Ids : /\ Refreshed[i].type = run.reg[i].type
                     /\ Refreshed[i].hash = run.reg[i].hash
  BY <1>1, RefreshedFields
<1>4. Named(disk) \cup ResultIds \subseteq Ids
  <2>1. \A k \in DOMAIN disk : disk[k] \in Headings
    BY SyncingFacts
  <2>2. Named(disk) \subseteq Ids
    BY <2>1, PlannerAssumption DEF Named, Headings, Ids, NoId
  <2> QED
    BY <1>1, <2>2 DEF ResultIds, Runs
<1>5. OrderInv'
  BY <1>1, <1>2, OrderStays
<1>6. NewInv'
  <2>1. run'.doomed \subseteq run.pre /\ \A i \in run'.doomed : run'.reg[i].path = "in"
    BY <1>2 DEF Candidates
  <2> QED
    BY <1>2, <1>3, <2>1, NewStays
<1>7. ASSUME NEW i \in Ids \ ResultIds, OrphanIn(run.reg, i)' PROVE i \in run'.doomed
  <2>1. /\ run'.reg[i].type # "none" /\ run'.reg[i].path = "in"
        /\ i \notin Named(disk) \cup archive
    BY <1>1, <1>7 DEF OrphanIn, Named
  <2>2. i \in Registered(Refreshed) /\ i \in Registered(run.reg)
    BY <1>2, <1>3, <2>1 DEF Registered
  <2>3. i \in run.pre
    BY <1>7, <2>1, <2>2, SyncingFacts DEF NewInv
  <2>4. SeenAt(i) = {}
    <3>1. run.census = Census(disk)
      BY SyncingFacts DEF RunInv, CensusInv
    <3>2. \A c \in run.census : c.id \in Named(disk) \cup archive
      BY <3>1 DEF Census
    <3> QED
      BY <2>1, <3>2 DEF SeenAt
  <2> QED
    BY <1>2, <2>1, <2>2, <2>3, <2>4 DEF Candidates
<1>8. run.clean => DoneInv'
  BY <1>2, <1>3, <1>4, DoneKept
<1>9. GoneOrphans'
  <2>1. \A i \in (Ids \ ResultIds)' : OrphanIn(run.reg, i)' => Deleting' /\ i \in run'.doomed
    BY <1>2, <1>7 DEF Deleting, Ids, ResultIds
  <2> QED
    BY <2>1 DEF GoneOrphans
<1> QED
  BY <1>2, <1>5, <1>6, <1>8, <1>9 DEF WholeGoal

\* Among the notes of a clean run only doomed ones are orphans, and those are owned.
LEMMA OrphansDoomed ==
  ASSUME Syncing, run.clean, Deleting, NEW i \in Ids, OrphanIn(run.reg, i), i \notin ResultIds
  PROVE  i \in run.doomed /\ Owned(i)
<1>1. i \in run.doomed
  BY DEF Syncing, GoneOrphans, Final, Deleting
<1>2. Exists(i) /\ run.reg[i].type # "none" /\ notes[i].type = run.reg[i].type
  BY SyncingFacts DEF OrphanIn, Live, Known
<1> QED
  BY <1>1, <1>2 DEF OrphanIn, Owned

LEMMA SameOrphan ==
  ASSUME Syncing, NEW i \in Ids, OrphanIn(run.reg, i)', notes'[i] = notes[i],
         run'.reg[i] = run.reg[i]
  PROVE  OrphanIn(run.reg, i)
BY SyncingFacts DEF OrphanIn, Live, Exists, Named, Hash

LEMMA ConfirmWhole ==
  ASSUME Syncing, NotesStep, NEW o \in Outcomes, Confirm(o)
  PROVE  WholeGoal
<1>1. /\ run.stage = "confirm" /\ Deleting /\ run \in Runs /\ Stepping /\ notes' = notes
      /\ run.kind = "sync" /\ run.todo = <<>>
  BY SyncingFacts DEF Confirm, Deleting, OrderInv, Final
<1>2. /\ SameRun(run') /\ run'.stage \in {"delete", "save"} /\ run'.todo = run.todo
      /\ run'.results = run.results /\ (run'.clean => run.clean)
      /\ \A i \in Ids : run'.reg[i] = run.reg[i]
      /\ run'.doomed \subseteq run.doomed
      /\ run'.clean => \A i \in run.doomed : Owned(i) => run'.stage = "delete" /\ i \in run'.doomed
  <2>1. CASE /\ o = "ok" /\ run' \in Runs /\ SameRun(run') /\ run'.stage = "delete"
             /\ run'.todo = run.todo /\ run'.reg = run.reg /\ run'.results = run.results
             /\ run'.doomed = {i \in run.doomed : Owned(i)} /\ run'.doomed # {}
             /\ run'.fresh = run.fresh /\ run'.clean = run.clean
    BY <2>1
  <2>2. CASE /\ run' = AfterDelete({}, Clean(o)) /\ Clean(o) \in BOOLEAN
             /\ o = "ok" => {i \in run.doomed : Owned(i)} = {}
    <3>1. /\ SameRun(run') /\ run'.doomed = {} /\ run'.clean = Clean(o)
          /\ run'.stage = "save" /\ run'.todo = run.todo /\ run'.results = run.results
          /\ \A i \in Ids : run'.reg[i] = run.reg[i]
      BY <1>1, <2>2, DeletedFields
    <3>2. Clean(o) => run.clean /\ o = "ok"
      BY DEF Clean
    <3> QED
      BY <2>2, <3>1, <3>2
  <2> QED
    BY <1>1, <2>1, <2>2, ConfirmFields
<1>3. OrderInv'
  BY <1>1, <1>2, OrderStays
<1>4. run.doomed \subseteq run.pre /\ run.pre \subseteq Ids
      /\ \A i \in run.doomed : run.reg[i].path = "in"
  BY <1>1, SyncingFacts DEF NewInv, Runs
<1>5. NewInv'
  <2>1. run'.doomed \subseteq run.pre /\ \A i \in run'.doomed : run'.reg[i].path = "in"
    BY <1>2, <1>4
  <2> QED
    BY <1>2, <2>1, NewStays
<1>6. ASSUME run'.clean PROVE DoneInv' /\ GoneOrphans'
  <2>1. Named(disk) \cup ResultIds \subseteq Ids
    <3>1. \A k \in DOMAIN disk : disk[k] \in Headings
      BY SyncingFacts
    <3>2. Named(disk) \subseteq Ids
      BY <3>1, PlannerAssumption DEF Named, Headings, Ids, NoId
    <3> QED
      BY <1>1, <3>2 DEF ResultIds, Runs
  <2>2. DoneInv'
    BY <1>2, <1>6, <2>1, DoneKept
  <2>3. ASSUME NEW i \in Ids \ ResultIds, OrphanIn(run.reg, i)'
        PROVE  Deleting' /\ i \in run'.doomed
    <3>1. OrphanIn(run.reg, i)
      BY <1>1, <1>2, <2>3, SameOrphan
    <3>2. i \in run.doomed /\ Owned(i)
      BY <1>1, <1>2, <1>6, <2>3, <3>1, OrphansDoomed
    <3> QED
      BY <1>2, <1>6, <3>2 DEF Deleting
  <2>4. GoneOrphans'
    BY <1>2, <2>3 DEF GoneOrphans, Ids, ResultIds
  <2> QED
    BY <2>2, <2>4
<1> QED
  BY <1>3, <1>5, <1>6 DEF WholeGoal

LEMMA DeleteWhole ==
  ASSUME Syncing, NEW o \in Outcomes, DeleteNotes(o)
  PROVE  WholeGoal
<1>1. /\ run.stage = "delete" /\ Deleting /\ run \in Runs /\ Stepping
      /\ run.kind = "sync" /\ run.todo = <<>> /\ RunInv
  BY SyncingFacts DEF DeleteNotes, Deleting, OrderInv, Final
<1>2. /\ NotesStep /\ \A i \in Ids : Exists(i)' => notes'[i] = notes[i] /\ Exists(i)
      /\ o = "ok" => \A i \in run.doomed : ~Exists(i)'
  BY <1>1, GoneNotes
<1>3. PICK removed : /\ removed = IF o = "ok" THEN run.doomed ELSE {}
                     /\ run' = AfterDelete(removed, Clean(o))
  BY DEF DeleteNotes
<1>4. Clean(o) \in BOOLEAN /\ (Clean(o) => run.clean /\ o = "ok")
  BY <1>1 DEF Clean, Runs
<1>5. /\ SameRun(run') /\ run'.doomed = {} /\ run'.clean = Clean(o)
      /\ run'.stage = "save" /\ run'.todo = run.todo /\ run'.results = run.results
      /\ \A i \in Ids : run'.reg[i] = IF i \in removed THEN Unregistered ELSE run.reg[i]
  BY <1>1, <1>3, <1>4, DeletedFields
<1>6. Unregistered.type = "none"
  BY DEF Unregistered
<1>7. OrderInv'
  BY <1>1, <1>5, OrderStays
<1>8. NewInv'
  BY <1>2, <1>5, <1>6, NewStays DEF Deleting
<1>9. ASSUME run'.clean PROVE DoneInv' /\ GoneOrphans'
  <2>1. o = "ok" /\ run.clean /\ removed = run.doomed
    BY <1>3, <1>4, <1>5, <1>9
  <2>2. ASSUME NEW i \in Named(disk) \cup ResultIds PROVE i \in Ids /\ i \notin run.doomed
    <3>1. \A k \in DOMAIN disk : disk[k] \in Headings
      BY SyncingFacts
    <3>2. Named(disk) \subseteq Ids
      BY <3>1, PlannerAssumption DEF Named, Headings, Ids, NoId
    <3>3. ResultIds \subseteq Ids
      BY <1>1 DEF ResultIds, Runs
    <3>4. run.doomed \cap Named(disk) = {}
      BY <1>1 DEF RunInv, DoomedInv
    <3>5. run.doomed \cap ResultIds = {}
      <4>1. run.doomed \subseteq run.pre /\ \A r \in run.results : r.id \notin run.pre
        BY SyncingFacts DEF NewInv
      <4> QED
        BY <4>1 DEF ResultIds
    <3> QED
      BY <2>2, <3>2, <3>3, <3>4, <3>5
  <2>3. DoneInv'
    BY <1>5, <2>1, <2>2, DoneKept
  <2>4. ASSUME NEW i \in Ids \ ResultIds, OrphanIn(run.reg, i)' PROVE FALSE
    <3>1. Exists(i)' /\ run'.reg[i].type # "none"
      BY <2>4 DEF OrphanIn, Live, Exists
    <3>2. notes'[i] = notes[i] /\ run'.reg[i] = run.reg[i] /\ i \notin run.doomed
      BY <1>2, <1>5, <1>6, <2>1, <3>1
    <3>3. OrphanIn(run.reg, i)
      BY <2>4, <3>2, SameOrphan
    <3> QED
      BY <1>1, <2>1, <2>4, <3>2, <3>3, OrphansDoomed
  <2>5. GoneOrphans'
    BY <1>5, <2>4 DEF GoneOrphans, Ids, ResultIds
  <2> QED
    BY <2>3, <2>5
<1> QED
  BY <1>7, <1>8, <1>9 DEF WholeGoal

LEMMA SaveWhole ==
  ASSUME Syncing, NEW o \in Outcomes, Save(o)
  PROVE  WholeGoal /\ (run'.clean => registry' = run'.reg)
<1>1. /\ run.stage = "save" /\ ~Deleting /\ run \in Runs /\ Stepping /\ notes' = notes
      /\ run.todo = <<>> /\ SyncInv
  BY SyncingFacts DEF Save, Deleting, OrderInv, Final
<1>2. NotesStep
  BY <1>1, SameNotes
<1>3. /\ SameRun(run') /\ run'.todo = run.todo /\ run'.reg = run.reg
      /\ run'.results = run.results /\ run'.doomed = run.doomed
      /\ run'.clean => run.clean
  BY <1>1, SaveFields
<1>4. run'.stage = "reply" /\ run'.clean = Clean(o) /\ (run'.clean => o = "ok")
  BY <1>1 DEF Save, Runs, Clean
<1>5. OrderInv'
  BY <1>1, <1>3, <1>4, OrderStays
<1>6. NewInv'
  <2>1. run'.doomed \subseteq run.pre
    BY <1>3, SyncingFacts DEF NewInv
  <2> QED
    BY <1>2, <1>3, <1>4, <2>1, NewStays DEF Deleting
<1>7. ASSUME run'.clean PROVE DoneInv' /\ GoneOrphans'
  <2>1. DoneInv'
    BY <1>3, <1>7, DoneKept
  <2>2. ASSUME NEW i \in Ids \ ResultIds, OrphanIn(run.reg, i)' PROVE FALSE
    <3>1. OrphanIn(run.reg, i)
      BY <1>1, <1>3, <2>2, SameOrphan
    <3> QED
      BY <1>1, <1>3, <1>7, <2>2, <3>1 DEF Syncing, GoneOrphans, Final
  <2>3. GoneOrphans'
    BY <1>3, <2>2 DEF GoneOrphans, Ids, ResultIds
  <2> QED
    BY <2>1, <2>3
<1> QED
  BY <1>3, <1>4, <1>5, <1>6, <1>7 DEF WholeGoal, Save

\* No step gives the run another request, and only saving makes it ready to answer.
LEMMA RunSame ==
  ASSUME Stepping, RunStep
  PROVE  /\ SameRun(run') /\ run'.stage # "idle"
         /\ run'.stage = "reply" => \E o \in Outcomes : Save(o)
<1> DEFINE G == SameRun(run') /\ run'.stage \notin {"idle", "reply"}
<1>1. run \in Runs /\ RunInv /\ Running /\ SyncInv /\ ~Idling
  BY SteppingFacts DEF Stepping
<1>2. ASSUME NEW clean \in BOOLEAN, run.todo # <<>>,
             run' \in {Next_(run), [Next_(run) EXCEPT !.clean = clean]}
      PROVE  G
  BY <1>1, <1>2, NextFields DEF SameRun, Runs
<1>3. CASE SkipEntry \/ RefuseEntry \/ SkipMigration
  <2>1. run.todo # <<>> /\ run' \in {Next_(run), [Next_(run) EXCEPT !.clean = FALSE]}
    BY <1>3 DEF SkipEntry, RefuseEntry, SkipMigration, AtEntry
  <2>2. FALSE \in BOOLEAN
    OBVIOUS
  <2> QED
    BY <1>2, <2>1, <2>2
<1>4. ASSUME NEW o \in Outcomes, AddNote(o) PROVE G
  <2>1. run.todo # <<>>
    BY <1>1, <1>4 DEF AddNote, AtEntry, RunInv, StageInv
  <2>2. CASE o # "ok"
    <3>1. run' = [Next_(run) EXCEPT !.clean = FALSE]
      BY <1>4, <2>2 DEF AddNote
    <3> QED
      BY <1>1, <2>1, <3>1, FailedFields
  <2>3. CASE o = "ok"
    <3>1. PICK a, b, c : run' = [Next_(run) EXCEPT !.reg = a, !.results = b, !.added = c]
      BY <1>4, <2>3 DEF AddNote
    <3> QED
      BY <1>1, <2>1, <3>1, NextFields DEF SameRun, Runs
  <2> QED
    BY <2>2, <2>3
<1>5. ASSUME NEW o \in Outcomes, QueryNote(o) PROVE G
  <2>1. CASE o = "ok" /\ Adoptable(E)
    BY <1>1, <1>5, <2>1 DEF QueryNote, Runs, SameRun
  <2>2. CASE ~(o = "ok" /\ Adoptable(E))
    <3>1. PICK c : run' = [run EXCEPT !.stage = "add", !.clean = c]
      BY <1>5, <2>2 DEF QueryNote
    <3> QED
      BY <1>1, <3>1 DEF Runs, SameRun
  <2> QED
    BY <2>1, <2>2
<1>6. ASSUME NEW deck, NEW clean, run.todo # <<>>, run' = Updated(deck, clean) PROVE G
  <2>1. PICK a, b : run' = [Next_(run) EXCEPT !.reg = a, !.clean = b]
    BY <1>6 DEF Updated
  <2> QED
    BY <1>1, <1>6, <2>1, NextFields DEF SameRun, Runs
<1>7. ASSUME NEW o \in Outcomes, UpdateFields(o) \/ UpdateTags(o) \/ MoveDeck(o) PROVE G
  <2>1. run.todo # <<>>
    BY <1>1, <1>7 DEF UpdateFields, UpdateTags, MoveDeck, AtEntry, RunInv, StageInv
  <2>2. \/ \E stage \in {"tags", "move"} : run' = [run EXCEPT !.stage = stage]
        \/ run' = [Next_(run) EXCEPT !.clean = FALSE]
        \/ \E deck, clean : run' = Updated(deck, clean)
    BY <1>7 DEF UpdateFields, UpdateTags, MoveDeck
  <2>3. ASSUME NEW stage \in {"tags", "move"}, run' = [run EXCEPT !.stage = stage] PROVE G
    BY <1>1, <2>3 DEF Runs, SameRun
  <2> QED
    BY <1>1, <1>6, <2>1, <2>2, <2>3, FailedFields
<1>8. CASE Reconcile
  BY <1>8, ReconcileFields
<1>9. ASSUME NEW o \in Outcomes, Confirm(o) \/ DeleteNotes(o) PROVE G
  <2>1. Deleting /\ Clean(o) \in BOOLEAN
    BY <1>1, <1>9 DEF Confirm, DeleteNotes, Deleting, Clean, Runs
  <2>2. \/ SameRun(run') /\ run'.stage = "delete"
        \/ \E removed : run' = AfterDelete(removed, Clean(o))
    BY <1>9, ConfirmFields DEF DeleteNotes
  <2>3. ASSUME NEW removed, run' = AfterDelete(removed, Clean(o)) PROVE G
    <3>1. PICK clean \in BOOLEAN : clean = Clean(o)
      BY <2>1
    <3>2. run' = AfterDelete(removed, clean)
      BY <2>3, <3>1
    <3> QED
      BY <1>1, <2>1, <3>2, DeletedFields DEF Runs
  <2> QED
    BY <2>2, <2>3
<1>10. ASSUME NEW o \in Outcomes, MigrateAdd(o) PROVE G
  <2>1. run.todo # <<>>
    BY <1>10 DEF MigrateAdd, AtEntry
  <2>2. CASE o # "ok"
    <3>1. run' = [Next_(run) EXCEPT !.clean = FALSE]
      BY <1>10, <2>2 DEF MigrateAdd
    <3> QED
      BY <1>1, <2>1, <3>1, FailedFields
  <2>3. CASE o = "ok"
    <3>1. PICK a, b, c : run' = [run EXCEPT !.stage = "confirm", !.fresh = a, !.doomed = b,
                                            !.added = c]
      BY <1>10, <2>3 DEF MigrateAdd
    <3> QED
      BY <1>1, <3>1 DEF SameRun, Runs
  <2> QED
    BY <2>2, <2>3
<1>11. CASE MigrationDone
  BY <1>1, <1>11 DEF MigrationDone, SameRun, Runs
<1>12. ASSUME NEW o \in Outcomes, Save(o) PROVE SameRun(run') /\ run'.stage = "reply"
  BY <1>1, <1>12, SaveFields DEF Save, Runs
<1> QED
  BY <1>3, <1>4, <1>5, <1>7, <1>8, <1>9, <1>10, <1>11, <1>12 DEF RunStep, PlannerStep

\* A step of a whole sync.
LEMMA RunWhole ==
  ASSUME SyncInv, TruthInv, HandInv, WholeInv, RunStep
  PROVE  WholeInv'
<1>1. run.stage \notin {"idle", "reply"} /\ ~Idling
  BY DEF RunStep, PlannerStep, SkipEntry, RefuseEntry, AddNote, QueryNote, UpdateFields,
     UpdateTags, MoveDeck, Reconcile, Confirm, DeleteNotes, SkipMigration, MigrateAdd,
     MigrationDone, Save, AtEntry, Idling
<1>2. Stepping /\ Running
  BY <1>1 DEF Stepping, Running, RunStep
<1>3. NotesStep
  BY RunStepInv
<1>4. ASSUME Whole PROVE Syncing
  BY <1>1, <1>2, <1>4 DEF Syncing, WholeInv
<1>5. ASSUME Whole, NEW o \in Outcomes, Save(o)
      PROVE  WholeGoal /\ (run'.clean => registry' = run'.reg)
  BY <1>4, <1>5, SaveWhole
<1>6. ASSUME Whole, ~\E o \in Outcomes : Save(o) PROVE WholeGoal
  <2>1. Syncing /\ run.kind = "sync"
    BY <1>4, <1>6 DEF Whole
  <2>2. CASE SkipEntry \/ RefuseEntry
    <3>1. /\ run.todo # <<>>
          /\ \/ run' = Next_(run) /\ Decision(E) = "skip"
             \/ run' = [Next_(run) EXCEPT !.clean = FALSE]
      BY <2>2 DEF SkipEntry, RefuseEntry, AtEntry
    <3>2. /\ SameRun(run') /\ run'.stage = "entry" /\ run'.todo = Tail(run.todo)
          /\ run'.reg = run.reg /\ run'.results = run.results /\ run'.doomed = run.doomed
          /\ run'.clean => run.clean /\ Decision(E) = "skip"
      BY <1>2, <3>1, NextFields, FailedFields DEF SameRun
    <3> QED
      BY <1>3, <2>1, <3>1, <3>2, PassWhole
  <2>3. CASE \E o \in Outcomes : AddNote(o)
    BY <1>3, <2>1, <2>3, AddWhole
  <2>4. CASE \E o \in Outcomes : QueryNote(o)
    BY <1>3, <2>1, <2>4, QueryWhole
  <2>5. CASE \E o \in Outcomes : UpdateFields(o) \/ UpdateTags(o) \/ MoveDeck(o)
    BY <1>3, <2>1, <2>5, EntryWhole
  <2>6. CASE Reconcile
    BY <1>3, <2>1, <2>6, ReconcileWhole
  <2>7. CASE \E o \in Outcomes : Confirm(o)
    BY <1>3, <2>1, <2>7, ConfirmWhole
  <2>8. CASE \E o \in Outcomes : DeleteNotes(o)
    BY <2>1, <2>8, DeleteWhole
  <2> QED
    BY <1>6, <2>1, <2>2, <2>3, <2>4, <2>5, <2>6, <2>7, <2>8
    DEF RunStep, PlannerStep, SkipMigration, MigrateAdd, MigrationDone, AtEntry
<1>7. Whole' => Whole
  BY <1>1, <1>2, RunSame DEF Whole, SameRun
<1>8. run'.stage = "reply" => \E o \in Outcomes : Save(o)
  BY <1>2, RunSame
<1>9. ASSUME Whole'
      PROVE  /\ WholeGoal
             /\ run'.clean /\ run'.stage = "reply" => registry' = run'.reg
  BY <1>5, <1>6, <1>7, <1>8, <1>9
<1> QED
  BY <1>9 DEF WholeInv, WholeGoal

\* A whole sync starts with everything to do.
LEMMA StartWhole ==
  ASSUME SyncInv, TruthInv, Starts
  PROVE  WholeInv'
<1>1. /\ run'.stage = "entry" /\ run'.reg = registry /\ run'.pre = Registered(registry)
      /\ run'.results = {} /\ run'.doomed = {} /\ disk' \in Seq(Headings)
      /\ notes' = notes
      /\ ~Sync => run'.kind = "migrate" \/ ~run'.complete
      /\ Sync => run'.sent = Sent(disk)' /\ run'.todo = Sent(disk)'
  BY StartsFields
<1>2. CASE ~Sync
  BY <1>1, <1>2 DEF WholeInv, Whole
<1>3. CASE Sync
  <2>1. /\ DOMAIN disk' = 1 .. Len(disk') /\ Len(disk') \in Nat
        /\ Sent(disk)' \in Seq(Entries)
    <3>1. Sent(disk') \in Seq(Entries)
      BY <1>1, SentTyped
    <3> QED
      BY <1>1, <3>1 DEF Sent, Links
  <2>2. /\ Len(Sent(disk)') = Len(disk')
        /\ \A j \in DOMAIN disk' : Sent(disk)'[j].n = j
    BY <2>1 DEF Sent
  <2>3. PICK a \in Nat : a = Len(disk')
    BY <2>1
  <2>4. /\ Len(run'.todo) = a /\ DOMAIN run'.todo = 1 .. a
        /\ \A j \in 1 .. a : run'.todo[j].n = j
    BY <1>1, <1>3, <2>1, <2>2, <2>3 DEF Sent
  <2>5. \A k \in DOMAIN buffer' : buffer'[k].linked
    <3>1. buffer' = Linked(buffer) /\ buffer \in Seq(Headings)
      BY <1>3 DEF Sync, PrepareIds, SyncInv, SyncTypes
    <3>2. \A k \in DOMAIN buffer : [buffer[k] EXCEPT !.linked = TRUE].linked
      <4>1. \A k \in DOMAIN buffer : buffer[k] \in Headings
        BY <3>1
      <4> QED
        BY <4>1 DEF Headings
    <3> QED
      BY <3>1, <3>2 DEF Linked
  <2>6. OrderInv'
    <3>1. \A j \in DOMAIN run'.todo : run'.todo[j].n = a - a + j
      BY <2>4
    <3>2. ~Final'
      BY <1>1 DEF Final
    <3> QED
      BY <1>1, <1>3, <2>3, <2>4, <2>5, <3>1, <3>2 DEF OrderInv
  <2>7. NewInv'
    BY <1>1 DEF NewInv, TruthInv, Known, Registered, Deleting
  <2>8. DoneInv'
    <3>1. Through' = 1 .. a - a
      BY <2>3, <2>4 DEF Through
    <3>2. 1 .. a - a = {}
      OBVIOUS
    <3> QED
      BY <3>1, <3>2 DEF DoneInv
  <2> QED
    BY <1>1, <2>6, <2>7, <2>8, NotFinal DEF WholeInv
<1> QED
  BY <1>2, <1>3

\* What the user of Anki changes is no orphan of a record: no record has such a text.
LEMMA UserOrphans ==
  ASSUME SyncInv, EditNote \/ DeleteNote, NEW reg \in [Ids -> Records], NEW i \in Ids,
         OrphanIn(reg, i)'
  PROVE  OrphanIn(reg, i)
<1>1. disk' = disk /\ archive' = archive
  BY UserStep DEF files
<1>2. reg[i].hash.text \in Words
  BY DEF Records, Hashes
<1>3. "user" \notin Words /\ "late" \notin Words
  BY PlannerAssumption DEF Words, NoText
<1>4. Exists(i)' /\ reg[i].hash.text = notes'[i].text
  BY DEF OrphanIn, Live, Hash, Exists
<1>5. notes'[i] = notes[i]
  BY <1>2, <1>3, <1>4, UserStep DEF Exists, Types
<1> QED
  BY <1>1, <1>5 DEF OrphanIn, Live, Exists, Named, Hash

LEMMA UserWhole ==
  ASSUME SyncInv, WholeInv, EditNote \/ DeleteNote
  PROVE  WholeInv'
<1>1. /\ run' = run /\ registry' = registry /\ NotesStep
      /\ disk' = disk /\ buffer' = buffer /\ archive' = archive
  BY UserStep, CollectionInv DEF files
<1>2. Whole' => Whole
  BY <1>1 DEF Whole, Idling
<1>3. SUFFICES ASSUME Whole
               PROVE  /\ OrderInv' /\ NewInv'
                      /\ run.clean => DoneInv' /\ GoneOrphans'
                      /\ run.clean /\ run.stage = "reply" => registry = run.reg
  BY <1>1, <1>2 DEF WholeInv
<1>4. \A i : Claimed(i)' <=> Claimed(i)
  BY <1>1 DEF Claimed
<1>5. OrderInv'
  BY <1>1, <1>3, <1>4 DEF WholeInv, OrderInv, Final, E, Sent, Links
<1>6. NewInv'
  <2>1. NewInv /\ run.pre \subseteq Ids
    BY <1>3 DEF WholeInv, SyncInv, SyncTypes, Runs
  <2>2. \A i \in run.pre : notes'[i].type # "never"
    BY <1>1, <2>1 DEF NewInv, NotesStep
  <2>3. Through' = Through /\ Named(disk)' = Named(disk) /\ ResultIds' = ResultIds
    BY <1>1 DEF Through, Named, ResultIds
  <2> QED
    BY <1>1, <1>4, <2>1, <2>2, <2>3 DEF NewInv, Deleting
<1>7. ASSUME run.clean PROVE DoneInv' /\ GoneOrphans'
  <2>1. Through' = Through /\ ResultIds' = ResultIds
    BY <1>1 DEF Through, ResultIds
  <2>2. DoneInv'
    <3>1. ASSUME NEW k \in Through PROVE DoneAt(k)'
      <4>1. DoneAt(k)
        BY <1>3, <1>7, <3>1 DEF WholeInv, DoneInv
      <4>2. Sent(disk)' = Sent(disk)
        BY <1>1 DEF Sent, Links
      <4>3. \A i, e : Settles(run.reg, i, e)' <=> Settles(run.reg, i, e)
        BY <1>1 DEF Settles, EntryHash, Hash
      <4> QED
        BY <1>1, <1>4, <4>1, <4>2, <4>3 DEF DoneAt, ResultOf
    <3> QED
      BY <2>1, <3>1 DEF DoneInv
  <2>3. ASSUME Final, NEW i \in Ids \ ResultIds, OrphanIn(run.reg, i)'
        PROVE  Deleting /\ i \in run.doomed
    <3>1. run.reg \in [Ids -> Records]
      BY DEF SyncInv, SyncTypes, Runs
    <3>2. PICK reg \in [Ids -> Records] : reg = run.reg
      BY <3>1
    <3>3. OrphanIn(reg, i)'
      BY <1>1, <2>3, <3>2 DEF OrphanIn
    <3>4. OrphanIn(run.reg, i)
      BY <3>2, <3>3, UserOrphans
    <3> QED
      BY <1>3, <1>7, <2>3, <3>4 DEF WholeInv, GoneOrphans
  <2>4. GoneOrphans'
    BY <1>1, <2>1, <2>3 DEF GoneOrphans, Final, Deleting, Ids
  <2> QED
    BY <2>2, <2>4
<1> QED
  BY <1>3, <1>5, <1>6, <1>7 DEF WholeInv

LEMMA WholeNext ==
  ASSUME SyncInv, TruthInv, HandInv, WholeInv, [Next]_vars
  PROVE  WholeInv'
<1>1. CASE UNCHANGED vars
  <2>1. /\ notes' = notes /\ registry' = registry /\ run' = run /\ disk' = disk
        /\ buffer' = buffer /\ archive' = archive
    BY <1>1 DEF vars
  <2>2. OrderInv' <=> OrderInv
    BY <2>1 DEF OrderInv, Sent, Links, Final, Claimed, E
  <2>3. NewInv' <=> NewInv
    BY <2>1 DEF NewInv, Deleting, Registered, Named, ResultIds, Through, Claimed
  <2>4. DoneInv' <=> DoneInv
    BY <2>1 DEF DoneInv, Through, DoneAt, Sent, Links, Claimed, Settles, EntryHash, Hash, ResultOf
  <2>5. GoneOrphans' <=> GoneOrphans
    BY <2>1 DEF GoneOrphans, Final, ResultIds, OrphanIn, Live, Exists, Named, Hash, Deleting
  <2> QED
    BY <2>1, <2>2, <2>3, <2>4, <2>5 DEF WholeInv, Whole, Idling
<1>2. CASE \/ EditHeading \/ InsertHeading \/ CopyHeading \/ ClearIds \/ RemoveHeading
           \/ ArchiveHeading \/ RemoveArchived \/ LoseRegistry \/ SaveBuffer
  <2>1. Idling /\ run' = run
    BY <1>2 DEF EditHeading, InsertHeading, CopyHeading, ClearIds, RemoveHeading,
       ArchiveHeading, RemoveArchived, LoseRegistry, SaveBuffer, Command
  <2> QED
    BY <2>1 DEF WholeInv, Whole, Idling
<1>3. CASE WriteBack \/ Kill
  BY <1>3 DEF WriteBack, Kill, Idle, WholeInv, Whole, Idling
<1> QED
  BY <1>1, <1>2, <1>3, StartWhole, UserWhole, RunWhole DEF Next, Starts

-----------------------------------------------------------------------------
(* After a whole clean sync                                                *)

LEMMA WriteBackRest ==
  ASSUME SyncInv, WholeInv, WriteBack, settled'
  PROVE  SettledInv'
<1>1. /\ run.stage = "reply" /\ run.clean /\ run.complete /\ run.kind = "sync" /\ buffer = disk
      /\ buffer' = WrittenBack /\ disk' = WrittenBack
      /\ notes' = notes /\ registry' = registry /\ archive' = archive /\ Idling'
  BY DEF WriteBack, Idle, Idling
<1>2. /\ OrderInv /\ NewInv /\ DoneInv /\ GoneOrphans /\ registry = run.reg /\ Whole
      /\ run \in Runs /\ disk \in Seq(Headings) /\ DOMAIN disk = 1 .. Len(disk)
      /\ disk' \in Seq(Headings) /\ Len(disk) \in Nat
  <2>1. Whole
    BY <1>1 DEF Whole, Idling
  <2>2. SyncInv'
    BY WriteBackInv
  <2> QED
    BY <1>1, <2>1, <2>2 DEF WholeInv, SyncInv, SyncTypes
<1>3. Through = DOMAIN disk
  <2>1. run.todo = <<>>
    BY <1>1, <1>2 DEF OrderInv, Final
  <2>2. Len(run.todo) = 0
    BY <2>1
  <2> QED
    BY <1>2, <2>2 DEF Through
<1>4. /\ DOMAIN disk' = DOMAIN disk
      /\ \A k \in DOMAIN disk :
           /\ disk'[k].name = disk[k].name /\ disk'[k].type = disk[k].type
           /\ disk'[k].text = disk[k].text /\ disk'[k].deck = disk[k].deck
           /\ disk'[k].linked /\ disk[k].linked
           /\ ResultOf(k) = {} => disk'[k].id = disk[k].id
           /\ ResultOf(k) # {} => disk'[k].id = (CHOOSE r \in ResultOf(k) : TRUE).id
  <2>1. DOMAIN disk' = DOMAIN disk
    BY <1>1 DEF WrittenBack
  <2>2. ASSUME NEW k \in DOMAIN disk
        PROVE  /\ disk'[k].name = disk[k].name /\ disk'[k].type = disk[k].type
               /\ disk'[k].text = disk[k].text /\ disk'[k].deck = disk[k].deck
               /\ disk'[k].linked /\ disk[k].linked
               /\ ResultOf(k) = {} => disk'[k].id = disk[k].id
               /\ ResultOf(k) # {} => disk'[k].id = (CHOOSE r \in ResultOf(k) : TRUE).id
    <3>1. disk[k] \in Headings /\ disk[k].linked
      BY <1>1, <1>2 DEF OrderInv
    <3>2. CASE ResultOf(k) = {}
      BY <1>1, <3>1, <3>2 DEF WrittenBack, ResultsFor, ResultOf
    <3>3. CASE ResultOf(k) # {}
      <4>1. PICK i : i = (CHOOSE r \in ResultOf(k) : TRUE).id
        OBVIOUS
      <4>2. disk'[k] = [disk[k] EXCEPT !.id = i, !.linked = TRUE, !.type = disk[k].type]
        BY <1>1, <3>3, <4>1 DEF WrittenBack, ResultsFor, ResultOf
      <4> QED
        BY <3>1, <3>3, <4>1, <4>2 DEF Headings
    <3> QED
      BY <3>2, <3>3
  <2> QED
    BY <2>1, <2>2
<1>5. \A r \in run.results : r.n \in DOMAIN disk /\ disk'[r.n].id = r.id /\ r.id \in Ids
  <2>1. ASSUME NEW r \in run.results
        PROVE  r.n \in DOMAIN disk /\ disk'[r.n].id = r.id /\ r.id \in Ids
    <3>1. r.n \in Through /\ \A q \in run.results : q.n = r.n => q = r
      BY <1>2 DEF NewInv
    <3>2. (CHOOSE q \in ResultOf(r.n) : TRUE) = r /\ ResultOf(r.n) # {}
      BY <3>1 DEF ResultOf
    <3> QED
      BY <1>2, <1>3, <1>4, <3>1, <3>2 DEF Runs
  <2> QED
    BY <2>1
<1>6. ASSUME NEW k \in DOMAIN disk
      PROVE  /\ Sent(disk)'[k].text = disk[k].text /\ Sent(disk)'[k].id = disk'[k].id
             /\ Sent(disk)'[k].type = Sent(disk)[k].type
             /\ EntryHash(Sent(disk)[k], Sent(disk)[k].type)
                  = EntryHash(Sent(disk)'[k], Sent(disk)'[k].type)
  <2>1. Links(disk, k)' = Links(disk, k)
    BY <1>4, <1>6 DEF Links
  <2>2. PICK e, f : e = Sent(disk)[k] /\ f = Sent(disk)'[k]
    OBVIOUS
  <2>3. /\ e.text = disk[k].text /\ e.type = disk[k].type /\ e.deck = disk[k].deck
        /\ e.link = Links(disk, k)
    BY <1>6, <2>2 DEF Sent
  <2>4. /\ f.text = disk'[k].text /\ f.type = disk'[k].type /\ f.deck = disk'[k].deck
        /\ f.link = Links(disk, k)' /\ f.id = disk'[k].id
    BY <1>4, <1>6, <2>2 DEF Sent, Links
  <2>5. f.text = e.text /\ f.type = e.type /\ f.deck = e.deck /\ f.link = e.link
    BY <1>4, <1>6, <2>1, <2>3, <2>4
  <2>6. EntryHash(e, e.type) = EntryHash(f, f.type)
    BY <2>5 DEF EntryHash, Hash
  <2> QED
    BY <1>4, <1>6, <2>2, <2>3, <2>4, <2>5, <2>6
<1>7. ASSUME NEW k \in DOMAIN disk
      PROVE  LET e == Sent(disk)'[k] IN
             \/ e.text \in Invalid
             \/ e.id # NoId /\ \E l \in DOMAIN disk : l # k /\ disk'[l].id = e.id
             \/ Settles(registry, e.id, e)
  <2>1. PICK e : e = Sent(disk)[k]
    OBVIOUS
  <2>2. PICK f : f = Sent(disk)'[k]
    OBVIOUS
  <2>3. /\ f.text = e.text /\ f.id = disk'[k].id /\ f.type = e.type /\ e.id = disk[k].id
        /\ EntryHash(e, e.type) = EntryHash(f, f.type)
    <3>1. e.text = disk[k].text /\ e.id = disk[k].id
      BY <1>7, <2>1 DEF Sent
    <3> QED
      BY <1>6, <1>7, <2>1, <2>2, <3>1
  <2>4. DoneAt(k)
    BY <1>2, <1>3, <1>7 DEF DoneInv
  <2>5. CASE e.id # NoId /\ Claimed(e.id)
    <3>1. PICK l \in DOMAIN disk : l # k /\ disk[l].id = disk[k].id
      BY <1>2, <1>7, <2>3, <2>5, ClaimedTwice DEF OrderInv
    <3>2. \A r \in run.results : r.n # k /\ r.n # l
      BY <1>2, <2>3, <2>5, <3>1 DEF NewInv
    <3>3. disk'[k].id = disk[k].id /\ disk'[l].id = disk[l].id
      BY <1>4, <1>7, <3>1, <3>2 DEF ResultOf
    <3> QED
      BY <2>2, <2>3, <2>5, <3>1, <3>3
  <2>6. ASSUME NEW r \in run.results, r.n = k, Settles(run.reg, r.id, e)
        PROVE  Settles(registry, f.id, f)
    BY <1>2, <1>5, <2>3, <2>6 DEF Settles
  <2>7. CASE Settles(run.reg, e.id, e) /\ ResultOf(k) = {}
    BY <1>2, <1>4, <1>7, <2>2, <2>3, <2>7 DEF Settles
  <2> QED
    BY <2>1, <2>2, <2>3, <2>4, <2>5, <2>6, <2>7 DEF DoneAt
<1>8. ASSUME NEW i \in Ids, OrphanIn(registry, i)' PROVE FALSE
  <2>1. /\ Exists(i) /\ run.reg[i].type # "none" /\ i \notin Named(disk)'
        /\ i \notin archive
    BY <1>1, <1>2, <1>8 DEF OrphanIn, Live, Exists
  <2>2. i # NoId
    BY PlannerAssumption DEF Ids, NoId
  <2>3. \A k \in DOMAIN disk : disk'[k].id # i
    BY <1>4, <2>1, <2>2 DEF Named
  <2>4. i \notin ResultIds
    BY <1>5, <2>3 DEF ResultIds
  <2>5. i \notin Named(disk)
    <3>1. SUFFICES ASSUME NEW k \in DOMAIN disk, disk[k].id = i PROVE FALSE
      BY DEF Named
    <3>2. ResultOf(k) # {}
      BY <1>4, <2>3, <3>1
    <3>3. run.reg[i].type = "none"
      BY <1>2, <2>2, <3>1, <3>2 DEF NewInv, ResultOf
    <3> QED
      BY <2>1, <3>3
  <2>6. OrphanIn(run.reg, i)
    BY <1>1, <1>2, <1>8, <2>1, <2>5 DEF OrphanIn, Live, Exists, Hash
  <2> QED
    BY <1>1, <1>2, <2>4, <2>6 DEF GoneOrphans, Final, Deleting
<1>9. AtRestUnder(registry)'
  <2>1. \A k \in DOMAIN disk' :
          LET e == Sent(disk)'[k] IN
          \/ e.text \in Invalid
          \/ e.id # NoId /\ \E l \in DOMAIN disk' : l # k /\ disk'[l].id = e.id
          \/ Settles(registry', e.id, e)
    BY <1>1, <1>4, <1>7
  <2>2. \A i \in Ids : ~OrphanIn(registry, i)'
    BY <1>8
  <2> QED
    BY <2>1, <2>2 DEF AtRestUnder, Ids, Settles, EntryHash, Hash
<1> QED
  BY <1>1, <1>4, <1>9 DEF SettledInv

\* A sync of the file as the last one left it.
LEMMA SyncRest ==
  ASSUME SyncInv, SettledInv, Sync, settled'
  PROVE  SettledInv'
<1>1. /\ settled /\ buffer = disk /\ disk' = Linked(disk) /\ Idling
      /\ notes' = notes /\ archive' = archive
  BY DEF Sync, PrepareIds, MayStart
<1>2. /\ run'.stage = "entry" /\ run'.reg = registry /\ run'.results = {}
      /\ run'.kind = "sync" /\ run'.complete
  BY StartsFields DEF Starts
<1>3. disk' = disk
  <2>1. disk \in Seq(Headings) /\ \A k \in DOMAIN disk : disk[k].linked
    BY <1>1 DEF SyncInv, SyncTypes, SettledInv
  <2>2. ASSUME NEW k \in DOMAIN disk PROVE [disk[k] EXCEPT !.linked = TRUE] = disk[k]
    <3>1. disk[k] \in Headings /\ disk[k].linked = TRUE
      <4>1. disk[k] \in Headings /\ disk[k].linked
        BY <2>1, <2>2
      <4>2. disk[k].linked \in BOOLEAN
        BY <4>1 DEF Headings
      <4> QED
        BY <4>1, <4>2
    <3> QED
      BY <3>1 DEF Headings
  <2> QED
    BY <1>1, <2>1, <2>2 DEF Linked
<1>4. AtRestUnder(registry)
  BY <1>1 DEF SettledInv
<1>5. AtRestUnder(run.reg)'
  BY <1>1, <1>2, <1>3, <1>4
     DEF AtRestUnder, Sent, Links, Settles, EntryHash, Hash, OrphanIn, Live, Exists, Named
<1> QED
  BY <1>2, <1>5 DEF SettledInv, Idling

\* A run over a file that needs no request.
Resting ==
  /\ Syncing /\ settled /\ run.results = {}
  /\ run.stage \in {"entry", "confirm", "save"} /\ AtRestUnder(run.reg)

LEMMA RestingSkips ==
  ASSUME Resting, run.todo # <<>>
  PROVE  Decision(E) = "skip"
<1>1. /\ Syncing /\ AtRestUnder(run.reg)
  BY DEF Resting
<1>2. PICK n \in DOMAIN disk, e \in Entries : n = E.n /\ e = E /\ e = Sent(disk)[n]
  BY <1>1, NextHeading
<1>3. Claimed(E.id) <=> \E l \in DOMAIN disk : l # n /\ disk[l].id = E.id
  BY <1>1, <1>2, NextHeading
<1>4. \/ e.text \in Invalid
      \/ e.id # NoId /\ Claimed(e.id)
      \/ Settles(run.reg, e.id, e)
  BY <1>1, <1>2, <1>3 DEF AtRestUnder
<1> QED
  BY <1>2, <1>4 DEF Decision, Settles

\* None of its candidates is still the note the record says.
LEMMA RestingConfirms ==
  ASSUME Resting, run.stage = "confirm"
  PROVE  {i \in run.doomed : Owned(i)} = {}
<1>1. SUFFICES ASSUME NEW i \in run.doomed, Owned(i) PROVE FALSE
  OBVIOUS
<1>2. /\ Syncing /\ AtRestUnder(run.reg) /\ Deleting
  BY DEF Resting, Deleting
<1>3. /\ i \in Ids /\ run.reg[i].path = "in" /\ i \notin Named(disk) \cup archive
  BY <1>1, <1>2, SyncingFacts DEF NewInv, Runs, RunInv, DoomedInv
<1>4. OrphanIn(run.reg, i)
  BY <1>1, <1>3 DEF OrphanIn, Owned, Live, Exists, Types
<1> QED
  BY <1>2, <1>3, <1>4 DEF AtRestUnder

\* Such a run only passes its entries over, and ends.
LEMMA RestingStep ==
  ASSUME Resting, RunStep
  PROVE  /\ notes' = notes /\ run'.results = {}
         /\ run'.stage \in {"entry", "confirm", "save", "reply"}
         /\ \A i \in Ids : /\ run'.reg[i].type = run.reg[i].type
                           /\ run'.reg[i].hash = run.reg[i].hash
                           /\ run'.reg[i].deck = run.reg[i].deck
                           /\ i \notin Named(disk) \cup archive
                                => run'.reg[i].path = run.reg[i].path
<1>1. /\ Syncing /\ run.results = {} /\ run.stage \in {"entry", "confirm", "save"}
      /\ run \in Runs /\ Stepping /\ Running /\ run.kind = "sync" /\ RunInv
      /\ run.census = Census(disk)
  BY SyncingFacts DEF Resting, RunInv, CensusInv
<1>2. CASE run.stage = "entry" /\ run.todo # <<>>
  <2>1. Decision(E) = "skip"
    BY <1>2, RestingSkips
  <2>2. SkipEntry
    BY <1>1, <1>2, <2>1 DEF RunStep, PlannerStep, RefuseEntry, AddNote, QueryNote, UpdateFields,
       UpdateTags, MoveDeck, Reconcile, Confirm, DeleteNotes, SkipMigration, MigrateAdd,
       MigrationDone, Save, AtEntry
  <2> QED
    BY <1>1, <1>2, <2>2, NextFields DEF SkipEntry
<1>3. CASE run.stage = "entry" /\ run.todo = <<>>
  <2>1. Reconcile
    BY <1>1, <1>3 DEF RunStep, PlannerStep, SkipEntry, RefuseEntry, AddNote, QueryNote,
       UpdateFields, UpdateTags, MoveDeck, Confirm, DeleteNotes, SkipMigration, MigrateAdd,
       MigrationDone, Save, AtEntry
  <2>2. \A i \in Ids : i \notin Named(disk) \cup archive => SeenAt(i) = {}
    <3>1. \A c \in run.census : c.id \in Named(disk) \cup archive
      BY <1>1 DEF Census
    <3> QED
      BY <3>1 DEF SeenAt
  <2>3. notes' = notes
    BY <2>1 DEF Reconcile
  <2> QED
    BY <1>1, <2>1, <2>2, <2>3, ReconcileFields, RefreshedFields
<1>4. CASE run.stage = "confirm"
  <2>1. PICK o \in Outcomes : Confirm(o)
    BY <1>4 DEF RunStep, PlannerStep, SkipEntry, RefuseEntry, AddNote, QueryNote,
       UpdateFields, UpdateTags, MoveDeck, Reconcile, DeleteNotes, SkipMigration, MigrateAdd,
       MigrationDone, Save, AtEntry
  <2>2. run' = AfterDelete({}, Clean(o)) /\ Clean(o) \in BOOLEAN /\ notes' = notes
    BY <1>1, <1>4, <2>1, RestingConfirms DEF Confirm, Clean, Runs
  <2>3. Deleting
    BY <1>4 DEF Deleting
  <2> QED
    BY <1>1, <2>2, <2>3, DeletedFields
<1>5. CASE run.stage = "save"
  <2>1. PICK o \in Outcomes : Save(o)
    BY <1>5 DEF RunStep, PlannerStep, SkipEntry, RefuseEntry, AddNote, QueryNote,
       UpdateFields, UpdateTags, MoveDeck, Reconcile, Confirm, DeleteNotes, SkipMigration,
       MigrateAdd, MigrationDone, AtEntry
  <2>2. notes' = notes /\ run'.stage = "reply"
    BY <1>1, <2>1 DEF Save, Runs
  <2> QED
    BY <1>1, <2>1, <2>2, SaveFields
<1> QED
  BY <1>1, <1>2, <1>3, <1>4, <1>5

LEMMA SettledRuns ==
  ASSUME SyncInv, TruthInv, HandInv, WholeInv, SettledInv, settled, RunStep
  PROVE  Resting
<1>1. run.stage \notin {"idle", "reply"} /\ ~Idling
  BY DEF RunStep, PlannerStep, SkipEntry, RefuseEntry, AddNote, QueryNote, UpdateFields,
     UpdateTags, MoveDeck, Reconcile, Confirm, DeleteNotes, SkipMigration, MigrateAdd,
     MigrationDone, Save, AtEntry, Idling
<1>2. /\ run.kind = "sync" /\ run.complete /\ run.results = {}
      /\ run.stage \in {"entry", "confirm", "save"} /\ AtRestUnder(run.reg)
  BY <1>1 DEF SettledInv
<1> QED
  BY <1>1, <1>2 DEF Resting, Syncing, Whole, WholeInv, Stepping, Running, RunStep

LEMMA RunRest ==
  ASSUME SyncInv, TruthInv, HandInv, WholeInv, SettledInv, RunStep, settled'
  PROVE  SettledInv'
<1>1. settled /\ disk' = disk /\ archive' = archive
  BY DEF RunStep, files
<1>2. Resting /\ Syncing /\ AtRestUnder(run.reg) /\ run.kind = "sync" /\ run.complete
  BY <1>1, SettledRuns, SyncingFacts DEF Resting
<1>3. /\ notes' = notes /\ run'.results = {}
      /\ run'.stage \in {"entry", "confirm", "save", "reply"} /\ SameRun(run')
      /\ \A i \in Ids : /\ run'.reg[i].type = run.reg[i].type
                        /\ run'.reg[i].hash = run.reg[i].hash
                        /\ run'.reg[i].deck = run.reg[i].deck
                        /\ i \notin Named(disk) \cup archive => run'.reg[i].path = run.reg[i].path
  BY <1>2, RestingStep, RunSame, SyncingFacts
<1>4. ASSUME NEW k \in DOMAIN disk
      PROVE  LET e == Sent(disk)[k] IN
             \/ e.text \in Invalid
             \/ e.id # NoId /\ \E l \in DOMAIN disk : l # k /\ disk[l].id = e.id
             \/ Settles(run'.reg, e.id, e)
  <2>1. PICK e : e = Sent(disk)[k] /\ e.id = disk[k].id
    <3>1. Sent(disk)[k].id = disk[k].id
      BY <1>4 DEF Sent
    <3> QED
      BY <3>1
  <2>2. e.id # NoId => e.id \in Ids
    <3>1. disk[k] \in Headings
      BY <1>2, <1>4, SyncingFacts
    <3> QED
      BY <2>1, <3>1, PlannerAssumption DEF Headings, Ids, NoId
  <2>3. Settles(run.reg, e.id, e) => Settles(run'.reg, e.id, e)
    BY <1>3, <2>2 DEF Settles
  <2> QED
    BY <1>2, <1>4, <2>1, <2>3 DEF AtRestUnder
<1>5. ASSUME NEW i \in Ids, OrphanIn(run.reg, i)' PROVE FALSE
  <2>1. i \notin Named(disk) \cup archive
    BY <1>1, <1>5 DEF OrphanIn, Named
  <2>2. OrphanIn(run.reg, i)
    BY <1>1, <1>3, <1>5, <2>1 DEF OrphanIn, Live, Exists, Hash
  <2> QED
    BY <1>2, <2>2 DEF AtRestUnder
<1>6. AtRestUnder(run.reg)'
  <2>1. Sent(disk)' = Sent(disk)
    BY <1>1 DEF Sent, Links
  <2>2. \A i \in Ids : ~OrphanIn(run.reg, i)'
    BY <1>5
  <2> QED
    BY <1>1, <1>4, <2>1, <2>2 DEF AtRestUnder, Ids, Settles, EntryHash, Hash
<1> QED
  BY <1>2, <1>3, <1>6 DEF SettledInv, Idling, SameRun

LEMMA UserRest ==
  ASSUME SyncInv, SettledInv, EditNote \/ DeleteNote, settled'
  PROVE  SettledInv'
<1>1. /\ settled /\ run' = run /\ registry' = registry /\ disk' = disk
  BY UserStep DEF files
<1>2. ASSUME NEW reg \in [Ids -> Records], AtRestUnder(reg) PROVE AtRestUnder(reg)'
  <2>1. Sent(disk)' = Sent(disk)
    BY <1>1 DEF Sent, Links
  <2>2. \A i \in Ids : ~OrphanIn(reg, i)'
    BY <1>2, UserOrphans DEF AtRestUnder
  <2> QED
    BY <1>1, <1>2, <2>1, <2>2 DEF AtRestUnder, Ids, Settles, EntryHash, Hash
<1>3. PICK reg \in [Ids -> Records] : reg = IF Idling THEN registry ELSE run.reg
  BY DEF SyncInv, SyncTypes, Runs
<1>4. AtRestUnder(reg)
  BY <1>1, <1>3 DEF SettledInv
<1>5. AtRestUnder(reg)'
  BY <1>2, <1>4
<1> QED
  BY <1>1, <1>3, <1>5 DEF SettledInv, Idling

LEMMA SettledNext ==
  ASSUME SyncInv, TruthInv, HandInv, WholeInv, SettledInv, [Next]_vars
  PROVE  SettledInv'
<1>1. SUFFICES ASSUME settled' PROVE SettledInv'
  BY DEF SettledInv
<1>2. CASE UNCHANGED vars
  BY <1>2 DEF vars, SettledInv, Idling, AtRestUnder, Sent, Links, Settles, EntryHash, Hash,
     OrphanIn, Live, Exists, Named
<1>3. CASE \/ EditHeading \/ InsertHeading \/ CopyHeading \/ ClearIds \/ RemoveHeading
           \/ ArchiveHeading \/ RemoveArchived \/ LoseRegistry \/ SaveBuffer
           \/ SyncUnreadable \/ Setup \/ Kill
  BY <1>1, <1>3 DEF EditHeading, InsertHeading, CopyHeading, ClearIds, RemoveHeading,
     ArchiveHeading, RemoveArchived, LoseRegistry, SaveBuffer, Command, SyncUnreadable, Setup,
     Kill
<1> QED
  BY <1>1, <1>2, <1>3, SyncRest, RunRest, UserRest, WriteBackRest DEF Next

-----------------------------------------------------------------------------
(* What follows: the notes and the headings                                *)

\* What the registry, or the run that works on it, records of a note is what the
\* collection holds, unless the user of Anki or a failed request changed the note
\* (loose); and the file a whole clean sync has ended on needs no request.
THEOREM RecordsInvariant == ASSUME ~Careless PROVE Spec => [](SyncInv /\ RecordsInv)
<1>1. Init => SyncInv /\ RecordsInv
  <2>1. Init => Idling /\ ~settled
    BY DEF Init, PlannerInit, Idle, Idling
  <2> QED
    BY <2>1, InitInv, TruthInit DEF RecordsInv, WholeInv, Whole, SettledInv
<1>2. SyncInv /\ RecordsInv /\ [Next]_vars => (SyncInv /\ RecordsInv)'
  BY NextInv, TruthNext, WholeNext, SettledNext DEF RecordsInv
<1> QED
  BY <1>1, <1>2, PTL DEF Spec

\* Mirror: when a whole sync has ended without an error, every heading that is
\* valid and alone with its identifier has a note, which carries its text, tags,
\* link and deck unless it is loose.
THEOREM NotesMirrorHeadings == ASSUME ~Careless PROVE Spec => []Mirror
<1>1. SyncInv /\ RecordsInv => Mirror
  <2> SUFFICES ASSUME SyncInv, RecordsInv, settled, Idling, NEW k \in DOMAIN disk,
                      disk[k].text \notin Invalid,
                      disk[k].id # NoId => \A l \in DOMAIN disk : l # k => disk[l].id # disk[k].id
               PROVE  LET h == disk[k] IN
                      /\ h.id # NoId
                      /\ Exists(h.id) /\ notes[h.id].type = h.type /\ h.id \notin loose
                         => /\ notes[h.id].text = h.text /\ notes[h.id].tags = h.text
                            /\ notes[h.id].link = Links(disk, k)
                            /\ notes[h.id].deck = h.deck
    BY DEF Mirror
  <2>1. AtRestUnder(registry) /\ TruthInv
    BY DEF RecordsInv, SettledInv
  <2>2. PICK e, i : e = Sent(disk)[k] /\ i = disk[k].id
    OBVIOUS
  <2>3. /\ e.id = i /\ e.text = disk[k].text /\ e.type = disk[k].type
        /\ e.deck = disk[k].deck /\ e.link = Links(disk, k)
    BY <2>2 DEF Sent
  <2>4. Settles(registry, i, e)
    BY <2>1, <2>2, <2>3 DEF AtRestUnder
  <2>5. i # NoId /\ registry[i].type # "none"
    BY <2>4 DEF Settles
  <2>6. i \in Ids
    <3>1. disk[k] \in Headings
      BY DEF SyncInv, SyncTypes
    <3> QED
      BY <2>2, <2>5, <3>1, PlannerAssumption DEF Headings, Ids, NoId
  <2>7. ASSUME Exists(i), notes[i].type = e.type, i \notin loose
        PROVE  /\ notes[i].text = e.text /\ notes[i].tags = e.text
               /\ notes[i].link = e.link /\ notes[i].deck = e.deck
    <3>1. registry[i].type = e.type
      BY <2>1, <2>5, <2>6, <2>7 DEF TruthInv, Known
    <3>2. registry[i].hash = EntryHash(e, e.type)
      BY <2>4, <3>1 DEF Settles
    <3>3. TrueOf(registry, i)
      BY <2>1, <2>6, <2>7, RestTruth DEF Live, Idling
    <3>4. Content(i) = EntryHash(e, e.type)
      BY <2>5, <3>2, <3>3 DEF TrueOf
    <3> QED
      BY <3>4 DEF Content, EntryHash, Hash
  <2> QED
    BY <2>2, <2>3, <2>5, <2>7
<1> QED
  BY <1>1, RecordsInvariant, PTL

\* OrphansCollected: after such a sync no note is left that no heading names and
\* that the registry knows, as it is, from a place that is not excluded.
THEOREM NoOrphanIsLeft == ASSUME ~Careless PROVE Spec => []OrphansCollected
<1>1. RecordsInv => OrphansCollected
  BY DEF RecordsInv, SettledInv, AtRestUnder, OrphanIn, OrphansCollected, Live
<1> QED
  BY <1>1, RecordsInvariant, PTL

\* Idempotent: a sync of the file as such a sync left it writes nothing to the
\* collection.
THEOREM RepeatedSyncIsNoOp == ASSUME ~Careless PROVE Spec => Idempotent
<1> DEFINE A == settled /\ RunStep => notes' = notes
<1>1. SyncInv /\ RecordsInv /\ [Next]_vars => A
  BY SettledRuns, RestingStep DEF RecordsInv
<1> HIDE DEF A
<1>2. SyncInv /\ RecordsInv /\ [Next]_vars => [A]_vars
  BY <1>1
<1>3. Spec => [][A]_vars
  BY <1>2, RecordsInvariant, PTL DEF Spec
<1> QED
  BY <1>3 DEF A, Idempotent

-----------------------------------------------------------------------------
(* How many notes a heading has *)

\* What a step of the process has to show here.
Twining == SyncInv /\ TwinInv /\ RunStep

LEMMA TwinFacts ==
  ASSUME Twining
  PROVE  /\ Stepping /\ Running /\ SyncInv /\ RunInv /\ ~Idling /\ run \in Runs
         /\ NotesStep /\ SyncInv' /\ notes \in [Ids -> Cards]
         /\ disk' = disk /\ buffer' = buffer /\ doubled' = doubled \cup Twice
         /\ NamesInv /\ NamedInv /\ OldInv /\ AddedInv /\ OnceInv /\ GivenUp
         /\ FreeIds \in Nat /\ run.stage \notin {"idle", "reply"}
<1>1. ~Idling /\ run.stage \notin {"idle", "reply"}
  BY DEF Twining, RunStep, PlannerStep, SkipEntry, RefuseEntry, AddNote, QueryNote, UpdateFields,
     UpdateTags, MoveDeck, Reconcile, Confirm, DeleteNotes, SkipMigration, MigrateAdd,
     MigrationDone, Save, AtEntry, Idling
<1>2. Stepping /\ Running
  BY <1>1 DEF Stepping, Running, RunStep, Twining
<1>3. NotesStep /\ SyncInv'
  BY RunStepInv DEF Twining
<1>4. /\ run \in Runs /\ RunInv /\ notes \in [Ids -> Cards] /\ FreeIds \in Nat
  BY <1>2, SteppingFacts
<1> QED
  BY <1>1, <1>2, <1>3, <1>4 DEF Twining, TwinInv, Running, files

\* A note a step makes is of the heading in hand.
LEMMA NewNamed ==
  ASSUME Twining, NEW i \in Ids, ~Exists(i), Exists(i)'
  PROVE  /\ run.todo # <<>> /\ notes'[i].from = E.name /\ notes[i].type = "never"
         /\ run.stage \in {"entry", "add"}
<1>1. /\ Stepping /\ RunInv /\ SyncInv /\ ~Idling /\ run \in Runs /\ notes \in [Ids -> Cards]
      /\ FreeIds \in Nat
  BY TwinFacts
<1>2. notes[i].type \notin Types /\ notes'[i].type \in Types
  BY DEF Exists
<1>3. CASE SkipEntry \/ RefuseEntry \/ Reconcile \/ SkipMigration \/ MigrationDone
  BY <1>2, <1>3 DEF SkipEntry, RefuseEntry, Reconcile, SkipMigration, MigrationDone
<1>4. ASSUME NEW o \in Outcomes, QueryNote(o) \/ Confirm(o) \/ Save(o) PROVE FALSE
  BY <1>2, <1>4 DEF QueryNote, Confirm, Save
<1>5. ASSUME NEW o \in Outcomes, AddNote(o) \/ MigrateAdd(o)
      PROVE  /\ run.todo # <<>> /\ notes'[i].from = E.name /\ notes[i].type = "never"
             /\ run.stage \in {"entry", "add"}
  <2>1. /\ run.todo # <<>> /\ run.stage \in {"entry", "add"}
        /\ ~(run.kind = "migrate" /\ Deleting)
    BY <1>1, <1>5 DEF AddNote, MigrateAdd, AtEntry, RunInv, StageInv, Deleting
  <2>2. FreeIds >= 1
    <3>1. Len(run.todo) \in Nat \ {0}
      BY <1>1, <2>1, EntryFacts
    <3>2. Len(run.todo) <= FreeIds
      BY <1>1, <2>1 DEF RunInv, RoomInv
    <3> QED
      BY <1>1, <3>1, <3>2
  <2>3. Fresh \in Ids /\ notes[Fresh].type = "never"
    BY <2>2, FreshUnused
  <2>4. PICK c : notes' \in {notes, [notes EXCEPT ![Fresh] = c]} /\ c.from = E.name
    <3>1. CASE AddNote(o)
      <4>1. New(E, E.type).from = E.name
        BY DEF New
      <4> QED
        BY <3>1, <4>1 DEF AddNote
    <3>2. CASE MigrateAdd(o)
      <4>1. E \in Entries
        BY <1>1, <2>1, EntryFacts
      <4>2. PICK e : e = [E EXCEPT !.link = FALSE]
        OBVIOUS
      <4>3. e.name = E.name
        BY <4>1, <4>2 DEF Entries
      <4>4. New(e, "own").from = E.name
        BY <4>3 DEF New
      <4>5. notes' \in {notes, [notes EXCEPT ![Fresh] = New(e, "own")]}
        BY <3>2, <4>2 DEF MigrateAdd
      <4> QED
        BY <4>4, <4>5
    <3> QED
      BY <1>5, <3>1, <3>2
  <2>5. i = Fresh
    BY <1>1, <1>2, <2>4
  <2>6. notes'[i] = c
    BY <1>1, <1>2, <2>3, <2>4, <2>5
  <2> QED
    BY <2>1, <2>3, <2>4, <2>5, <2>6
<1>6. ASSUME NEW o \in Outcomes, UpdateFields(o) \/ UpdateTags(o) \/ MoveDeck(o) PROVE FALSE
  <2>1. run.todo # <<>> /\ E.id # NoId
    <3>1. CASE run.stage \in {"update", "tags", "move"}
      BY <1>1, <3>1 DEF RunInv, StageInv
    <3>2. CASE AtEntry("sync") /\ Decision(E) = "update"
      BY <3>2, DecisionFacts DEF AtEntry
    <3> QED
      BY <1>6, <3>1, <3>2 DEF UpdateFields, UpdateTags, MoveDeck
  <2>2. E \in Entries /\ E.id \in Ids
    BY <1>1, <2>1, InHand
  <2>3. \/ notes' = notes
        \/ notes' = [notes EXCEPT ![E.id].text = E.text, ![E.id].link = E.link]
        \/ notes' = [notes EXCEPT ![E.id].tags = E.text]
        \/ notes' = [notes EXCEPT ![E.id].deck = E.deck]
    BY <1>6 DEF UpdateFields, UpdateTags, MoveDeck, Moved
  <2>4. notes'[i].type = notes[i].type
    BY <1>1, <2>2, <2>3, WrittenNotes
  <2> QED
    BY <1>2, <2>4
<1>7. ASSUME NEW o \in Outcomes, DeleteNotes(o) PROVE FALSE
  <2>1. Gone.type \notin Types
    BY DEF Gone, Never, Types
  <2>2. notes'[i] \in {Gone, notes[i]}
    BY <1>7 DEF DeleteNotes
  <2> QED
    BY <1>2, <2>1, <2>2
<1> QED
  BY <1>3, <1>4, <1>5, <1>6, <1>7 DEF Twining, RunStep, PlannerStep

\* A live note that no exemption covers was there before, or the run knows of it.
LEMMA LiveBefore ==
  ASSUME Twining, NEW i \in Live', notes'[i].from \notin doubled', i \notin run'.added
  PROVE  i \in Live /\ notes'[i].from = notes[i].from /\ notes[i].from \notin doubled
<1>1. i \in Ids /\ Exists(i)' /\ doubled' = doubled \cup Twice /\ NotesStep
  BY TwinFacts DEF Live, Ids
<1>2. CASE Exists(i)
  BY <1>1, <1>2 DEF NotesStep, Live, Exists, Types
<1>3. CASE ~Exists(i)
  <2>1. run.todo # <<>> /\ notes'[i].from = E.name
    BY <1>1, <1>3, NewNamed
  <2>2. i \in Unanswered
    BY <1>3 DEF Unanswered, Live
  <2>3. Twice = {E.name}
    BY <2>1, <2>2 DEF Twice
  <2> QED
    BY <1>1, <2>1, <2>3
<1> QED
  BY <1>2, <1>3

LEMMA FewNotes ==
  ASSUME Twining, run.added \subseteq run'.added
  PROVE  NamesInv' /\ NamedInv' /\ OldInv'
<1>1. /\ NamesInv /\ NamedInv /\ OldInv /\ buffer' = buffer /\ doubled \subseteq doubled'
  BY TwinFacts
<1>2. NamesInv'
  BY <1>1 DEF NamesInv
<1>3. NamedInv'
  <2>1. SUFFICES ASSUME NEW i \in Live', NEW k \in DOMAIN buffer,
                        notes'[i].from = buffer[k].name, notes'[i].from \notin doubled',
                        i \notin run'.added
                 PROVE  i = buffer[k].id
    BY <1>1 DEF NamedInv
  <2>2. i \in Live /\ notes[i].from = buffer[k].name /\ notes[i].from \notin doubled
    BY <2>1, LiveBefore
  <2> QED
    BY <1>1, <2>1, <2>2 DEF NamedInv
<1>4. OldInv'
  <2>1. SUFFICES ASSUME NEW i \in Live', NEW j \in Live', notes'[i].from = notes'[j].from,
                        notes'[i].from \notin doubled', i \notin run'.added, j \notin run'.added
                 PROVE  i = j
    BY DEF OldInv
  <2>2. /\ i \in Live /\ notes'[i].from = notes[i].from /\ notes[i].from \notin doubled
        /\ j \in Live /\ notes'[j].from = notes[j].from
    BY <2>1, LiveBefore
  <2> QED
    BY <1>1, <2>1, <2>2 DEF OldInv
<1> QED
  BY <1>2, <1>3, <1>4
\* How a step moves on: it makes and answers nothing, adds the note of the entry or the
\* replacement of a migrated one, or answers that replacement.
Quiet ==
  /\ run'.results = run.results /\ run'.added = run.added
  /\ \/ run'.todo = run.todo
     \/ run.todo # <<>> /\ run'.todo = Tail(run.todo) /\ run'.stage # "add"
  /\ run'.stage = "add" => run.todo # <<>> /\ (E.id \in Live => E.name \in doubled')
  /\ run.kind = "migrate" /\ Deleting => Deleting' /\ run'.fresh = run.fresh

Answers(i) ==
  /\ run.todo # <<>> /\ run'.todo = Tail(run.todo) /\ run'.stage = "entry"
  /\ run'.results = run.results \cup {[n |-> E.n, id |-> i]}
  /\ E.id \in Live /\ E.id \in Live' => E.name \in doubled'

MadeIt ==
  /\ ~(run.kind = "migrate" /\ Deleting)
  /\ Answers(Fresh) /\ run'.added = run.added \cup {Fresh}

Replacing ==
  /\ run.kind = "migrate" /\ ~Deleting
  /\ run'.todo = run.todo /\ run'.results = run.results /\ run'.stage = "confirm"
  /\ run'.fresh = Fresh /\ run'.added = run.added \cup {Fresh}

ReplacedIt == Answers(run.fresh) /\ run'.added = run.added

Moves == run'.kind = run.kind /\ (Quiet \/ MadeIt \/ Replacing \/ ReplacedIt)

LEMMA PassMoves ==
  ASSUME Twining, run.todo # <<>>, ~(run.kind = "migrate" /\ Deleting),
         run' = Next_(run) \/ run' = [Next_(run) EXCEPT !.clean = FALSE]
  PROVE  Moves
<1>1. /\ Next_(run) \in Runs /\ Next_(run).stage = "entry" /\ Next_(run).todo = Tail(run.todo)
      /\ Next_(run).results = run.results /\ Next_(run).added = run.added
      /\ Next_(run).kind = run.kind
  BY TwinFacts, NextFields, Zenon
<1>2. PICK r : r = Next_(run)
  OBVIOUS
<1>3. /\ r \in Runs /\ r.stage = "entry" /\ r.todo = Tail(run.todo)
      /\ r.results = run.results /\ r.added = run.added /\ r.kind = run.kind
  BY <1>1, <1>2
<1>4. run' = r \/ run' = [r EXCEPT !.clean = FALSE]
  BY <1>2
<1>5. /\ run'.stage = "entry" /\ run'.todo = Tail(run.todo)
      /\ run'.results = run.results /\ run'.added = run.added /\ run'.kind = run.kind
  BY <1>3, <1>4 DEF Runs
<1> QED
  BY <1>5 DEF Moves, Quiet

\* A step that only sets fields which are not about notes made and answered.
LEMMA StayMoves ==
  ASSUME Twining, run'.results = run.results, run'.added = run.added, run'.todo = run.todo,
         run'.kind = run.kind, run'.stage # "add",
         run.kind = "migrate" /\ Deleting => Deleting' /\ run'.fresh = run.fresh
  PROVE  Moves
  BY DEF Moves, Quiet

LEMMA AddMoves ==
  ASSUME Twining, NEW o \in Outcomes, AddNote(o)
  PROVE  Moves
<1>1. /\ run \in Runs /\ Running /\ RunInv /\ SyncInv /\ ~Idling
      /\ doubled' = doubled \cup Twice /\ GivenUp
  BY TwinFacts
<1>2. run.todo # <<>> /\ ~(run.kind = "migrate" /\ Deleting)
  BY <1>1 DEF AddNote, AtEntry, RunInv, StageInv, Deleting
<1>3. CASE o # "ok"
  BY <1>2, <1>3, PassMoves DEF AddNote
<1>4. CASE o = "ok"
  <2>1. PICK r : r = Next_(run)
    OBVIOUS
  <2>2. /\ r \in Runs /\ r.stage = "entry" /\ r.todo = Tail(run.todo)
        /\ r.results = run.results /\ r.added = run.added /\ r.kind = run.kind
    <3>1. /\ Next_(run) \in Runs /\ Next_(run).stage = "entry"
          /\ Next_(run).todo = Tail(run.todo) /\ Next_(run).results = run.results
          /\ Next_(run).added = run.added /\ Next_(run).kind = run.kind
      BY <1>1, <1>2, NextFields, Zenon
    <3> QED
      BY <2>1, <3>1
  <2>3. PICK reg, results, added :
           /\ results = run.results \cup {[n |-> E.n, id |-> Fresh]}
           /\ added = run.added \cup {Fresh}
           /\ run' = [r EXCEPT !.reg = reg, !.results = results, !.added = added]
    BY <1>4, <2>1 DEF AddNote
  <2>4. /\ run'.stage = "entry" /\ run'.todo = Tail(run.todo) /\ run'.kind = run.kind
        /\ run'.results = results /\ run'.added = added
    BY <2>2, <2>3 DEF Runs
  <2>5. E.id \in Live => E.name \in doubled'
    <3>1. CASE AtEntry("sync") /\ Decision(E) = "add"
      <4>1. E.text \notin Invalid /\ (E.id = NoId \/ run.reg[E.id].type # "none" => E.id = NoId)
        BY <3>1 DEF Decision
      <4>2. E.id = NoId
        BY <3>1 DEF Decision
      <4> QED
        BY <4>2 DEF Live, Ids, NoId
    <3>2. CASE run.stage = "add"
      BY <1>1, <3>2 DEF GivenUp
    <3> QED
      BY <3>1, <3>2 DEF AddNote
  <2> QED
    BY <1>2, <2>3, <2>4, <2>5 DEF Moves, MadeIt, Answers
<1> QED
  BY <1>3, <1>4

LEMMA QueryMoves ==
  ASSUME Twining, NEW o \in Outcomes, QueryNote(o)
  PROVE  Moves
<1>1. /\ run \in Runs /\ doubled' = doubled \cup Twice
      /\ run.todo # <<>> /\ run.stage = "entry" /\ run.kind = "sync"
  BY TwinFacts DEF QueryNote, AtEntry
<1>2. /\ run'.results = run.results /\ run'.added = run.added /\ run'.todo = run.todo
      /\ run'.kind = run.kind
  BY <1>1 DEF QueryNote, Runs
<1>3. ASSUME run'.stage = "add", E.id \in Live
      PROVE  E.name \in doubled'
  <2>1. E.id \in Abandoned
    BY <1>1, <1>3 DEF Abandoned
  <2> QED
    BY <1>1, <2>1 DEF Twice
<1> QED
  BY <1>1, <1>2, <1>3 DEF Moves, Quiet

LEMMA UpdateMoves ==
  ASSUME Twining, NEW o \in Outcomes, UpdateFields(o) \/ UpdateTags(o) \/ MoveDeck(o)
  PROVE  Moves
<1>1. /\ run \in Runs /\ Stepping /\ Running /\ RunInv /\ ~Idling
  BY TwinFacts
<1>2. /\ run.todo # <<>> /\ run.stage \in {"entry", "update", "tags", "move"}
      /\ ~Deleting /\ E.id # NoId
  <2>1. CASE run.stage \in {"update", "tags", "move"}
    BY <1>1, <2>1 DEF RunInv, StageInv, Deleting
  <2>2. CASE AtEntry("sync") /\ Decision(E) = "update"
    BY <2>2, DecisionFacts DEF AtEntry, Deleting
  <2> QED
    BY <2>1, <2>2 DEF UpdateFields, UpdateTags, MoveDeck
<1>3. E \in Entries /\ E.id \in Ids /\ E.deck \in Places
  BY <1>1, <1>2, InHand
<1>4. CASE run' = [Next_(run) EXCEPT !.clean = FALSE]
  BY <1>2, <1>4, PassMoves
<1>5. ASSUME NEW stage \in {"tags", "move"}, run' = [run EXCEPT !.stage = stage] PROVE Moves
  <2>1. /\ run'.results = run.results /\ run'.added = run.added /\ run'.todo = run.todo
        /\ run'.kind = run.kind /\ run'.stage = stage
    BY <1>1, <1>5 DEF Runs
  <2> QED
    BY <1>2, <2>1, StayMoves
<1>6. ASSUME NEW deck, NEW clean, run' = Updated(deck, clean) PROVE Moves
  <2>1. PICK r : r = Next_(run)
    OBVIOUS
  <2>2. /\ r \in Runs /\ r.stage = "entry" /\ r.todo = Tail(run.todo)
        /\ r.results = run.results /\ r.added = run.added /\ r.kind = run.kind
    <3>1. /\ Next_(run) \in Runs /\ Next_(run).stage = "entry"
          /\ Next_(run).todo = Tail(run.todo) /\ Next_(run).results = run.results
          /\ Next_(run).added = run.added /\ Next_(run).kind = run.kind
      BY <1>1, <1>2, NextFields, Zenon
    <3> QED
      BY <2>1, <3>1
  <2>3. PICK reg, b : run' = [r EXCEPT !.reg = reg, !.clean = b]
    BY <1>6, <2>1 DEF Updated
  <2>4. /\ run'.stage = "entry" /\ run'.todo = Tail(run.todo) /\ run'.kind = run.kind
        /\ run'.results = run.results /\ run'.added = run.added
    BY <2>2, <2>3 DEF Runs
  <2> QED
    BY <1>2, <2>4 DEF Moves, Quiet
<1>7. \/ run' = [Next_(run) EXCEPT !.clean = FALSE]
      \/ \E stage \in {"tags", "move"} : run' = [run EXCEPT !.stage = stage]
      \/ \E deck, clean : run' = Updated(deck, clean)
  <2>1. CASE UpdateFields(o)
    BY <2>1 DEF UpdateFields
  <2>2. CASE UpdateTags(o)
    BY <2>2 DEF UpdateTags
  <2>3. CASE MoveDeck(o)
    BY <2>3 DEF MoveDeck
  <2> QED
    BY <2>1, <2>2, <2>3
<1> QED
  BY <1>4, <1>5, <1>6, <1>7

LEMMA AfterMoves ==
  ASSUME Twining, NEW removed, NEW clean, Deleting, run' = AfterDelete(removed, clean)
  PROVE  Moves
<1>1. /\ run \in Runs /\ Stepping /\ Running /\ RunInv /\ ~Idling /\ NotesStep
      /\ doubled' = doubled \cup Twice
  BY TwinFacts
<1>2. CASE run.kind = "sync"
  <2>1. PICK reg : run' = [run EXCEPT !.stage = "save", !.doomed = {}, !.reg = reg,
                                      !.clean = clean]
    BY <1>2 DEF AfterDelete
  <2>2. /\ run'.results = run.results /\ run'.added = run.added /\ run'.todo = run.todo
        /\ run'.kind = run.kind /\ run'.stage = "save"
    BY <1>1, <2>1 DEF Runs
  <2> QED
    BY <1>2, <2>2, StayMoves
<1>3. CASE run.kind # "sync"
  <2>1. run.kind = "migrate"
    BY <1>1, <1>3 DEF Runs
  <2>2. run.todo # <<>>
    BY <1>1, <2>1 DEF RunInv, DoomedInv, Replaced
  <2>3. PICK r : r = Next_(run)
    OBVIOUS
  <2>4. /\ r \in Runs /\ r.stage = "entry" /\ r.todo = Tail(run.todo)
        /\ r.results = run.results /\ r.added = run.added /\ r.kind = run.kind
    <3>1. /\ Next_(run) \in Runs /\ Next_(run).stage = "entry"
          /\ Next_(run).todo = Tail(run.todo) /\ Next_(run).results = run.results
          /\ Next_(run).added = run.added /\ Next_(run).kind = run.kind
      BY <1>1, <2>2, NextFields, Zenon
    <3> QED
      BY <2>3, <3>1
  <2>5. PICK reg, results :
           /\ results = run.results \cup {[n |-> E.n, id |-> run.fresh]}
           /\ run' = [r EXCEPT !.doomed = {}, !.clean = clean, !.reg = reg,
                               !.results = results]
    BY <1>3, <2>3 DEF AfterDelete
  <2>6. /\ run'.stage = "entry" /\ run'.todo = Tail(run.todo) /\ run'.kind = run.kind
        /\ run'.results = results /\ run'.added = run.added
    BY <2>4, <2>5 DEF Runs
  <2>7. ASSUME E.id \in Live' PROVE E.name \in doubled'
    <3>1. E.id \in Live
      <4>1. E.id \in Ids
        BY <2>7 DEF Live, Ids
      <4>2. notes[E.id].type # "never"
        <5>1. E \in Entries /\ E.n \in DOMAIN disk /\ E.id = disk[E.n].id
          BY <1>1, <2>2, EntryFacts DEF Running
        <5>2. HeadingsInv(disk)
          BY <1>1 DEF Running, SyncInv
        <5>3. disk[E.n].id # NoId
          BY <4>1, <5>1 DEF Ids, NoId
        <5> QED
          BY <5>1, <5>2, <5>3 DEF HeadingsInv, MadeOf
      <4>3. notes'[E.id].type \in Types
        BY <2>7 DEF Live, Exists
      <4> QED
        BY <1>1, <4>1, <4>2, <4>3 DEF NotesStep, Live, Exists
    <3>2. E.id \in Abandoned
      BY <2>1, <2>2, <2>6, <2>7, <3>1 DEF Abandoned, Deleting
    <3> QED
      BY <1>1, <2>2, <3>2 DEF Twice
  <2> QED
    BY <2>2, <2>5, <2>6, <2>7 DEF Moves, ReplacedIt, Answers
<1> QED
  BY <1>2, <1>3
LEMMA RunMoves ==
  ASSUME Twining
  PROVE  Moves
<1>1. /\ run \in Runs /\ Stepping /\ Running /\ RunInv /\ ~Idling
  BY TwinFacts
<1>2. CASE SkipEntry \/ RefuseEntry \/ SkipMigration
  BY <1>2, PassMoves DEF SkipEntry, RefuseEntry, SkipMigration, AtEntry, Deleting
<1>3. ASSUME NEW o \in Outcomes, MigrateAdd(o) PROVE Moves
  <2>1. /\ run.todo # <<>> /\ run.kind = "migrate" /\ ~Deleting
    BY <1>3 DEF MigrateAdd, AtEntry, Deleting
  <2>2. CASE o # "ok"
    BY <1>3, <2>1, <2>2, PassMoves DEF MigrateAdd
  <2>3. CASE o = "ok"
    <3>1. PICK added, doomed :
             /\ added = run.added \cup {Fresh}
             /\ run' = [run EXCEPT !.stage = "confirm", !.fresh = Fresh, !.doomed = doomed,
                                   !.added = added]
      BY <1>3, <2>3 DEF MigrateAdd
    <3>2. /\ run'.stage = "confirm" /\ run'.todo = run.todo /\ run'.kind = run.kind
          /\ run'.results = run.results /\ run'.added = added /\ run'.fresh = Fresh
      BY <1>1, <3>1 DEF Runs
    <3> QED
      BY <2>1, <3>1, <3>2 DEF Moves, Replacing
  <2> QED
    BY <2>2, <2>3
<1>4. CASE Reconcile
  <2>1. PICK reg, doomed, stage :
           /\ stage \in {"save", "confirm"}
           /\ run' = [run EXCEPT !.reg = reg, !.doomed = doomed, !.stage = stage]
    BY <1>4 DEF Reconcile
  <2>2. /\ run'.stage # "add" /\ run'.todo = run.todo /\ run'.kind = run.kind
        /\ run'.results = run.results /\ run'.added = run.added
    BY <1>1, <2>1 DEF Runs
  <2> QED
    BY <1>4, <2>2, StayMoves DEF Reconcile
<1>5. CASE MigrationDone
  <2>1. /\ run'.stage = "save" /\ run'.todo = run.todo /\ run'.kind = run.kind
        /\ run'.results = run.results /\ run'.added = run.added
    BY <1>1, <1>5 DEF Runs, MigrationDone
  <2> QED
    BY <1>5, <2>1, StayMoves DEF MigrationDone, Deleting
<1>6. ASSUME NEW o \in Outcomes, Save(o) PROVE Moves
  <2>1. /\ run'.stage = "reply" /\ run'.todo = run.todo /\ run'.kind = run.kind
        /\ run'.results = run.results /\ run'.added = run.added
    BY <1>1, <1>6 DEF Runs, Save
  <2> QED
    BY <1>6, <2>1, StayMoves DEF Save, Deleting
<1>7. ASSUME NEW o \in Outcomes, Confirm(o) PROVE Moves
  <2>1. Deleting
    BY <1>7 DEF Confirm, Deleting
  <2>2. CASE run' = AfterDelete({}, Clean(o))
    BY <2>1, <2>2, AfterMoves
  <2>3. ASSUME NEW doomed, run' = [run EXCEPT !.stage = "delete", !.doomed = doomed]
        PROVE  Moves
    <3>1. /\ run'.stage = "delete" /\ run'.todo = run.todo /\ run'.kind = run.kind
          /\ run'.results = run.results /\ run'.added = run.added /\ run'.fresh = run.fresh
      BY <1>1, <2>3 DEF Runs
    <3> QED
      BY <3>1, StayMoves DEF Deleting
  <2> QED
    BY <1>7, <2>2, <2>3 DEF Confirm
<1>8. ASSUME NEW o \in Outcomes, DeleteNotes(o) PROVE Moves
  BY <1>8, AfterMoves DEF DeleteNotes, Deleting
<1> QED
  BY <1>2, <1>3, <1>4, <1>5, <1>6, <1>7, <1>8, AddMoves, QueryMoves, UpdateMoves
     DEF Twining, RunStep, PlannerStep

\* The identifier of a heading names nothing that a step has only just made.
LEMMA LiveAsBefore ==
  ASSUME Twining, NEW k \in DOMAIN disk, disk[k].id \in Live'
  PROVE  disk[k].id \in Live
<1>1. PICK i : i = disk[k].id
  OBVIOUS
<1>2. NotesStep /\ HeadingsInv(disk) /\ i \in Live' /\ i \in Ids
  BY <1>1, TwinFacts DEF SyncInv, Live, Ids
<1>3. notes[i].type # "never"
  BY <1>1, <1>2 DEF HeadingsInv, MadeOf, Ids, NoId
<1>4. notes'[i].type \in Types
  BY <1>2 DEF Live, Exists
<1> QED
  BY <1>1, <1>2, <1>3, <1>4 DEF NotesStep, Live, Exists

LEMMA TodoOrder ==
  ASSUME Twining, run.todo # <<>>, run'.todo = Tail(run.todo)
  PROVE  /\ \A j \in DOMAIN run'.todo : run'.todo[j].n = run'.todo[1].n + j - 1
         /\ run'.todo # <<>> => Head(run'.todo).n = E.n + 1
<1>1. /\ run.todo \in Seq(Entries) /\ OnceInv
  BY TwinFacts DEF Runs
<1>2. PICK t \in Seq(Entries) : t = run.todo
  BY <1>1
<1>3. /\ t # <<>> /\ \A j \in DOMAIN t : t[j].n = t[1].n + j - 1
  BY <1>1, <1>2 DEF OnceInv
<1>4. /\ Tail(t) \in Seq(Entries) /\ Len(Tail(t)) = Len(t) - 1 /\ Len(t) \in Nat \ {0}
      /\ \A j \in 1 .. Len(t) - 1 : Tail(t)[j] = t[j + 1]
      /\ DOMAIN t = 1 .. Len(t) /\ DOMAIN Tail(t) = 1 .. Len(t) - 1
      /\ Head(t) = t[1] /\ t[1] \in Entries
      /\ Tail(t) # <<>> => Head(Tail(t)) = Tail(t)[1] /\ Len(t) - 1 >= 1
  BY <1>3
<1>5. \A j \in DOMAIN Tail(t) : Tail(t)[j].n = t[1].n + j
  <2>1. TAKE j \in DOMAIN Tail(t)
  <2>2. Tail(t)[j].n = t[1].n + (j + 1) - 1
    BY <1>3, <1>4
  <2>3. t[1].n \in Nat /\ j \in Nat
    BY <1>4 DEF Entries
  <2> QED
    BY <2>2, <2>3
<1>6. t[1].n \in Nat
  BY <1>4 DEF Entries
<1>7. ASSUME NEW j \in DOMAIN Tail(t)
      PROVE  /\ Tail(t)[j].n = Tail(t)[1].n + j - 1
             /\ Tail(t)[1].n = t[1].n + 1
  <2>1. 1 \in DOMAIN Tail(t) /\ j \in Nat
    BY <1>4
  <2>2. Tail(t)[1].n = t[1].n + 1
    BY <1>5, <2>1
  <2>3. Tail(t)[j].n = t[1].n + j
    BY <1>5
  <2> QED
    BY <1>6, <2>1, <2>2, <2>3
<1>8. Tail(t) # <<>> => Head(Tail(t)).n = t[1].n + 1
  BY <1>4, <1>5
<1>9. run'.todo = Tail(t) /\ E = t[1]
  BY <1>2, <1>4 DEF E
<1> QED
  BY <1>7, <1>8, <1>9

\* What the results say of a heading stays true of them.
LEMMA OldResults ==
  ASSUME Twining, NEW r \in run.results
  PROVE  /\ disk[r.n].id \in Live' => disk[r.n].name \in doubled'
         /\ r.n \in Nat /\ r.n \in DOMAIN disk
<1>1. /\ run \in Runs /\ RunInv /\ OnceInv /\ doubled' = doubled \cup Twice
  BY TwinFacts
<1>2. r.n \in Nat /\ r.n \in DOMAIN disk
  BY <1>1 DEF Runs, RunInv, ResultsInv
<1>3. ASSUME disk[r.n].id \in Live' PROVE disk[r.n].name \in doubled'
  <2>1. disk[r.n].id \in Live
    BY <1>2, <1>3, LiveAsBefore
  <2> QED
    BY <1>1, <2>1 DEF OnceInv
<1> QED
  BY <1>2, <1>3

LEMMA OnceStays ==
  ASSUME Twining, run'.results = run.results,
         run'.todo = run.todo \/ (run.todo # <<>> /\ run'.todo = Tail(run.todo))
  PROVE  OnceInv'
<1>1. OnceInv /\ disk' = disk
  BY TwinFacts
<1>2. \A r \in run.results : disk[r.n].id \in Live' => disk[r.n].name \in doubled'
  BY OldResults
<1>3. CASE run'.todo = run.todo
  BY <1>1, <1>2, <1>3 DEF OnceInv, E
<1>4. CASE run.todo # <<>> /\ run'.todo = Tail(run.todo)
  <2>1. \A j \in DOMAIN run'.todo : run'.todo[j].n = run'.todo[1].n + j - 1
    BY <1>4, TodoOrder
  <2>2. \A r \in run.results : run'.todo # <<>> => r.n < Head(run'.todo).n
    <3>1. TAKE r \in run.results
    <3>2. r.n < E.n /\ r.n \in Nat
      BY <1>1, <1>4, OldResults DEF OnceInv
    <3>3. E.n \in Nat
      BY <1>4, TwinFacts, EntryFacts DEF Entries
    <3>4. run'.todo # <<>> => Head(run'.todo).n = E.n + 1
      BY <1>4, TodoOrder
    <3> QED
      BY <3>2, <3>3, <3>4
  <2> QED
    BY <1>1, <1>2, <2>1, <2>2 DEF OnceInv, E
<1> QED
  BY <1>3, <1>4

LEMMA OnceGrows ==
  ASSUME Twining, NEW i, Answers(i)
  PROVE  OnceInv'
<1>1. /\ OnceInv /\ disk' = disk /\ SyncInv /\ ~Idling
      /\ run.todo # <<>> /\ run'.todo = Tail(run.todo)
  BY TwinFacts DEF Answers
<1>2. /\ E \in Entries /\ E.n \in DOMAIN disk /\ E.id = disk[E.n].id /\ E.name = disk[E.n].name
  BY <1>1, EntryFacts
<1>3. E.n \in Nat
  BY <1>2 DEF Entries
<1>4. PICK a : a = [n |-> E.n, id |-> i]
  OBVIOUS
<1>5. a.n = E.n /\ run'.results = run.results \cup {a}
  BY <1>4 DEF Answers
<1>6. \A r \in run.results : r.n \in Nat /\ r.n < E.n
  BY <1>1, OldResults DEF OnceInv
<1>7. \A j \in DOMAIN run'.todo : run'.todo[j].n = run'.todo[1].n + j - 1
  BY <1>1, TodoOrder
<1>8. \A r \in run'.results : run'.todo # <<>> => r.n < Head(run'.todo).n
  <2>1. TAKE r \in run'.results
  <2>2. r.n \in Nat /\ r.n <= E.n
    BY <1>3, <1>5, <1>6
  <2>3. run'.todo # <<>> => Head(run'.todo).n = E.n + 1
    BY <1>1, TodoOrder
  <2> QED
    BY <1>3, <2>2, <2>3
<1>9. \A r \in run'.results : disk[r.n].id \in Live' => disk[r.n].name \in doubled'
  <2>1. TAKE r \in run'.results
  <2>2. CASE r \in run.results
    BY <2>2, OldResults
  <2>3. CASE r = a
    BY <1>2, <1>5, <2>3, LiveAsBefore DEF Answers
  <2> QED
    BY <1>5, <2>1, <2>2, <2>3
<1>10. \A r, q \in run'.results : q.n = r.n => q = r
  <2>1. TAKE r, q \in run'.results
  <2>2. \A x \in run.results : x.n # a.n
    BY <1>3, <1>5, <1>6
  <2> QED
    BY <1>1, <1>5, <2>1, <2>2 DEF OnceInv
<1> QED
  BY <1>1, <1>7, <1>8, <1>9, <1>10 DEF OnceInv, E

LEMMA RunTwins ==
  ASSUME SyncInv, TwinInv, RunStep
  PROVE  TwinInv'
<1>1. Twining
  BY DEF Twining
<1>2. /\ run.stage \notin {"idle", "reply"} /\ AddedInv /\ Stepping
  BY <1>1, TwinFacts
<1>3. Moves
  BY <1>1, RunMoves
<1>4. ~Idling'
  BY <1>2, RunSame DEF Idling
<1>5. NamesInv' /\ NamedInv' /\ OldInv'
  <2>1. run.added \subseteq run'.added
    BY <1>3 DEF Moves, Quiet, MadeIt, Replacing, ReplacedIt
  <2> QED
    BY <1>1, <2>1, FewNotes
<1>6. CASE Quiet
  <2>1. OnceInv'
    BY <1>1, <1>6, OnceStays DEF Quiet
  <2>2. AddedInv'
    BY <1>2, <1>3, <1>6 DEF Moves, Quiet, AddedInv, ResultIds
  <2>3. GivenUp'
    <3>1. SUFFICES ASSUME run'.stage = "add", Head(run'.todo).id \in Live'
                   PROVE  Head(run'.todo).name \in doubled'
      BY DEF GivenUp, E
    <3>2. run'.todo = run.todo /\ run.todo # <<>> /\ (E.id \in Live => E.name \in doubled')
      BY <1>6, <3>1 DEF Quiet
    <3>3. E.n \in DOMAIN disk /\ E.id = disk[E.n].id
      BY <1>1, <3>2, TwinFacts, EntryFacts
    <3>4. E.id \in Live'
      BY <3>1, <3>2 DEF E
    <3>5. E.id \in Live
      <4>1. PICK k \in DOMAIN disk : E.id = disk[k].id
        BY <3>3
      <4> QED
        BY <1>1, <3>4, <4>1, LiveAsBefore
    <3> QED
      BY <3>2, <3>5 DEF E
  <2> QED
    BY <1>4, <1>5, <2>1, <2>2, <2>3 DEF TwinInv
<1>7. ASSUME NEW i, Answers(i),
             \A j \in run'.added : j \in run.added \/ j = i,
             run.kind = "migrate" /\ Deleting => i = run.fresh
      PROVE  TwinInv'
  <2>1. OnceInv'
    BY <1>1, <1>7, OnceGrows
  <2>2. AddedInv'
    <3>1. SUFFICES ASSUME NEW j \in run'.added
                   PROVE  \/ \E r \in run'.results : r.id = j
                          \/ (run'.kind = "migrate" /\ Deleting' /\ j = run'.fresh)
      BY DEF AddedInv, ResultIds
    <3>2. \E r \in run'.results : r.id = i
      <4>1. [n |-> E.n, id |-> i] \in run'.results
        BY <1>7 DEF Answers
      <4> QED
        BY <4>1
    <3>3. CASE j = i
      BY <3>2, <3>3 DEF ResultIds
    <3>4. CASE j \in ResultIds
      BY <1>7, <3>4 DEF Answers, ResultIds
    <3> QED
      BY <1>2, <1>7, <3>1, <3>3, <3>4 DEF AddedInv
  <2>3. GivenUp'
    BY <1>7 DEF Answers, GivenUp
  <2> QED
    BY <1>4, <1>5, <2>1, <2>2, <2>3 DEF TwinInv
<1>8. CASE Replacing
  <2>1. OnceInv'
    BY <1>1, <1>8, OnceStays DEF Replacing
  <2>2. AddedInv'
    BY <1>2, <1>3, <1>8 DEF Moves, Replacing, AddedInv, ResultIds, Deleting
  <2>3. GivenUp'
    BY <1>8 DEF Replacing, GivenUp
  <2> QED
    BY <1>4, <1>5, <2>1, <2>2, <2>3 DEF TwinInv
<1>9. CASE MadeIt
  <2>1. Answers(Fresh) /\ \A j \in run'.added : j \in run.added \/ j = Fresh
    BY <1>9 DEF MadeIt
  <2> QED
    BY <1>7, <1>9, <2>1 DEF MadeIt
<1>10. CASE ReplacedIt
  BY <1>7, <1>10 DEF ReplacedIt
<1> QED
  BY <1>3, <1>6, <1>8, <1>9, <1>10 DEF Moves

\* What the user of Anki does leaves no heading with more notes.
LEMMA UserTwins ==
  ASSUME SyncInv, TwinInv, EditNote \/ DeleteNote
  PROVE  TwinInv'
<1>1. /\ run' = run /\ disk' = disk /\ buffer' = buffer /\ doubled' = doubled
      /\ NotesStep /\ notes \in [Ids -> Cards]
  BY CollectionInv DEF EditNote, DeleteNote, files, SyncInv, SyncTypes
<1>2. \A i \in Live' : i \in Live /\ notes'[i].from = notes[i].from
  <2>1. SUFFICES ASSUME NEW i \in Live' PROVE i \in Live /\ notes'[i].from = notes[i].from
    OBVIOUS
  <2>2. i \in Ids /\ notes'[i].type \in Types
    BY <2>1 DEF Live, Exists, Ids
  <2>3. PICK j \in Ids : Exists(j) /\ \A l \in Ids : l # j => notes'[l] = notes[l]
    BY UserStep
  <2>4. notes[i].type # "never"
    BY <2>2, <2>3 DEF Exists, Types
  <2> QED
    BY <1>1, <2>2, <2>4 DEF NotesStep, Live, Exists
<1>3. NamesInv' /\ NamedInv' /\ OldInv'
  BY <1>1, <1>2 DEF TwinInv, NamesInv, NamedInv, OldInv
<1>4. CASE Idling
  BY <1>1, <1>3, <1>4 DEF TwinInv, Idling
<1>5. CASE ~Idling
  <2>1. AddedInv /\ OnceInv /\ GivenUp
    BY <1>5 DEF TwinInv
  <2>2. AddedInv'
    BY <1>1, <2>1 DEF AddedInv, ResultIds, Deleting
  <2>3. OnceInv'
    BY <1>1, <1>2, <2>1 DEF OnceInv, E
  <2>4. GivenUp'
    BY <1>1, <1>2, <2>1 DEF GivenUp, E
  <2> QED
    BY <1>1, <1>3, <1>5, <2>2, <2>3, <2>4 DEF TwinInv, Idling
<1> QED
  BY <1>4, <1>5

LEMMA KillTwins ==
  ASSUME SyncInv, TwinInv, Kill
  PROVE  TwinInv'
<1>1. /\ run' = Idle /\ notes' = notes /\ buffer' = buffer
      /\ doubled' = doubled \cup {notes[i].from : i \in run.added}
      /\ NamesInv /\ NamedInv /\ OldInv
  BY DEF Kill, files, TwinInv
<1>2. Idling' /\ run'.added = {}
  BY <1>1 DEF Idle, Idling
<1>3. Live' = Live
  BY <1>1 DEF Live, Exists
<1>4. NamesInv'
  BY <1>1 DEF NamesInv
<1>5. NamedInv'
  BY <1>1, <1>3 DEF NamedInv
<1>6. OldInv'
  BY <1>1, <1>3 DEF OldInv
<1> QED
  BY <1>2, <1>4, <1>5, <1>6 DEF TwinInv

\* Between two runs, headings of the buffer that were there before, each once, or
\* have a name of their own.
LEMMA CommandTwins ==
  ASSUME TwinInv, Idling, UNCHANGED <<notes, run>>, doubled \subseteq doubled', NEW f,
         \A k \in DOMAIN buffer' :
            \/ buffer'[k].name \in doubled'
            \/ buffer'[k].name \notin Used /\ f[k] = 0
            \/ /\ f[k] \in DOMAIN buffer
               /\ buffer'[k].name = buffer[f[k]].name /\ buffer'[k].id = buffer[f[k]].id,
         \A k, l \in DOMAIN buffer' : f[k] = f[l] => k = l
  PROVE  TwinInv'
<1>1. /\ run.added = {} /\ NamesInv /\ NamedInv /\ OldInv /\ run' = run /\ notes' = notes
      /\ Idling'
  BY DEF TwinInv, Idling
<1>2. Live' = Live
  BY <1>1 DEF Live, Exists
<1>3. ASSUME NEW k \in DOMAIN buffer', buffer'[k].name \notin doubled',
             buffer'[k].name \in Used
      PROVE  /\ f[k] \in DOMAIN buffer /\ buffer'[k].name = buffer[f[k]].name
             /\ buffer'[k].id = buffer[f[k]].id
  BY <1>3
<1>4. NamesInv'
  <2>1. SUFFICES ASSUME NEW k \in DOMAIN buffer', NEW l \in DOMAIN buffer', k # l,
                        buffer'[k].name = buffer'[l].name, buffer'[k].name \notin doubled'
                 PROVE  FALSE
    BY DEF NamesInv
  <2>2. CASE buffer'[k].name \in Used
    <3>1. /\ f[k] \in DOMAIN buffer /\ buffer'[k].name = buffer[f[k]].name
          /\ f[l] \in DOMAIN buffer /\ buffer'[l].name = buffer[f[l]].name
      BY <1>3, <2>1, <2>2
    <3>2. f[k] # f[l]
      BY <2>1
    <3> QED
      BY <1>1, <2>1, <3>1, <3>2 DEF NamesInv
  <2>3. CASE buffer'[k].name \notin Used
    <3>1. \A j \in DOMAIN buffer : buffer[j].name \in Used
      BY DEF Used
    <3>2. f[k] = 0 /\ f[l] = 0
      BY <2>1, <2>3, <3>1
    <3> QED
      BY <2>1, <3>2
  <2> QED
    BY <2>2, <2>3
<1>5. NamedInv'
  <2>1. SUFFICES ASSUME NEW i \in Live, NEW k \in DOMAIN buffer',
                        notes[i].from = buffer'[k].name, notes[i].from \notin doubled'
                 PROVE  i = buffer'[k].id
    BY <1>1, <1>2 DEF NamedInv
  <2>2. buffer'[k].name \in Used
    BY <2>1 DEF Used, Live
  <2>3. /\ f[k] \in DOMAIN buffer /\ buffer'[k].name = buffer[f[k]].name
        /\ buffer'[k].id = buffer[f[k]].id
    BY <1>3, <2>1, <2>2
  <2> QED
    BY <1>1, <2>1, <2>3 DEF NamedInv
<1>6. OldInv'
  BY <1>1, <1>2 DEF OldInv
<1> QED
  BY <1>1, <1>4, <1>5, <1>6 DEF TwinInv

LEMMA OnTop ==
  ASSUME NEW s \in Seq(Headings), NEW h \in Headings
  PROVE  /\ (<<h>> \o s)[1] = h
         /\ \A k \in DOMAIN (<<h>> \o s) :
              k # 1 => k \in Nat /\ k - 1 \in DOMAIN s /\ (<<h>> \o s)[k] = s[k - 1]
  OBVIOUS

LEMMA WithoutIs ==
  ASSUME NEW s \in Seq(Headings), NEW k \in DOMAIN s, NEW j \in DOMAIN Without(s, k)
  PROVE  LET l == IF j < k THEN j ELSE j + 1 IN
         j \in Nat /\ k \in Nat /\ l \in DOMAIN s /\ Without(s, k)[j] = s[l]
<1>1. k \in 1 .. Len(s) /\ Len(s) \in Nat
  OBVIOUS
<1> DEFINE a == SubSeq(s, 1, k - 1)
           b == SubSeq(s, k + 1, Len(s))
<1>2. /\ a \in Seq(Headings) /\ Len(a) = k - 1
      /\ \A x \in 1 .. k - 1 : a[x] = s[x] /\ x \in DOMAIN s
  BY <1>1
<1>3. /\ b \in Seq(Headings) /\ Len(b) = Len(s) - k
      /\ \A x \in 1 .. Len(s) - k : b[x] = s[k + x] /\ k + x \in DOMAIN s
  BY <1>1
<1>4. Without(s, k) = a \o b
  BY DEF Without
<1> HIDE DEF a, b
<1>5. DOMAIN (a \o b) = 1 .. Len(a) + Len(b)
  <2>1. a \in Seq(Headings) /\ b \in Seq(Headings)
    BY <1>2, <1>3
  <2> QED
    BY <2>1
<1>6. j \in 1 .. Len(a) + Len(b)
  BY <1>4, <1>5
<1> Len(a) \in Nat /\ Len(b) \in Nat
  BY <1>2, <1>3
<1>7. CASE j < k
  <2>1. j \in 1 .. k - 1 /\ (a \o b)[j] = a[j]
    BY <1>1, <1>2, <1>3, <1>5, <1>6, <1>7
  <2> QED
    BY <1>1, <1>2, <1>4, <1>7, <2>1
<1>8. CASE ~(j < k)
  <2>1. j - Len(a) \in 1 .. Len(s) - k /\ (a \o b)[j] = b[j - Len(a)]
    <3>1. j > Len(a)
      BY <1>1, <1>2, <1>6, <1>8
    <3>2. j - Len(a) \in 1 .. Len(b)
      BY <1>6, <3>1
    <3>3. (a \o b)[j] = b[j - Len(a)]
      BY <1>2, <1>3, <1>6, <3>1
    <3> QED
      BY <1>3, <3>2, <3>3
  <2>2. k + (j - Len(a)) = j + 1
    BY <1>1, <1>2, <1>6
  <2>3. s[k + (j - Len(a))] = b[j - Len(a)] /\ k + (j - Len(a)) \in DOMAIN s
    BY <1>3, <2>1
  <2> QED
    BY <1>1, <1>4, <1>6, <1>8, <2>1, <2>2, <2>3
<1> QED
  BY <1>7, <1>8

LEMMA WithoutTwins ==
  ASSUME SyncInv, TwinInv, Idling, UNCHANGED <<notes, run, doubled>>, NEW k \in DOMAIN buffer,
         buffer' = Without(buffer, k)
  PROVE  TwinInv'
<1>1. buffer \in Seq(Headings)
  BY DEF SyncInv, SyncTypes
<1> DEFINE f == [j \in DOMAIN buffer' |-> IF j < k THEN j ELSE j + 1]
<1>2. \A j \in DOMAIN buffer' :
         j \in Nat /\ k \in Nat /\ f[j] \in DOMAIN buffer /\ buffer'[j] = buffer[f[j]]
  BY <1>1, WithoutIs
<1>3. \A j, l \in DOMAIN buffer' : f[j] = f[l] => j = l
  BY <1>2
<1> HIDE DEF f
<1> QED
  BY <1>2, <1>3, CommandTwins

LEMMA CommandsTwins ==
  ASSUME SyncInv, TwinInv,
         \/ EditHeading \/ InsertHeading \/ CopyHeading \/ ClearIds \/ RemoveHeading
         \/ ArchiveHeading \/ RemoveArchived \/ LoseRegistry \/ SaveBuffer
  PROVE  TwinInv'
<1>1. Idling /\ UNCHANGED <<notes, run>> /\ doubled \subseteq doubled'
  BY DEF EditHeading, InsertHeading, CopyHeading, ClearIds, RemoveHeading, ArchiveHeading,
     RemoveArchived, LoseRegistry, SaveBuffer, Command
<1>2. buffer \in Seq(Headings) /\ DOMAIN buffer = 1 .. Len(buffer) /\ Len(buffer) \in Nat
      /\ SyncTypes
  BY DEF SyncInv, SyncTypes
<1>3. CASE EditHeading
  <2>1. PICK k \in DOMAIN buffer, v \in Texts, d \in Decks :
           buffer' = [buffer EXCEPT ![k].text = v, ![k].deck = d]
    BY <1>3 DEF EditHeading, Becomes
  <2> DEFINE f == [j \in DOMAIN buffer |-> j]
  <2>2. DOMAIN buffer' = DOMAIN buffer /\ \A j \in DOMAIN buffer : buffer[j] \in Headings
    BY <1>2, <2>1
  <2>3. \A j \in DOMAIN buffer :
           buffer'[j] \in {buffer[j], [buffer[j] EXCEPT !.text = v, !.deck = d]}
    BY <1>2, <2>1, <2>2
  <2>4. \A j \in DOMAIN buffer : buffer'[j].name = buffer[j].name /\ buffer'[j].id = buffer[j].id
    BY <2>2, <2>3 DEF Headings
  <2>5. /\ \A j \in DOMAIN buffer' : f[j] = j
        /\ \A j, l \in DOMAIN buffer' : f[j] = f[l] => j = l
    BY <2>2
  <2> HIDE DEF f
  <2> QED
    BY <1>1, <2>2, <2>4, <2>5, CommandTwins
<1>4. CASE InsertHeading
  <2>1. FreshName \in 1 .. MaxNames /\ FreshName \notin Used
    BY <1>2, <1>4, UsedNames, FreshNamed DEF InsertHeading
  <2>2. PICK h : h = Heading(FreshName, FirstText, FirstDeck)
    OBVIOUS
  <2>3. h \in Headings /\ h.name \notin Used
    BY <2>1, <2>2, HeadingTyped DEF Good, Heading
  <2>4. buffer' = <<h>> \o buffer
    BY <1>4, <2>2 DEF InsertHeading, Becomes
  <2> DEFINE f == [j \in DOMAIN buffer' |-> IF j = 1 THEN 0 ELSE j - 1]
  <2>5. /\ buffer'[1] = h
        /\ \A j \in DOMAIN buffer' :
             j # 1 => j \in Nat /\ j - 1 \in DOMAIN buffer /\ buffer'[j] = buffer[j - 1]
    BY <1>2, <2>3, <2>4, OnTop
  <2>6. \A j \in DOMAIN buffer' :
           \/ buffer'[j].name \notin Used /\ f[j] = 0
           \/ f[j] \in DOMAIN buffer /\ buffer'[j] = buffer[f[j]]
    BY <2>3, <2>5
  <2>7. \A j, l \in DOMAIN buffer' : f[j] = f[l] => j = l
    <3>1. \A j \in DOMAIN buffer' : j # 1 => j \in Nat /\ j - 1 \in Nat \ {0}
      BY <1>2, <2>5
    <3> QED
      BY <3>1
  <2> HIDE DEF f
  <2> QED
    BY <1>1, <2>6, <2>7, CommandTwins
<1>5. CASE CopyHeading
  <2>1. PICK h \in Headings : buffer' = <<h>> \o buffer /\ h.name \in doubled'
    <3>1. PICK k \in DOMAIN buffer :
             buffer' = <<buffer[k]>> \o buffer /\ doubled' = doubled \cup {buffer[k].name}
      BY <1>5 DEF CopyHeading, Becomes
    <3>2. buffer[k] \in Headings
      BY <1>2
    <3> QED
      BY <3>1, <3>2
  <2> DEFINE f == [j \in DOMAIN buffer' |-> IF j = 1 THEN 0 ELSE j - 1]
  <2>2. /\ buffer'[1] = h
        /\ \A j \in DOMAIN buffer' :
             j # 1 => j \in Nat /\ j - 1 \in DOMAIN buffer /\ buffer'[j] = buffer[j - 1]
    BY <1>2, <2>1, OnTop
  <2>3. \A j \in DOMAIN buffer' :
           \/ buffer'[j].name \in doubled'
           \/ f[j] \in DOMAIN buffer /\ buffer'[j] = buffer[f[j]]
    BY <2>1, <2>2
  <2>4. \A j, l \in DOMAIN buffer' : f[j] = f[l] => j = l
    <3>1. \A j \in DOMAIN buffer' : j # 1 => j \in Nat /\ j - 1 \in Nat \ {0}
      BY <1>2, <2>2
    <3> QED
      BY <3>1
  <2> HIDE DEF f
  <2> QED
    BY <1>1, <2>3, <2>4, CommandTwins
<1>6. CASE ClearIds
  <2>1. FreshName \in 1 .. MaxNames /\ FreshName \notin Used
    BY <1>2, <1>6, UsedNames, FreshNamed DEF ClearIds
  <2>2. PICK n \in 1 .. MaxNames : n = FreshName
    BY <2>1
  <2>3. PICK k \in DOMAIN buffer :
           buffer' = [buffer EXCEPT ![k].name = n, ![k].id = NoId, ![k].linked = FALSE]
    BY <1>6, <2>2 DEF ClearIds, Becomes
  <2> DEFINE f == [j \in DOMAIN buffer |-> IF j = k THEN 0 ELSE j]
  <2>4. /\ DOMAIN buffer' = DOMAIN buffer /\ buffer[k] \in Headings
        /\ \A j \in DOMAIN buffer : j # k => buffer'[j] = buffer[j]
        /\ buffer'[k] = [buffer[k] EXCEPT !.name = n, !.id = NoId, !.linked = FALSE]
    BY <1>2, <2>3
  <2>5. buffer'[k].name = n
    BY <2>4 DEF Headings
  <2>6. \A j \in DOMAIN buffer' :
           \/ buffer'[j].name \notin Used /\ f[j] = 0
           \/ f[j] \in DOMAIN buffer /\ buffer'[j] = buffer[f[j]]
    BY <2>1, <2>2, <2>4, <2>5
  <2>7. \A j, l \in DOMAIN buffer' : f[j] = f[l] => j = l
    BY <1>2, <2>4
  <2> HIDE DEF f
  <2> QED
    BY <1>1, <2>6, <2>7, CommandTwins
<1>7. CASE RemoveHeading \/ ArchiveHeading
  <2>1. PICK k \in DOMAIN buffer : buffer' = Without(buffer, k)
    BY <1>7 DEF RemoveHeading, ArchiveHeading, Becomes
  <2>2. UNCHANGED <<notes, run, doubled>>
    BY <1>1, <1>7 DEF RemoveHeading, ArchiveHeading
  <2> QED
    BY <1>1, <2>1, <2>2, WithoutTwins
<1>8. CASE RemoveArchived \/ LoseRegistry \/ SaveBuffer
  BY <1>1, <1>8 DEF RemoveArchived, LoseRegistry, SaveBuffer, files, TwinInv, NamesInv,
     NamedInv, OldInv, Live, Exists, Idling
<1> QED
  BY <1>3, <1>4, <1>5, <1>6, <1>7, <1>8

LEMMA StartTwins ==
  ASSUME SyncInv, TwinInv, Starts
  PROVE  TwinInv'
<1>1. /\ Idling /\ UNCHANGED <<notes, doubled>> /\ run.added = {}
      /\ NamesInv /\ NamedInv /\ OldInv
  BY StartsFields DEF TwinInv, Starts, Sync, SyncUnreadable, Setup
<1>2. run' \in Runs /\ run'.stage = "entry" /\ run'.results = {}
  BY StartsFields
<1>3. run'.added = {}
  BY DEF Starts, Sync, SyncUnreadable, Setup, StartRun, Idle
<1>4. DOMAIN buffer' = DOMAIN buffer
      /\ \A k \in DOMAIN buffer : buffer'[k].name = buffer[k].name /\ buffer'[k].id = buffer[k].id
  <2>1. buffer' = Linked(buffer) \/ buffer' = buffer
    BY DEF Starts, Sync, SyncUnreadable, Setup, PrepareIds, files
  <2>2. \A k \in DOMAIN buffer : buffer[k] \in Headings
    BY DEF SyncInv, SyncTypes
  <2> QED
    BY <2>1, <2>2 DEF Linked, Headings
<1>5. NamesInv' /\ NamedInv' /\ OldInv'
  BY <1>1, <1>3, <1>4 DEF NamesInv, NamedInv, OldInv, Live, Exists
<1>6. AddedInv' /\ GivenUp' /\ ~Idling'
  BY <1>2, <1>3 DEF AddedInv, GivenUp, Idling
<1>7. OnceInv'
  <2>1. disk' \in Seq(Headings)
    BY StartsFields
  <2>2. run'.todo = Sent(disk') \/ run'.todo = <<>>
    <3>1. CASE Sync
      BY <3>1 DEF Sync, StartRun, Idle
    <3>2. CASE SyncUnreadable
      BY <3>2 DEF SyncUnreadable, StartRun, Idle
    <3>3. CASE Setup
      <4>1. disk' = disk /\ run'.todo = Sent(disk)
        BY <3>3 DEF Setup, StartRun, Idle, files
      <4> QED
        BY <4>1
    <3> QED
      BY <3>1, <3>2, <3>3 DEF Starts
  <2>3. \A j \in DOMAIN run'.todo : run'.todo[j].n = j
    BY <2>1, <2>2 DEF Sent
  <2>4. \A j \in DOMAIN run'.todo : 1 \in DOMAIN run'.todo /\ j \in Nat
    BY <1>2, <2>2 DEF Runs
  <2> QED
    BY <1>2, <2>3, <2>4 DEF OnceInv
<1> QED
  BY <1>5, <1>6, <1>7 DEF TwinInv

\* What a run made is named by its heading when the answer is written back.
LEMMA WriteBackTwins ==
  ASSUME SyncInv, TwinInv, WriteBack
  PROVE  TwinInv'
<1>1. /\ run.stage = "reply" /\ RunInv /\ run' = Idle /\ notes' = notes /\ buffer' = WrittenBack
      /\ doubled' = doubled \cup {buffer[k].name : k \in Overwritten}
      /\ NamesInv /\ NamedInv /\ OldInv /\ AddedInv /\ OnceInv
  BY DEF SyncInv, WriteBack, TwinInv, Idling
<1>2. /\ Idling' /\ run'.added = {} /\ Live' = Live
  BY <1>1 DEF Idle, Idling, Live, Exists
<1>3. DOMAIN buffer = DOMAIN disk /\ \A k \in DOMAIN buffer : buffer[k].name = disk[k].name
  <2>1. Names(buffer) = Names(disk)
    BY <1>1 DEF RunInv
  <2>2. DOMAIN Names(buffer) = DOMAIN buffer /\ DOMAIN Names(disk) = DOMAIN disk
    BY DEF Names
  <2>3. \A k \in DOMAIN buffer : Names(buffer)[k] = buffer[k].name
    BY DEF Names
  <2>4. \A k \in DOMAIN disk : Names(disk)[k] = disk[k].name
    BY DEF Names
  <2> QED
    BY <2>1, <2>2, <2>3, <2>4
<1>4. ASSUME NEW k \in DOMAIN buffer
      PROVE  /\ WrittenBack[k].name = buffer[k].name
             /\ ResultsFor(k) = {} => WrittenBack[k].id = buffer[k].id
             /\ \A r \in run.results : r.n = k => WrittenBack[k].id = r.id
  <2>1. buffer[k] \in Headings
    BY DEF SyncInv, SyncTypes
  <2>2. CASE ResultsFor(k) = {}
    BY <2>2 DEF WrittenBack, ResultsFor
  <2>3. CASE ResultsFor(k) # {}
    <3>1. PICK q : q = CHOOSE r \in ResultsFor(k) : TRUE
      OBVIOUS
    <3>2. q \in run.results /\ q.n = k
      BY <2>3, <3>1 DEF ResultsFor
    <3>3. \A r \in run.results : r.n = k => r = q
      BY <1>1, <3>2 DEF OnceInv
    <3>4. WrittenBack[k] = [buffer[k] EXCEPT
                !.id = q.id, !.linked = TRUE,
                !.type = IF run.kind = "migrate" THEN "own" ELSE buffer[k].type]
      BY <2>3, <3>1 DEF WrittenBack
    <3>5. WrittenBack[k].name = buffer[k].name /\ WrittenBack[k].id = q.id
      BY <2>1, <3>4 DEF Headings
    <3> QED
      BY <2>3, <3>3, <3>5
  <2> QED
    BY <2>2, <2>3
<1>5. DOMAIN buffer' = DOMAIN buffer /\ \A k \in DOMAIN buffer : buffer'[k] = WrittenBack[k]
  BY <1>1 DEF WrittenBack
<1>6. NamesInv'
  BY <1>1, <1>4, <1>5 DEF NamesInv
<1>7. ASSUME NEW i \in Live, notes[i].from \notin doubled', i \in run.added
      PROVE  \E k \in DOMAIN buffer : notes[i].from = buffer[k].name /\ buffer'[k].id = i
  <2>1. PICK r \in run.results : r.id = i
    BY <1>1, <1>7 DEF AddedInv, ResultIds, Deleting
  <2>2. r.n \in DOMAIN disk /\ notes[i].from = disk[r.n].name
    BY <1>1, <2>1 DEF RunInv, ResultsInv, MadeOf, Live
  <2>3. r.n \in DOMAIN buffer /\ notes[i].from = buffer[r.n].name
    BY <1>3, <2>2
  <2>4. buffer'[r.n].id = i
    BY <1>4, <1>5, <2>1, <2>3
  <2> QED
    BY <2>3, <2>4
<1>8. ASSUME NEW i \in Live, NEW k \in DOMAIN buffer, notes[i].from = buffer[k].name,
             notes[i].from \notin doubled'
      PROVE  i = buffer'[k].id
  <2>1. i = buffer[k].id \/ i \in run.added
    BY <1>1, <1>8 DEF NamedInv
  <2>2. CASE i \in run.added
    <3>1. PICK l \in DOMAIN buffer : notes[i].from = buffer[l].name /\ buffer'[l].id = i
      BY <1>7, <1>8, <2>2
    <3>2. l = k
      BY <1>1, <1>8, <3>1 DEF NamesInv
    <3> QED
      BY <3>1, <3>2
  <2>3. CASE i = buffer[k].id /\ ResultsFor(k) = {}
    BY <1>4, <1>5, <2>3
  <2>4. CASE i = buffer[k].id /\ ResultsFor(k) # {}
    <3>1. k \notin Overwritten
      BY <1>1, <1>8
    <3>2. i # NoId
      BY DEF Live, Ids, NoId
    <3>3. i = disk[k].id
      BY <1>3, <2>4, <3>1, <3>2 DEF Overwritten
    <3>4. PICK r \in run.results : r.n = k
      BY <2>4 DEF ResultsFor
    <3>5. disk[k].name \in doubled
      BY <1>1, <1>8, <3>3, <3>4 DEF OnceInv
    <3> QED
      BY <1>1, <1>3, <1>8, <3>5
  <2> QED
    BY <2>1, <2>2, <2>3, <2>4
<1>9. NamedInv'
  BY <1>1, <1>2, <1>4, <1>5, <1>8 DEF NamedInv
<1>10. OldInv'
  <2>1. SUFFICES ASSUME NEW i \in Live, NEW j \in Live, notes[i].from = notes[j].from,
                        notes[i].from \notin doubled'
                 PROVE  i = j
    BY <1>1, <1>2 DEF OldInv
  <2>2. CASE i \in run.added \/ j \in run.added
    <3>1. PICK k \in DOMAIN buffer : notes[i].from = buffer[k].name
      BY <1>7, <2>1, <2>2
    <3> QED
      BY <1>8, <2>1, <3>1
  <2>3. CASE i \notin run.added /\ j \notin run.added
    BY <1>1, <2>1, <2>3 DEF OldInv
  <2> QED
    BY <2>2, <2>3
<1> QED
  BY <1>2, <1>6, <1>9, <1>10 DEF TwinInv

LEMMA TwinInit ==
  ASSUME Init
  PROVE  TwinInv
<1>1. Live = {}
  BY GoneTyped DEF Init, PlannerInit, Live, Exists, Types
<1>2. DOMAIN buffer = {1}
  BY DEF Init
<1>3. run.added = {} /\ Idling
  BY DEF Init, PlannerInit, Idle, Idling
<1> QED
  BY <1>1, <1>2, <1>3 DEF TwinInv, NamesInv, NamedInv, OldInv

LEMMA TwinNext ==
  ASSUME SyncInv, TwinInv, [Next]_vars
  PROVE  TwinInv'
<1>1. CASE UNCHANGED vars
  BY <1>1 DEF vars, TwinInv, NamesInv, NamedInv, OldInv, AddedInv, OnceInv, GivenUp, Live,
     Exists, Idling, ResultIds, Deleting, E
<1> QED
  BY <1>1, CommandsTwins, StartTwins, WriteBackTwins, UserTwins, KillTwins, RunTwins
     DEF Next, Starts

\* NoDuplicates: between two runs no heading has two notes in the collection,
\* whatever was edited, deleted, archived, migrated, killed or lost, but for the
\* headings that were copied or whose note a run is known to have given up (doubled).
THEOREM OneNoteEach == ASSUME ~Careless PROVE Spec => []NoDuplicates
<1>1. Init => SyncInv /\ TwinInv
  BY InitInv, TwinInit
<1>2. SyncInv /\ TwinInv /\ [Next]_vars => (SyncInv /\ TwinInv)'
  BY NextInv, TwinNext
<1>3. TwinInv => NoDuplicates
  BY DEF TwinInv, OldInv, NoDuplicates
<1> QED
  BY <1>1, <1>2, <1>3, PTL DEF Spec
=============================================================================
