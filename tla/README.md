# TLA+ models and proofs for imoogi-emacs

imoogi-emacs is an Emacs distribution: Emacs Lisp modules (`src/modules`, `src/boot.el`) and a
handful of Go helpers (`src/cmd`, `src/internal`) they call as processes or over a local socket.
This directory holds TLA+ modules that model the parts with a protocol of their own, the TLC
configurations that check them on small instances, and proofs that TLAPS checks for every
instance.  `PROJECT.json` lists for every definition the source lines it stands for, for every
property a seeded bug that breaks it, and the hazards of the code.

Order of the work was what a failure would cost the user: the clipboard assets (pasted pictures and
files, and whatever lies beside them) first, then the Anki collection, the notes, the toolchain,
the preview, and the messages of agents and cards.

## Running

    tlc -workers 2 -config ClipEmacs_faults.cfg ClipEmacsMC
    tlapm ClipEmacsProofs.tla                         # likewise the other *Proofs modules

| Configuration | Module |
|---|---|
| `ClipHelper_one` | `ClipHelperMC` |
| `ClipEmacs_faults`, `_neighbours`, `_saves`, `_discard`, `_converges`, `_lost_ack` | `ClipEmacsMC` |
| `Anki_sync` | `AnkiSync` |
| `Notes_two` | `FilesMC` |
| `Tool_setup` | `ToolMC` |
| `Preview_one` | `PreviewMC` |
| `Agent_calls` | `AgentMC` |

The longest run, `Notes_two`, takes about two and a half minutes on two cores, the longest proof
(`AnkiProofs`) about ten.

## Inventory

| Component | State | Operations | Interacts with |
|---|---|---|---|
| Clipboard helper `imoogi-clip` (`internal/clipboard`) | manifests and leases in the staging base, asset files, asset index | inspect, checkpoint, paste, import, finalize, document-saved, commit, reconcile, abort, leases, prune | one process per request from Emacs; documents on disk; other helpers through shared directories |
| Clipboard client (`28-clipboard.el`) | per buffer: staged transactions, generation; links in the text | paste, save coordinator, rename, refile, kill | helper (asynchronous import, synchronous lifecycle calls), the Emacs save machinery |
| Anki backend `imoogi-anki` (`internal/anki`) | registry file, run | scan, plan, add/adopt/update/move/delete, migrate, save registry | AnkiConnect, Emacs scan and write-back |
| Anki in Emacs (`modules/org/anki`) | headings of buffers, run state | scan, ID pass, start, write identifiers back, set up | `imoogi-anki`, Org ID |
| Source links (`internal/anki/opener`, `imoogi-open.el`) | request per click, visited buffers, id locations; the handler app | click, launch, wait, scan, visit; install the app | emacsclient, Launch Services |
| Note move (`internal/notemove`) | source and destination trees | copy, compare, rename, remove | the user's other programs |
| Note cache (`internal/notecache`) | SQLite file per scope | scan, load, parse, save, answer | other helpers, the notes on disk, unsaved buffers |
| Toolchain fetch (`internal/fetch`, `config`) | vendored artifacts, lock file | resolve, download, license, bootstrap, publish, lock | upstreams, setup |
| Toolchain setup (`internal/setup`, `artifact`, `lang`, `activation`) | bundles, `.local/bin` link, flock | verify, extract, publish, probe, activate | fetch, the manifest in git |
| Org preview server (`internal/orgpreview`) | sessions, revisions, browser views, event queues | register, revision, navigation, event stream | Emacs over HTTP, browsers over server-sent events |
| Org preview client (`23-org-preview.el`) | per buffer: revision, in-flight flag, timers | enable, disable, send, callback, reconnect | preview server |
| Agent messages (`internal/agentipc`, `30-agent.el`) | event file, Emacs server queue | send, read, carry out, answer | emacsclient |
| Project notes (`26-project-notes.el`) | registry, mounts, running process | refresh, query, mount | `imoogi-notes` |
| Flashcards | cards and schedules in headings | review, grade | org-fc |
| Provenance, project tree, gptel, other Org modules, boot and settings | settings | sequential, run once | none of their own |

Hard behaviours, by component (the full list with lines is `hazards` in `PROJECT.json`):

* clipboard: a helper killed between any two file operations; failing manifest writes and failing
  compensation; lost answers; an import that completes after the buffer changed or got a name; two
  transactions in one directory; a kill or a save stopped by `C-g`;
* Anki: a run that dies between adding a note and recording it; a request that is done but whose
  answer is lost; positions that are stale on write-back; orphans taken from a stale census;
* source links: a request in Emacs's queue when the time limit kills emacsclient; files that
  change during the scan; an app replaced by two renames;
* notes: files written under a verified copy; crashes between the renames; two helpers on one cache
  file, rows of another parser version, unsaved buffers;
* toolchain: crashes between publication, lock and activation; files read before the flock is taken and
  after; a rollback or an edit of the manifest between two reads of a run;
* preview: broadcasts after the lock is released, a browser that connects while a revision arrives,
  a full queue, callbacks of a preview that was switched off and on;
* agents: the request names a file, not the event; the limit may remove the file at any moment.

What makes each correct: *clipboard* - a file of the user is never removed, pasted bytes
survive until they are discarded, a link in a saved document leads to a file, a committed transaction
leaves nothing behind, a staged one is settled in the end; *Anki* - a heading has one note that mirrors it,
and nothing but a confirmed orphan is deleted; *source links* - what the user is told is what happened, and no app is lost;
*notes* - a complete copy exists at any moment, and a cached row is what the current parser would say;
*toolchain* - an active bundle is complete and comes from a lock, and running the commands again repairs
a crash; *preview* - a page ends with the latest revision of its buffer and never goes back; *agents* -
the exit code tells the truth, and an event whose call is over is never begun.

## Modules

    TxLifecycle              what the helper promises about a transaction's life
        ^ implemented by (LifecycleImplemented)
    ClipHelper --- ClipStore     helper processes, files, manifests; any client
        ^ implemented by (HelperImplemented)
    ClipEmacs                the Emacs client composed with the helper
    ClipHelperProofs <- ClipEmacsProofs

    AnkiPlanner <- AnkiSync                       a run; the user, Emacs and runs
    AnkiSync <- AnkiInvariants <- AnkiProofs
    NoteMove <- NoteCache                         a move; helpers beside it
    SourceLink, UrlHandler                        a click; the app that takes it
    NoteCache, SourceLink, UrlHandler <- FilesMC <- FilesProofs
    ToolFetch <- ToolSetup                        fetch; setups beside it
    ToolPaths <- ToolArchive, ToolConfig <- ToolDataProofs    algorithms
    ToolSetup, ToolArchive, ToolConfig <- ToolMC; ToolMC, ToolDataProofs <- ToolProofs
    LiveView                                      what the preview promises
        ^ implemented by (LiveViewImplemented)
    PreviewServer <- PreviewClient <- PreviewProofs     server; Emacs, pages and server
    AgentEvents <- AgentProofs

    ClipHelperMC, ClipEmacsMC, FilesMC, ToolMC, PreviewMC, AgentMC     instances for TLC

The operators marked *Seeded bug* are not used by any specification: each is a plausible wrong
version of the definition that follows it, kept to show that a property would notice.

### Clipboard

**ClipStore** is `staging.go`: a manifest as a record, `allowedTransition`, and one operator for each
way the manifest file is replaced.  `writeJSONAtomic` writes a temporary file, syncs and renames it,
so each replacement is atomic.  `Owner` and `Assets` always change together and are one field,
`Place`.

**ClipHelper** is `service.go`, `publish.go` and `owner.go`.  A request is a process: `Start...` is
what `Handle` does up to its first file operation (all the checks and the early returns), `PublishOne`,
`RemoveOne`, `WriteManifest` ... are its file operations one at a time, with what the code does
when one fails: `PublishFails` undoes, `WriteFails` compensates, `RemoveFails` collects orphans,
`Recover` records them, `Settle` writes the last state.  `Die` stops a helper anywhere.  `Next` lets the
client request anything at any time and rewrite documents at will (`WriteDocuments`).

| Model | Code |
|---|---|
| `manifest[t]` | `manifest.json` of the transaction, `NONE` if there is none |
| `files` | asset files, as (directory, content) pairs: `findExistingAsset` reuses equal content, O_EXCL never overwrites, so a content has one name in a directory |
| `mentioned[t]` | the saved document contains the base name of t's assets, all that `verifyPreparedManifest` looks for |
| `job[t]` | the helper process serving t: operation, position, files made / to remove / left over |
| `faults` | how many faults have happened |

One helper per transaction: Emacs waits for each lifecycle call or deletes the process
(`imoogi-clipboard--call-sync`), and nobody knows a transaction before its import has answered.
Helpers of different transactions interleave freely.

**ClipEmacs** is `28-clipboard.el`.  `Paste`, `ImportReply` (the asynchronous import, dropped if the
buffer's text changed), `BeginSave` ... `EndSave` (`imoogi-clipboard--save-around`, phases
`prepare`, `reconcile`, `saved`, `commit`), `BeginKill` ... `EndKill` (`--dispose-buffer`), `Quit` (C-g
inside `accept-process-output`), `Crash`, and the commands of the user that matter: typing, deleting
links, naming the buffer, saving it with `save-buffer` before it has a name.  Every phase boundary
is a step, so imports complete and other buffers run between any two calls.  `link[t]` is the kind
of t's links in the text, `disk[t]` in the saved document.  `known` and `discarded` are history
variables of the properties.

**TxLifecycle** is the abstract specification: NONE, STAGED, PREPARED, DOCUMENT_SAVED, COMMITTED, or
ABORTED from any state before the document was confirmed, or parked in NEEDS_RECONCILIATION.

### Anki

**AnkiPlanner** is one run of `imoogi-anki`: `planner.go` and `migrate.go` with the registry and the hash.
`run` holds the census it was started with, its position and what it has learnt; `registry` is the file,
loaded at the start and saved at the end; `notes` is the collection.  Every request to AnkiConnect is a step that
is done, refused, or done with its answer lost, so the run can be killed between any two and can
learn the wrong thing from each.  A note's `from` names the heading it was made of and exists only for the properties;
`loose` collects the notes no record accounts for after a fault or a change in Anki.

**AnkiSync** is the user's side: the file on disk and the buffer that visits it, an excluded file
(`archive`), the Org ID pass, `imoogi-sync`, `imoogi-anki-setup`, and the write-back by position.
Commands: edit, insert, copy, remove or archive a heading, lose the registry, migrate, and in Anki edit or delete a note.
`settled` (a whole sync ended without an error and nothing changed since), `loose` and `doubled` (below) are history variables.
**AnkiInvariants** states the invariants the proofs rest on; it models nothing.

### Source links

**SourceLink** is a click: `Open` (probe, launch, poll, ask, limit, classify, activate) as a process, and the receiver
`imoogi-open.el` as what Emacs does with its queue: scan file by file - `org-id`'s location first, the targets
after - then decide, visit and answer.  A file is the number of headings with the identifier, or gone, or unreadable, and a buffer may differ from it.
`held[f]` is what f has looked like since the request was taken, the history the properties need.

**UrlHandler** is `Install`: what is at `ImoogiAnki.app`, and per installer what its staging directory holds.
Builds, both renames, the undoing of the first one and the clean-up are steps, each may fail, and the process may be killed between them.

### Notes

**NoteMove** is `move.go`: manifest, copy, manifest again, compare, look at the staging copy, rename into
place, look for a tombstone, rename the source away, remove it, or remove the destination again (`RollBack`).  A removal may fail or be cut short
(`PartlyRemoved`).  Other programs write notes at any time; `last` is what
they wrote last, `late` the notes written after the move's last look at them.

**NoteCache** is `Run` of `notecache` for any number of helpers: scan and hash, per file the row and then its links (two
queries), parse what is not cached, one saving transaction.  The cache may begin
with rows of an older parser version.  A text and a parser version determine what a note parses to.

### Toolchain

**ToolFetch** is `fetch.Run`: per component reuse or download, licences, bootstrap binary with its provenance, the publication of
staged files by O_EXCL `.tmp` file and rename, then the lock.  Publishing is a step per file operation, so a kill leaves what it would leave.
`upstream` and `licenseText` are what the network serves and may change; `committed` are the locks there have been, which a
rollback may bring back.

**ToolSetup** is `setup.Run` for any number of setups: the lock is read twice and the artifacts are verified before the
flock is taken, then reuse, materialize, probe, publish, activate.

**ToolPaths**, **ToolArchive**, **ToolConfig** are the pure parts: the checks of paths, extraction of tar and zip, versions, and
validation of manifest and lock and the plan made of them.  Each is checked against a definition that says what it should
compute rather than how, on samples by TLC and for inputs of any length by proof.  A manifest may list several node runtimes with
different pins; the plan's node is then the first of the lock (config.go:454-460), so `PlanExact` speaks of `NodeVersion(l.components)`
and asks only of a manifest with one node (`OneNode`) that the plan's is its own.

### Preview

**PreviewServer** has a goroutine per request and per page and takes the lock only where the code does; a page's queue is
bounded and a full one drops the event.  **PreviewClient** adds Emacs: timers, the in-flight and dirty flags, callbacks that
come late, the sentinel of the server process, and the user.  **LiveView** is the promise: pages show committed revisions, never an
older one after a newer.

### Agents

**AgentEvents** is `imoogi-agent` with its argument parser, the event file, emacsclient, the limit and the exit code, and the
receiver in Emacs: taken from the queue, file looked for, read, validated, carried out, answered.  The removal of the event directory
may fail, which the code ignores: the call is then `left`.  Words of a command
line stand for classes of strings, so that the whole option grammar runs.

## Runs

| Run | Instance | Checks |
|---|---|---|
| helper | one transaction with two contents, one of them a file of the user; any client, two faults of any kind | `TypeOK`; `UserFilesKept`; `Lifecycle` (refinement of TxLifecycle); `Answered` (every helper comes to an answer, also when files it removes are already gone) |
| faults | one paste, every way of working, two faults, a failing save | `PayloadKept`: pasted bytes are all staged or all final until discarded; `SavedLinksKept`: a final link on disk never dangles; `HelperSpec` (Emacs is a client of ClipHelper) |
| neighbours | two documents with one asset directory, a content both paste and one that one of them pastes, one fault of any kind, quits of a save, crashes | `CommittedAssetsStay`: no step removes a final asset that a committed transaction created; a file it reused goes only with the unsaved paste that created it |
| saves | two pastes, one fault (publish, write, killed helper), a failing save | `SavedAssetsFinal`: whatever a document links to is in its asset directory; `CommitsMentionedAssets`: a commit only for a document that mentions the assets, which are in place |
| discard | saves that fail and are retried, kills that are quit and retried | `AbortLeavesNothing`: the abort takes back all the transaction created |
| converges | fair user, one fault of any kind, crash | `Converges`: what is staged is settled |
| lost_ack | one paste, one lost answer or killed helper | `SavedAssetsFinal`, violated (finding below) |
| anki | one heading, later a second, three commands, one fault | `Mirror`, `OrphansCollected`, `NoDuplicates` after a clean sync; `HeadingNamesItsNote`; `Idempotent`; `DeletesOnlyOrphans`; `Converges` |
| notes | two notes, two helpers, one write and two disturbances around a move; two clicks with one disturbance; two installers with three | `KeptUnlessLate`, `OutcomeTrue` (move); `CacheSound`, `AnswersFresh` (cache); `AnswersTrue`, `ExitsTrue` (click); `NothingLost` (installer) |
| tool | two releases of two components, two setups beside fetch, two disturbances; all samples of paths, archives, versions, manifests and locks | `LockedArtifactsPresent`, `PublishedStays` (fetch); `ActiveSound`, `Settles` (setup); `ExtractionExact`, `ManifestsExact` (algorithms) |
| preview | one buffer, one page, a queue of one event, one edit, one disturbance | `CaughtUp`, `IdleViewAgrees`, `LiveViewSpec` (refinement of LiveView), `Converges` |
| agent | two calls, one of them with every command line of a small grammar, two disturbances | `ExitCodesTrue`, `WireAgrees`, `NeverLate`, `Ends` |

### Bounds

*Clipboard*: at most two transactions, two contents, two buffers and one asset directory.  These are enough
for every interaction the code has: loops over two files that stop in the middle, a batch
of two transactions, two documents sharing a directory, a file of the user with the content of a
paste.  `MaxFaults` bounds faults of the kinds in `Faults` (a failing publish, manifest write or
removal, a killed helper, anything that loses the answer to document-saved), `MaxSaveFaults` the saves
that fail, `Ways` names what users do beyond the basic commands.

*Anki*: `MaxNotes` 10 is never reached with three commands (`MaxEdits`) and two headings (`MaxNames`, `MaxHeadings`); two valid texts and an invalid one, two decks.  One fault
is enough for every pair of a step and what becomes of it, three commands for a fault between two changes and a revert.

*Notes, links, installer*: the three systems do not interact and share a run; one of them is at work in a behaviour
(`part`).  Two notes let a writer touch one before and one after a pass of the walk; `MaxEdits` 2 was checked once and
shows the same.  Two clicks show a request left in the queue by a click that expired.  Two installers and three disturbances cover
a kill between the renames while the other goes on, and a foreign app that comes in.  Clients are symmetric; the properties of the run are safety.

*Toolchain*: node stays the same in both releases and the server is upgraded, so that reuse and download are both in a run.
Two disturbances pair a kill with an edit, a rollback or a changed upstream.  Archives have up to three entries; the limits are
two entries, two bytes for a file and three for all, versions are made of three digits and two letters.

*Preview*: the number of revisions is never the limit (`MaxRevision` 6).  One edit and one disturbance after the first revision make
two revisions race; a queue of one makes it full at once.

*Agents*: one call has all command lines, the other waits in the queue before or behind it.

Deadlock is checked where the system cannot stop: helper, anki and tool.  Elsewhere everything may be over (all buffers dead,
all calls ended, no disturbance left), and the configurations say so.

### Fairness

* *Clipboard* (`FairSpec`, `EFairSpec`): a helper that was started runs (an operating-system process,
  and a stopped one is killed at the time limit, which is a fault step); Emacs runs the command
  it is in and the sentinels of its processes; and, for `Converges` only, a user who names the
  buffer and keeps saving it while something is staged.  The user in it does not edit the links out, since a
  transaction whose links are gone is never committed by design.
* *Anki*: a run goes on, Emacs writes back what it answers, and the user keeps saving and syncing.
* *Toolchain*: the processes run, and the person starts both commands again until they succeed; the documentation
  tells them to.
* *Preview*: requests are served, timers fire, callbacks and the sentinel run, events reach open pages.
* *Agents*: the operating system runs the processes and the clock does not wait; nothing is assumed of Emacs.
* *Notes, links, installer*: safety only, no fairness.

Faults, quits, edits, crashes and kills are never fair.

### What the properties exempt, and why

Some properties hold only outside a known gap, and say so or leave the case out of their run:

* `SavedAssetsFinal` in `saves` excludes saving an unnamed buffer, lost acknowledgements and failing removals;
  `CommitsMentionedAssets` also the quit of a kill.  `PayloadKept`, `SavedLinksKept`, `AbortLeavesNothing` and what
  `CommitsMentionedAssets` says of the assets speak of transactions whose contents no other transaction puts into the
  same directory (`Unshared`), because ownership of a shared file is not recorded; `AbortLeavesNothing` excludes helpers
  killed in the middle of a publish, whose files are recorded nowhere.
* `CommittedAssetsStay` is about documents that do share files, and has no `Unshared`.  A file that a committed transaction
  found in the directory may go, but only while the transaction that lists it as created is not confirmed as saved: that is
  what the code does when the creator's buffer is killed (findings).  The run leaves kills that are quit out, and the proof
  these and failing removals, which TLC finds to break it only together with another fault: each leaves a removed file on the list
  of a transaction that will be aborted again, and a neighbour may have created it anew (findings).  The property says that
  committed transactions keep their assets, not that they have them when they are committed; that is `CommitsMentionedAssets`.
* `Mirror` exempts notes that no record accounts for after a fault (`loose`), only of what they hold: that there
  is a note, of the heading's type, it says of every heading.
* `NoDuplicates` exempts the headings in `doubled`, from the step on that may give them a second note: a copied heading (each copy may
  come to have one); the headings a killed run had added notes for, since nothing names these; an add whose answer was lost; a note given up for a new one because its
  lookup failed or found another type, and an original that outlives its replacement; and a heading that loses an identifier which was never saved
  to the next sync of the modified buffer.  Each of these can end in two notes in the code, so the exemptions are as narrow as the property allows;
  that nothing else does - a lost registry, failed saves, migrations, deletions in Anki, archived headings - is what it says.
* `Converges` of Anki exempts a heading whose note was deleted in Anki.  `HeadingNamesItsNote` needs `Careless = FALSE`.
* `KeptUnlessLate` and `OutcomeTrue` exempt writes after the move's last look; `AnswersFresh` lets links be of another save.
* `Settles` names the four states in which fetch and setup stop for good (`Stuck`).
* `IdleViewAgrees` exempts buffers that had two updates out at once (`overlapped`), and `ExitsTrue` clicks whose failure was shown before
  Emacs was done (`late`).
* `NothingLost` exempts a user who changes the app while it is being replaced.
* `CaughtUp` exempts a page whose queue was full when the newest revision was offered; `Converges` of the preview a
  last update that could not be sent and a server that is dead in the end, which is wider than the one known case, a server that died
  with no request out.
* `ExitCodesTrue` says nothing of code 1, and of code 3 only as long as Emacs lives.  `NeverLate` and `Ends` exempt a call whose event
  directory could not be removed (`left`).

## Findings

### Clipboard

* **lost_ack** (run) - the answer to document-saved is lost; killing the buffer aborts the PREPARED transaction
  and deletes assets of a document that is saved.  A commit that cannot remove a staging file leads to the
  same end through NEEDS_RECONCILIATION.

The others were found by TLC with configurations that are not kept:

* `save-buffer` in a buffer without a file does not move its assets: `save-around` tests
  `buffer-file-name` before `basic-save-buffer` asks for it.  The document on disk has
  opaque links, and killing the buffer deletes the staged files.  `src/README.md` promises that the first save
  moves them.
* A buffer that is named while an import is on its way gets relative links *into
  staging*; the save does not rewrite them, the commit verifies base names only, and deletes their
  targets.
* A transaction that reuses a file another, uncommitted transaction created loses it when that one is aborted, also
  when it is itself committed and its document saved.  `CommittedAssetsStay` allows exactly this.
* A committed transaction may lose even a file it created.  A kill that is quit while the helper aborts leaves the transaction PREPARED,
  listing as created a file that is gone; a neighbour that pastes the same content creates it anew, saves and commits; the second kill
  aborts the first transaction and deletes the neighbour's file (`service.go:368`).  No fault is needed.  A finalize that can neither write its
  manifest nor undo all it published is parked with such a list too, and its abort does the same; that takes two faults.
* A finalize that can neither write its manifest nor compensate parks the transaction without a
  destination document; every later save of that document fails in reconcile.
* A commit that cannot remove a staging file parks the transaction; a kill of the buffer that then cannot remove the final file
  either records it as the transaction's orphan.  When the kill is quit and the buffer saved again, reconcile verifies that the document
  refers to the asset and that it is there, deletes the "orphan" and answers COMMITTED (`service.go:322`).  It takes two faults and a quit.

### Anki

* An update whose answer is lost, or whose tags fail, followed by a revert of the heading leaves the interrupted text in
  the note: the registry's hash equals the reverted text's.  A run killed after a deck move whose deck is then reverted is never
  repaired, and a failed `changeDeck` is not tried again.
* A failing `notesInfo` makes reconcile add a second note, against the comment at `planner.go:498`
  ("never a duplicate"); a buffer synced twice without saving does too.
* A migration killed between the deletion of the old note and the save of the registry leaves a registry that names deleted notes
  (`migrate.go:168-176`); the comment that a surviving original is collected as an orphan (278-282) does not hold, since
  its record was removed.
* A heading inserted and not saved before a sync shifts the positions: the identifier is written to another heading
  (`Careless = TRUE`).
* An edit in Anki between the confirmation of an orphan and its deletion is lost; a note deleted in Anki is not made again.

### Notes and source links

* A cached row and its links are read by two queries without a transaction; a save of another helper in between gives an
  answer with the links of another text.
* A write between the last comparison and the rename of the source is deleted with the tombstone.
* A kill after the destination appeared leaves two copies, and later moves refuse; a tombstone left by a failed clean-up
  makes later moves of the same source fail.  So does a rollback that fails: `move.go:83`, `86` and `90` ignore the error of `RemoveAll`, the answer does
  not say that a destination, whole or in part, was left, and every later move refuses because it exists.
* A click may be told of a failure and the heading opened afterwards (`opener.go:326-327` says so); a file that
  becomes unreadable after the scan is reported as not found; a buffer that visits a deleted file is not searched.
* Between the two renames of an installation no handler is in place, and a kill there leaves the old one in a hidden staging
  directory only.  A foreign app put there during the build is moved aside and deleted.

### Toolchain

* Four states stop fetch or setup for good until a person removes a file: a `.tmp` file left by a kill; a bootstrap binary without its provenance;
  a vendored artifact no lock lists, whose upstream bytes have changed (or an unversioned licence whose text has changed); a bundle
  recorded under a lock that is not the lock (setup reads it twice, `setup.go:122` and `129`; and a manifest reverted by hand and fetched
  again gets a new `retrieved_at`).
* Two fetches at once can overwrite each other's files between the check and the rename; there is no lock between them.
* `DetectDrift` is reached only when a vendored file was altered: an artifact in the lock is reused without asking the
  upstream, although `docs/toolchains.md` (line 86) describes drift as a failure.
* A setup that started before another can move the link back to its older release.
* A pre-release with a hyphen inside (`1.0.0-a-b`) is refused though it is a Semantic Version; `v1.0.0-rc.1` is valid as a version and cannot be
  parsed for `node_engine`; pre-releases compare like their releases.

### Preview

* A server that dies while no request is out is not started again, and a late success of an earlier update hides the failure.
* An update that cannot be sent clears the dirty flag.  A cursor on no block makes the server answer 400, and Emacs reconnect, again and again.
* A queue that is full before the first render blocks the connection.  Two updates in flight (off and on again) can leave Emacs with a view the server no longer
  has, which is what `IdleViewAgrees` exempts as `overlapped`.  Pages that are opened again may not connect.
* `assetHandlePath` (`server.go:745-752`) reads without the lock a map that `registerBrowserPath` (754-769) writes.

### Agents

* Exit code 1 does not exclude that the event was shown: Emacs had read the file when the limit ran out
  (`cmd/imoogi-agent/main.go:3-5` says "not delivered"), or the event file could not be removed (`emacsclient.go:59` ignores that).  Code 3 is possible for an event that was shown if Emacs ends before it answers.

## Proofs

Assumptions are the named ASSUMEs of the modules: homes, asset directories and non-empty payloads exist, staging
directories are no asset directories, files that existed before lie in asset directories (`ConstantsAssumption`, `EmacsAssumption`);
releases give their components versions (`ReleasesHaveVersions`), `Nobody` is no setup; notes and their texts are numbers, with 0 for
no note (`MoveAssumption`, `OverlaysAssumption`); no call and no word of a command line is
the marker "nothing" (`LinesAssumption`); the limits of an extraction are positive, which `withDefaultLimits` sees to
(`LimitsAssumption`); separators of a version are no digits or letters, and digits have their values (`CharactersAssumption`); there is a
buffer with a preview and a queue has room (`ServerAssumption`, `ClientAssumption`); texts are none of the two words for what was done in Anki, one of them
is valid, and there is a deck (`PlannerAssumption`, `SyncAssumption`).  The theorems about Anki assume `~Careless`, `CommitsSound` that no kill is quit
(`"quit-kill" \notin Ways`), `CommittedAssetsSafe` that and that removals succeed (`"remove" \notin Faults`), `AbortsLeaveNothing` that no helper dies or is deleted by the quit of a save, and that removals succeed
(`"kill"`, `"remove"` not in `Faults`, `"quit"` not in `Ways`), `SavedAssetsStay` what its run excludes too and that no two pastes share a
path (`Orderly`); the findings and the exemptions say what happens without.  `InstallKeeps` assumes `Named`: no installer is called
"none", "foreign" or "first"; the theorems about a click `LinkNamed`: no click or file is called "nowhere".  The numbers of transactions, buffers, contents, faults, notes, headings, commands, helpers, components, releases, setups, calls, command
lines, installers, pages, revisions, the length of a queue, and the lengths of paths, versions, manifests, locks and archives are arbitrary.

| Module | Theorems | Argument |
|---|---|---|
| ClipHelperProofs | `TypeCorrect`, `UserFilesSafe`, `UserFilesNeverOwned` | The property is not inductive: a helper removes whatever its list of doomed files holds, and takes that list from the manifest or from the files it made.  The invariant adds `UserFilesDisowned`: none of the six lists a removal may come from holds a file of the user.  The two need each other: `publishOne` lists a file as made only if the directory does not have it, which spares the user's files because they are all still there. |
| ClipHelperProofs | `LifecycleImplemented` | Every manifest write but one passes `allowedTransition`; the import's does not, and is a legal step because while an import works nobody has written its manifest (`FreshImports`). |
| ClipEmacsProofs | `HelperImplemented`, `EmacsKeepsUserFiles`, `EmacsLifecycle` | Every step of Emacs is a step of a client of ClipHelper or changes nothing there; it needs that the call a quit deletes is a transaction's (`ClientInv`).  The helper's theorems carry over. |
| ClipEmacsProofs | `PayloadSafe`, `LinksSafe`, `EmacsTypeCorrect` | `KeptInv`, below. |
| ClipEmacsProofs | `CommittedAssetsSafe` | `OwnerInv`: every file of an asset directory that a transaction may still remove or has committed is claimed by one transaction, the one that created it (`Claim`), and is there; so a file created now was claimed by nobody.  A helper removes only what its transaction claims.  A claim ends when the abort is sent (`Counts`), after which the list in the manifest is read no more (`Once`); a kill that is quit, and a removal that fails, would break this. |
| ClipEmacsProofs | `CommitsSound` | From `KeptInv`: whoever is about to write COMMITTED has verified the document and the assets, and between that and the write nobody changes either - Emacs waits for the call, and what the helper removes meanwhile are staging files, unless an abort that was quit made the final ones its orphans. |
| ClipEmacsProofs | `AbortsLeaveNothing` | `AbortInv`: what a transaction has put on disk is on a list - of the helper while it publishes, compensates or removes, of the manifest once it has answered (`Accounted`) - so the abort, which removes what the manifest lists, removes all of it.  That needs to know which request can be at work on which manifest (`Traced`), and that a quit which deletes a helper deletes an abort (`KillCall`), which another abort takes up again. |
| ClipEmacsProofs | `SavedAssetsStay` (`SavedAssetsFinal`) | `SavedInv`: what Emacs saves without a record was imported to the final place (`Owned`); what it recorded stays on its list until it is committed (`Remembered`), and the document is written only when the whole list is prepared (`Saving`).  From then on nothing takes the assets away (`Secure`): either the manifest is acknowledged and the helper refuses to abort, or the save still has to visit it - an acknowledgement that is not lost succeeds - or nobody is left to ask for the abort. |
| ToolProofs | `LocksInstallable`, `LinkSound`, `FilesStay`, `SetupTypes` | A component that fetch is through with is published or waits in the staging list (`Covered`), and only a missing file is published; so a lock is written when all it lists is there, and published files never change.  Whoever publishes or activates holds the flock and a bundle made of a committed lock. |
| ToolDataProofs | `PathsContained` | `CleanKeeps`: cleaning shortens a path unless it keeps every segment, so a path it leaves as it is and that does not begin with ".." has no such segment. |
| ToolDataProofs | `VersionsAreRead`, `PlansExact` | Every loop over a sequence is a run of steps, and what it has at each prefix follows by `PrefixInduction`: `Split` gives the pieces between separators, a number is read as its value, `TakeOut` leaves of the lock what is not yet matched.  With names unique on both sides, the lock is used up exactly when it has the manifest's entries. |
| ToolDataProofs | `ExtractsExactly` | The first pass comes through exactly when each entry finds its place in what those before it have made, in order (`StepFit`, `FirstPass`), the second when every link does (`LinksFit`, `SecondPass`).  Both conditions on prefixes together are the one on the whole archive, `WellFormed`, whose quantifiers know no order (`WellFormedListed`, `ListedSteps`); and the tree after both passes is `Intended`. |
| ToolProofs | `ExtractionAlwaysExact`, `ManifestsAlwaysExact`, `RunIsSampled` | The invariants of the run, for `AnySpec`, whose sample is any archive, path, version, or manifest and lock; the run's specification implements it. |
| AgentProofs | `CodesTrue`, `NothingLate` | A call that is not under way has no file; a request in the queue, or served and not yet shown, has no answer; a code follows the answer (`CallTrue`, `QueueFresh`, `ServedFresh`). |
| AgentProofs | `ValidatorsAgree` | What every word scanned keeps holds at the end of the line (`FoldKeeps`, by the least length at which it would fail, which needs no induction over operators); so an option seen has a value of its kind, and the event built from the options is one Emacs's own validator accepts (`PayloadGood`, `ParseGood`).  Only a new request writes an event (`WireInv`). |
| FilesProofs | `NotesKept`, `OutcomesTrue`, `RowsSound`, `FreshAnswers` | `MoveSafe`: while the source stands it has the last writes, and from the renaming away of the source on the destination has them, so a destination that is removed, in whole or in part, is not the last copy; what the second manifest has read of a note not written since is its last text, so the staging copy that compares equal has it too, and from the rename on the destination.  `RequestSafe`: what a helper has loaded is of the contents it hashed, and it saves only rows of the current parser or drops those that are not. |
| PreviewProofs | `PagesCatchUp`, `ViewsAgree`, `LiveViewImplemented` | `PreviewInv`: a page knows of nothing newer than what is committed and has been told of that, or will be by its queue, its own goroutine or the handler that announces (`PageInv`); a handler whose revision was overtaken need not tell anybody, because the one that overtook it does.  Under it every step of the composition is a step of LiveView or a stutter.  `ViewInv`: while one update is out at a time, the one that is out is one handler or one answer, and brings Emacs the committed view. |
| AnkiProofs | `SyncInvariant`, `IdentifiersAreTheirs`, `OnlyOrphansGo` | `SyncInv`, below. |
| AnkiProofs | `RecordsInvariant`, `NotesMirrorHeadings`, `NoOrphanIsLeft`, `RepeatedSyncIsNoOp` | `RecordsInv`, below. |
| AnkiProofs | `OneNoteEach` | `TwinInv`, below. |
| FilesProofs | `AnswersAreTrue`, `ExitsAreTrue` | `LinkInv`: while the receiver works, the present look of every file is among those it was found to have, and what the scan noted of a file is one of them (`Noted`), files it need not search having no hits; so each answer has its evidence, a second look at the hit included.  A request in Emacs has no answer yet, and its process waits, timed out or was killed; what Emacs has answered it does not answer again (`ClickInv`). |
| FilesProofs | `InstallKeeps` (`NothingLost`) | Unless the user meddles, nobody who replaces has set aside a foreign app, and whoever is about to drop a handler leaves another, at its place or held by an installer that will not drop it (`OwnOnly`, `Remains`). |

**KeptInv** is what the bytes of a paste need.  Its parts: `OwnPaths` - all lists of a transaction name its own paths; `Life`,
`Hired` - which lists a manifest state can have and which requests can be under way in it (a helper removes what lists say, so the argument
follows the lists from the step that fills them to the removal); `Bytes` - the staged files are there until the place is final, the final ones
once it is, and a helper that publishes has put there all it does not have left; `Unborn`, `Visited` - nothing is known, linked or visited of a paste
before its import answered; `Waiting` - what Emacs's loop may conclude from the answer it waits for; `Linked` - links are final only when the place is.  For pastes that share
a path with another, `Bytes` is false (see the findings), hence `Unshared`.  The invariant itself was checked by TLC before it was proved,
as were `AbortInv`, `SavedInv` and `OwnerInv` with the bounds of `discard`, `saves` and `neighbours` (the last without failing removals).

**SyncInv** and **RecordsInv** are what a sync needs (module AnkiInvariants).  SyncInv: what a run has in hand - the headings to do, the results to
write back by position, the census, the confirmed orphans - is of the file as it still is on disk, because Emacs waits for the run and the user's
commands come between two runs, and because the headings of the buffer are those of the file (`~Careless`).  That alone gives the identifiers and the deletions.
RecordsInv adds four parts.  `TruthInv`: what the registry, or the run that works on it, records of a note is what the collection holds, unless the note
is loose or the run is in the middle of writing it; `HandInv` says how far it has come with that one.  `WholeInv`: in a whole sync, every heading behind the
run's position has its record or is exempt, a result belongs to one heading and to a new note, and once orphans are confirmed every one the
registry knows is among them.  `SettledInv`: after a whole clean sync the registry asks for no request - which a run started then
finds at every heading, so it writes nothing and ends as it began.  Mirror follows from SettledInv (each heading
has its record) and TruthInv (the record is true).  All parts were checked by TLC at the bounds of the run before they were proved; that is how
`Mirror` came to speak of loose notes too.

**TwinInv** is why a heading has one note.  It follows the notes of one name: the one the heading in the buffer identifies, and those
the run under way has made (`NamedInv`, `OldInv`).  What a run has made has a result, or is the replacement it is about to swap in (`AddedInv`); a heading
has at most one result, and if it has one, the note it identifies on disk is gone or given up (`OnceInv`) - so when the answer is written back, the
result takes the place of nothing that lives.  The proof needs `SyncInv` for that: the result has the position of its heading.  Trying to prove
`NoDuplicates` as it was (for notes that are not loose) failed, and rightly: TLC found it false with five commands instead of three,
for a note made loose by one fault and vouched for by a later update.  The exemption therefore went from the notes to the headings.

**ToolDataProofs** is an induction over data without a theorem that takes an operator: the lengths at which a claim holds are a set of numbers, and
`PrefixInduction` says that such a set has them all, by its least gap.  Trying to prove `PlanExact` as it first was, with the manifest's node for the
plan's, showed it false for manifests that pin two node runtimes differently, which the samples did not have.

Only model-checked: the liveness properties, with everything that rests on fairness (`Answered`, the three `Converges`, `Ends`, `Settles`),
which are out of the prover's reach.  All other properties of the passing runs are stated by a theorem of the table.

## Abstractions, and what is not modelled

*Clipboard.*  A file is a directory and a content; the choice of a free name and a collision of names are
abstracted, and so is the truncated file a helper leaves when it is killed in the middle of a copy (it
has another digest and is never reused).  `compensate` attempts a file once even if it is listed both as created and as staging (abort of a
STAGED transaction); the code's second attempt finds it gone.  Not modelled: relocation of assets when a document is renamed, written
elsewhere or refiled; leases and prune; inspect and checkpoint, which change no transaction; limits and permissions; the
pasteboard; the asset index, except that writing it can fail.

*Anki.*  A heading's content is valid or not; Org markup, options and media are not modelled, nor AnkiConnect's own duplicate check, failures of the ID pass, registered
selections, the handshake, or a registry that cannot be read.

*Source links.*  Left out are the character set of an identifier, notifications, how the app is compiled, signed and registered with Launch
Services (a failing registration reports an error with the app in place); whether a click ends in time is not checked.

*Notes.*  Left out are symlinks, modes, empty directories and the registry update in Emacs, and a helper of an older parser version that
runs beside a newer one (its rows may be stamped as current); a note is read or written in one step; a staging directory that could not be removed keeps its random name and is not met again.  The parser is a function of version and
text; excluded directories and corrupt cache files are left out.

*Toolchain.*  One fetch runs at a time.  Left out are JSON with repeated keys, regular expressions, sorting and overflowing numbers; the three fields that
record a component's build are one, `builder`; the tree of an installed bundle is not tampered with; an archive that is changed between
its verification and its extraction; names of an archive that differ only in case, which collide on some file systems and are taken to differ; licences that jvm components download when committed.

*Preview.*  Left out are the Org parser and the renderer, events from the page to Emacs (off by default), pages of linked files and asset handles, the list of
recent files, the change of the generation on a rename.

*Agents.*  Left out are `--version`, which ends with 0 and sends nothing, what is displayed where, the log buffer, `C-g` while an event is carried out, the string entry point the program does not use.

*Components left out.*  Flashcards (a review session of org-fc, sequential, with no protocol of its own), project notes (interactive commands over Org text; its
asynchronous cache call is what NoteCache's `Killed` and `Request` stand for), project tree, gptel, provenance (a pure check of digests), other Org modules, boot and settings.

## Plan

Done: all modules above with their runs; the proofs of the table.  Left, in order:

1. **ClipRelocate**: renames, refiling, leases and prune on top of ClipHelper.
2. A second fetch beside the first; the registry update of project notes beside a move.
