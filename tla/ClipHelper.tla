----------------------------- MODULE ClipHelper -----------------------------
(***************************************************************************)
(* The clipboard helper imoogi-clip: the transaction operations of         *)
(* internal/clipboard/service.go over the manifests of staging.go and the  *)
(* files of publish.go.                                                    *)
(*                                                                         *)
(* Every request is a process of its own that reads one manifest, changes  *)
(* files one at a time and replaces the manifest.  Helpers of different    *)
(* transactions run side by side and share directories; a helper may be    *)
(* killed between any two steps (Emacs deletes it on a timeout), a removal *)
(* or a write may fail.  There is at most one helper per transaction:      *)
(* Emacs waits for each lifecycle call or kills it.                        *)
(*                                                                         *)
(* Spec is the helper with ANY client: requests come in any order and the  *)
(* documents change at any time.  ClipEmacs replaces that client by the    *)
(* Emacs side of the protocol.                                             *)
(*                                                                         *)
(* A file is a directory and a content: Publish finds a content that is    *)
(* already in the directory and never overwrites, so a content has one     *)
(* name there.  A transaction's asset paths are therefore a function of    *)
(* its contents.                                                           *)
(***************************************************************************)
EXTENDS ClipStore, Naturals

CONSTANTS
  Txs,          \* asset transactions
  Buffers,      \* Emacs buffers; a buffer generation is one staging directory
  Roots,        \* asset directories of saved documents (<file>.assets, assets/)
  Contents,     \* file contents, told apart by their SHA-256
  Home,         \* the buffer of a transaction
  Root,         \* the asset directory of a buffer's document
  Payload,      \* the contents a transaction imports
  PreExisting,  \* files that were in the asset directories before
  Faults,       \* the kinds of fault that may happen
  MaxFaults     \* bound on the number of faults in a behaviour

FaultKinds == {"publish", "write", "remove", "kill", "lost-ack"}

ASSUME ConstantsAssumption ==
  /\ Home \in [Txs -> Buffers]
  /\ Root \in [Buffers -> Roots]
  /\ Payload \in [Txs -> (SUBSET Contents) \ {{}}]
  /\ Buffers \cap Roots = {}          \* the staging base is no owner's directory
  /\ PreExisting \subseteq Roots \X Contents
  /\ Faults \subseteq FaultKinds
  /\ MaxFaults \in Nat

VARIABLES
  manifest,   \* transaction -> its manifest.json
  files,      \* the asset files on disk
  mentioned,  \* transaction -> the document on disk mentions its assets
  job,        \* transaction -> the helper process that serves it
  faults      \* faults so far

vars == <<manifest, files, mentioned, job, faults>>

-----------------------------------------------------------------------------
(* Files and links *)

Files == (Buffers \cup Roots) \X Contents

\* Seeded bug: staged under the transaction instead of the buffer generation.
StagingPathOwn(t, c) == <<t, c>>

StagingPath(t, c) == <<Home[t], c>>
FinalPath(t, c) == <<Root[Home[t]], c>>
StagedAssets(t) == {StagingPath(t, c) : c \in Payload[t]}
FinalAssets(t) == {FinalPath(t, c) : c \in Payload[t]}

(* verifyPreparedManifest.  The manifest names a document only once it was
   prepared.  RelativePath is the asset's base name, which the label of the
   link contains whatever the link's target is: mentioned is all it can see. *)
Verified(t) ==
  /\ manifest[t].Place = "final"
  /\ mentioned[t]
  /\ FinalAssets(t) \subseteq files

-----------------------------------------------------------------------------
(* Helper processes *)

Operations == {"none", "import", "import-owned", "finalize", "document-saved",
               "commit", "reconcile", "abort"}

\* publish: copy what is in left; write: replace the manifest;
\* undo/rollback: remove left after a failed publish/write; recover: record orphans;
\* remove: remove left, then replace the manifest; replied: the process has exited.
Stages == {"idle", "publish", "undo", "write", "rollback", "recover", "remove", "replied"}

Jobs == [op : Operations, at : Stages, left : SUBSET Contents, made : SUBSET Files,
         doomed : SUBSET Files, orphans : SUBSET Files, ok : BOOLEAN]

NoJob == [op |-> "none", at |-> "idle", left |-> {}, made |-> {}, doomed |-> {},
          orphans |-> {}, ok |-> FALSE]

Begin(t, op, at) == job' = [job EXCEPT ![t] = [NoJob EXCEPT !.op = op, !.at = at]]

Answer(t, op, ok) ==
  job' = [job EXCEPT ![t] = [NoJob EXCEPT !.op = op, !.at = "replied", !.ok = ok]]

Reply(t, ok) == Answer(t, job[t].op, ok)

BeginRemoval(t, op, paths) ==
  job' = [job EXCEPT ![t] = [NoJob EXCEPT !.op = op, !.at = "remove", !.doomed = paths]]

GoTo(t, at) == job' = [job EXCEPT ![t].at = at]

Working(t) == job[t].at \notin {"idle", "replied"}

\* A fault of the given kind hits t's helper.  Whatever loses the answer to
\* document-saved is the fault "lost-ack".
Fault(t, kind) ==
  /\ kind \in Faults
  /\ job[t].op = "document-saved" => "lost-ack" \in Faults
  /\ faults < MaxFaults
  /\ faults' = faults + 1

-----------------------------------------------------------------------------
(* Requests: Handle reads the request and the manifest, and either answers
   at once or starts to work. *)

\* importPaths with a staging owner (a buffer without a file).
StartImport(t) ==
  /\ manifest[t].State = "NONE"
  /\ job' = [job EXCEPT ![t] =
       [NoJob EXCEPT !.op = "import", !.at = "publish", !.left = Payload[t]]]
  /\ UNCHANGED <<manifest, files, mentioned, faults>>

\* importPaths with a document's owner: no transaction is recorded.
StartImportOwned(t) ==
  /\ manifest[t].State = "NONE"
  /\ job' = [job EXCEPT ![t] =
       [NoJob EXCEPT !.op = "import-owned", !.at = "publish", !.left = Payload[t]]]
  /\ UNCHANGED <<manifest, files, mentioned, faults>>

\* The paths finalize publishes from: manifest.Assets.
Sources(t) == IF manifest[t].Place = "staging" THEN StagedAssets(t) ELSE FinalAssets(t)

Prepared == {"PREPARED", "DOCUMENT_SAVED", "NEEDS_RECONCILIATION", "COMMITTED"}

\* Seeded bug: a prepared transaction is published again.
StartFinalizeAgain(t) ==
  /\ IF manifest[t].State # "NONE" /\ Sources(t) \subseteq files
     THEN job' = [job EXCEPT ![t] =
            [NoJob EXCEPT !.op = "finalize", !.at = "publish", !.left = Payload[t]]]
     ELSE Answer(t, "finalize", FALSE)
  /\ UNCHANGED <<manifest, files, mentioned, faults>>

\* finalize is idempotent once prepared; preflightSources wants every source.
StartFinalize(t) ==
  /\ \/ /\ manifest[t].State \in Prepared
        /\ Answer(t, "finalize", TRUE)
     \/ /\ manifest[t].State \notin Prepared
        /\ manifest[t].State = "NONE" \/ ~ Sources(t) \subseteq files
        /\ Answer(t, "finalize", FALSE)
     \/ /\ manifest[t].State \notin Prepared \cup {"NONE"}
        /\ Sources(t) \subseteq files
        /\ job' = [job EXCEPT ![t] =
             [NoJob EXCEPT !.op = "finalize", !.at = "publish", !.left = Payload[t]]]
  /\ UNCHANGED <<manifest, files, mentioned, faults>>

StartDocumentSaved(t) ==
  /\ IF AllowedTransition(manifest[t].State, "DOCUMENT_SAVED")
     THEN Begin(t, "document-saved", "write")
     ELSE Answer(t, "document-saved", FALSE)
  /\ UNCHANGED <<manifest, files, mentioned, faults>>

\* Seeded bugs: the saved document is not read; the created files are removed too.
StartCommitUnverified(t) ==
  /\ IF manifest[t].State = "DOCUMENT_SAVED"
     THEN BeginRemoval(t, "commit", manifest[t].StagingFiles)
     ELSE Answer(t, "commit", manifest[t].State = "COMMITTED")
  /\ UNCHANGED <<manifest, files, mentioned, faults>>

StartCommitRemovesCreated(t) ==
  /\ IF manifest[t].State = "DOCUMENT_SAVED" /\ Verified(t)
     THEN BeginRemoval(t, "commit", manifest[t].CreatedFiles \cup manifest[t].StagingFiles)
     ELSE Answer(t, "commit", manifest[t].State = "COMMITTED")
  /\ UNCHANGED <<manifest, files, mentioned, faults>>

\* commit removes the staging files, but only of a verified, saved document.
StartCommit(t) ==
  /\ \/ /\ manifest[t].State = "COMMITTED"
        /\ Answer(t, "commit", TRUE)
     \/ /\ manifest[t].State # "COMMITTED"
        /\ manifest[t].State # "DOCUMENT_SAVED" \/ ~ Verified(t)
        /\ Answer(t, "commit", FALSE)
     \/ /\ manifest[t].State = "DOCUMENT_SAVED"
        /\ Verified(t)
        /\ BeginRemoval(t, "commit", manifest[t].StagingFiles)
  /\ UNCHANGED <<manifest, files, mentioned, faults>>

\* reconcile removes the recorded orphans, or the staging files if there are none.
StartReconcile(t) ==
  /\ \/ /\ manifest[t].State \in {"STAGED", "COMMITTED", "ABORTED"}
        /\ Answer(t, "reconcile", TRUE)
     \/ /\ manifest[t].State = "NONE"
        /\ Answer(t, "reconcile", FALSE)
     \/ /\ manifest[t].State \in {"PREPARED", "DOCUMENT_SAVED"}
        /\ Answer(t, "reconcile", Verified(t))
     \/ /\ manifest[t].State = "NEEDS_RECONCILIATION"
        /\ ~ Verified(t)
        /\ Answer(t, "reconcile", FALSE)
     \/ /\ manifest[t].State = "NEEDS_RECONCILIATION"
        /\ Verified(t)
        /\ BeginRemoval(t, "reconcile",
             IF manifest[t].Orphans = {} THEN manifest[t].StagingFiles
                                         ELSE manifest[t].Orphans)
  /\ UNCHANGED <<manifest, files, mentioned, faults>>

Abortable == {"STAGED", "PREPARED", "NEEDS_RECONCILIATION"}

StartAbort(t) ==
  /\ \/ /\ manifest[t].State \notin Abortable
        /\ Answer(t, "abort", manifest[t].State = "ABORTED")
     \/ /\ manifest[t].State \in Abortable
        /\ BeginRemoval(t, "abort", manifest[t].CreatedFiles \cup manifest[t].StagingFiles)
  /\ UNCHANGED <<manifest, files, mentioned, faults>>

\* Service.Handle
Request(t) ==
  /\ job[t].at = "idle"
  /\ \/ StartImport(t) \/ StartImportOwned(t) \/ StartFinalize(t)
     \/ StartDocumentSaved(t) \/ StartCommit(t) \/ StartReconcile(t) \/ StartAbort(t)

-----------------------------------------------------------------------------
(* Publishing *)

Target(t, c) == IF job[t].op = "import" THEN StagingPath(t, c) ELSE FinalPath(t, c)

\* Where publishOne reads c: the user's file for an import, the staged asset for finalize.
Readable(t, c) ==
  job[t].op = "finalize" =>
    IF manifest[t].Place = "staging" THEN StagingPath(t, c) \in files
                                     ELSE FinalPath(t, c) \in files

\* Seeded bug: a reused file counts as created.
PublishOneOwnsReused(t) ==
  /\ job[t].at = "publish"
  /\ \E c \in job[t].left :
       /\ Readable(t, c)
       /\ files' = files \cup {Target(t, c)}
       /\ job' = [job EXCEPT ![t].left = @ \ {c}, ![t].made = @ \cup {Target(t, c)}]
  /\ UNCHANGED <<manifest, mentioned, faults>>

\* publishOne: a content the directory already has is reused and not a created file.
PublishOne(t) ==
  /\ job[t].at = "publish"
  /\ \E c \in job[t].left :
       /\ Readable(t, c)
       /\ files' = files \cup {Target(t, c)}
       /\ job' = [job EXCEPT ![t].left = @ \ {c},
                             ![t].made = IF Target(t, c) \in files THEN @
                                         ELSE @ \cup {Target(t, c)}]
  /\ UNCHANGED <<manifest, mentioned, faults>>

\* publishOne or saveAssetCache fails: what was created is removed again.
PublishFails(t) ==
  /\ job[t].at = "publish"
  /\ \/ Fault(t, "publish")
     \/ (\E c \in job[t].left : ~ Readable(t, c)) /\ UNCHANGED faults
  /\ job' = [job EXCEPT ![t].at = "undo", ![t].doomed = job[t].made]
  /\ UNCHANGED <<manifest, files, mentioned>>

PublishDone(t) ==
  /\ job[t].at = "publish"
  /\ job[t].left = {}
  /\ IF job[t].op = "import-owned" THEN Reply(t, TRUE) ELSE GoTo(t, "write")
  /\ UNCHANGED <<manifest, files, mentioned, faults>>

-----------------------------------------------------------------------------
(* Writing the manifest *)

\* The manifest the request wants to write, and whether staging.go accepts it.
Wanted(t) ==
  CASE job[t].op = "import" -> Create(job[t].made)
    [] job[t].op = "finalize" -> Prepare(manifest[t], job[t].made)
    [] OTHER -> Transition(manifest[t], "DOCUMENT_SAVED")

Accepted(t) == job[t].op = "import" \/ AllowedTransition(manifest[t].State, Wanted(t).State)

WriteManifest(t) ==
  /\ job[t].at = "write"
  /\ Accepted(t)
  /\ manifest' = [manifest EXCEPT ![t] = Wanted(t)]
  /\ Reply(t, TRUE)
  /\ UNCHANGED <<files, mentioned, faults>>

\* A manifest that cannot be written leaves files to compensate.
WriteFails(t) ==
  /\ job[t].at = "write"
  /\ IF Accepted(t) THEN Fault(t, "write") ELSE UNCHANGED faults
  /\ IF job[t].op = "document-saved" THEN Reply(t, FALSE)
     ELSE job' = [job EXCEPT ![t].at = "rollback", ![t].doomed = job[t].made]
  /\ UNCHANGED <<manifest, files, mentioned>>

-----------------------------------------------------------------------------
(* Removing files: compensate *)

Removing == {"undo", "rollback", "remove"}

(* compensate walks the list backwards: abort's list is the created files
   followed by the staging files, so the staging files go first.  A file on both
   lists (the abort of a STAGED transaction) is attempted once. *)
NextDoomed(t) ==
  LET staging == job[t].doomed \cap manifest[t].StagingFiles
  IN  IF staging # {} THEN staging ELSE job[t].doomed

\* Seeded bug: a file that is gone is waited for.
RemoveOneMustExist(t) ==
  /\ job[t].at \in Removing
  /\ \E f \in NextDoomed(t) \cap files :
       /\ files' = files \ {f}
       /\ job' = [job EXCEPT ![t].doomed = @ \ {f}]
  /\ UNCHANGED <<manifest, mentioned, faults>>

\* A file that does not exist counts as removed.
RemoveOne(t) ==
  /\ job[t].at \in Removing
  /\ \E f \in NextDoomed(t) :
       /\ files' = files \ {f}
       /\ job' = [job EXCEPT ![t].doomed = @ \ {f}]
  /\ UNCHANGED <<manifest, mentioned, faults>>

\* Seeded bug: the file that could not be removed is forgotten.
RemoveFailsForgets(t) ==
  /\ job[t].at \in Removing
  /\ \E f \in NextDoomed(t) \cap files : job' = [job EXCEPT ![t].doomed = @ \ {f}]
  /\ Fault(t, "remove")
  /\ UNCHANGED <<manifest, files, mentioned>>

RemoveFails(t) ==
  /\ job[t].at \in Removing
  /\ \E f \in NextDoomed(t) \cap files :
       job' = [job EXCEPT ![t].doomed = @ \ {f}, ![t].orphans = @ \cup {f}]
  /\ Fault(t, "remove")
  /\ UNCHANGED <<manifest, files, mentioned>>

\* Publish and Prepare failed: only orphans of a failed manifest write are recorded.
Compensated(t) ==
  /\ job[t].at \in {"undo", "rollback"}
  /\ job[t].doomed = {}
  /\ IF job[t].at = "rollback" /\ job[t].orphans # {}
     THEN GoTo(t, "recover") ELSE Reply(t, FALSE)
  /\ UNCHANGED <<manifest, files, mentioned, faults>>

\* RecordRecovery for an import, Transition for finalize; the request fails all the same.
Recovery(t) ==
  IF job[t].op = "import" THEN RecordRecovery(job[t].made, job[t].orphans)
  ELSE [TransitionOrphans(manifest[t], "NEEDS_RECONCILIATION", job[t].orphans)
          EXCEPT !.CreatedFiles = job[t].made]

RecoveryAccepted(t) ==
  job[t].op = "import" \/ AllowedTransition(manifest[t].State, "NEEDS_RECONCILIATION")

Recover(t) ==
  /\ job[t].at = "recover"
  /\ \/ /\ RecoveryAccepted(t)
        /\ manifest' = [manifest EXCEPT ![t] = Recovery(t)]
        /\ UNCHANGED faults
     \/ /\ IF RecoveryAccepted(t) THEN Fault(t, "write") ELSE UNCHANGED faults
        /\ UNCHANGED manifest
  /\ Reply(t, FALSE)
  /\ UNCHANGED <<files, mentioned>>

(* The end of commit, reconcile and abort.  abort passes compensate's nil list
   when nothing was left over, so the orphans recorded earlier stay. *)
Settled(t) ==
  IF job[t].orphans # {}
  THEN TransitionOrphans(manifest[t], "NEEDS_RECONCILIATION", job[t].orphans)
  ELSE IF job[t].op = "abort" THEN Transition(manifest[t], "ABORTED")
       ELSE TransitionOrphans(manifest[t], "COMMITTED", {})

Settle(t) ==
  /\ job[t].at = "remove"
  /\ job[t].doomed = {}
  /\ \/ /\ AllowedTransition(manifest[t].State, Settled(t).State)
        /\ manifest' = [manifest EXCEPT ![t] = Settled(t)]
        /\ Reply(t, job[t].orphans = {})
        /\ UNCHANGED faults
     \/ /\ Fault(t, "write")
        /\ Reply(t, FALSE)
        /\ UNCHANGED manifest
  /\ UNCHANGED <<files, mentioned>>

-----------------------------------------------------------------------------
(* The whole helper *)

Work(t) ==
  \/ PublishOne(t) \/ PublishFails(t) \/ PublishDone(t)
  \/ WriteManifest(t) \/ WriteFails(t)
  \/ RemoveOne(t) \/ RemoveFails(t) \/ Compensated(t) \/ Recover(t) \/ Settle(t)

(* The helper dies: its answer is lost, whatever it had done so far stays.
   Also the timeout of imoogi-clipboard--call-sync, which deletes the process. *)
Die(t) ==
  /\ Working(t) \/ (job[t].at = "replied" /\ job[t].ok)
  /\ Fault(t, "kill")
  /\ Reply(t, FALSE)
  /\ UNCHANGED <<manifest, files, mentioned>>

\* The client takes the answer, or gives up on the helper and deletes it.
Dismiss(t) ==
  /\ job[t].at # "idle"
  /\ job' = [job EXCEPT ![t] = NoJob]
  /\ UNCHANGED <<manifest, files, mentioned, faults>>

\* The documents on disk change.
WriteDocuments ==
  /\ mentioned' \in [Txs -> BOOLEAN]
  /\ UNCHANGED <<manifest, files, job, faults>>

Init ==
  /\ manifest = [t \in Txs |-> NoManifest]
  /\ files = PreExisting
  /\ mentioned = [t \in Txs |-> FALSE]
  /\ job = [t \in Txs |-> NoJob]
  /\ faults = 0

Next ==
  \/ \E t \in Txs : Request(t) \/ Work(t) \/ Die(t) \/ Dismiss(t)
  \/ WriteDocuments

Spec == Init /\ [][Next]_vars

FairSpec == Spec /\ \A t \in Txs : WF_vars(Work(t))

-----------------------------------------------------------------------------
(* Properties *)

(* Every variable has its type; no file or job ever names a path outside the
   staging directories and the asset directories. *)
TypeOK ==
  /\ manifest \in [Txs -> Manifests(Files)]
  /\ files \subseteq Files
  /\ mentioned \in [Txs -> BOOLEAN]
  /\ job \in [Txs -> Jobs]
  /\ faults \in 0..MaxFaults

(* A file that was in an asset directory before is never removed: publishOne
   reuses it when a paste has the same content, and no commit, abort,
   reconciliation or compensation of a failed step may take it for a file the
   transaction created. *)
UserFilesKept == PreExisting \subseteq files

(* Why: nothing that may ever be removed - a manifest's created, staging and
   orphaned files, the files a running helper made, removes or failed to remove -
   is a file that was there before. *)
Removable(t) ==
  manifest[t].CreatedFiles \cup manifest[t].StagingFiles \cup manifest[t].Orphans
    \cup job[t].made \cup job[t].doomed \cup job[t].orphans

UserFilesDisowned == \A t \in Txs : Removable(t) \cap PreExisting = {}

\* The manifests seen as the life of each transaction.
lifecycle == [t \in Txs |-> manifest[t].State]

TL == INSTANCE TxLifecycle WITH state <- lifecycle

(* Whatever the client asks for and whichever helper dies, transactions live
   the promised life: allowedTransition and the guards of the handlers together
   never abort a transaction whose document was confirmed mentioned, and never
   leave COMMITTED or ABORTED. *)
Lifecycle == TL!Spec

(* Every helper comes to an answer: a removal that finds its file already gone,
   because a killed helper or a neighbour removed it, goes on. *)
Answered == \A t \in Txs : Working(t) ~> ~ Working(t)

=============================================================================
