------------------------------ MODULE ClipEmacs ------------------------------
(***************************************************************************)
(* The Emacs side of the clipboard assets (modules/org/28-clipboard.el)    *)
(* composed with the helper of ClipHelper: pasting, saving, editing and    *)
(* killing buffers whose pasted assets are still staged.                   *)
(*                                                                         *)
(* Emacs waits for each lifecycle call, so a buffer has one call under     *)
(* way; imports are asynchronous and complete at any moment, also inside   *)
(* accept-process-output while a save is waiting.  The buffers may belong  *)
(* to different Emacs processes.                                           *)
(***************************************************************************)
EXTENDS ClipHelper

CONSTANTS
  NoTx,           \* no call under way
  MaxSaveFaults,  \* bound on the number of failing saves in a behaviour
  Ways            \* what users do besides pasting, typing, naming, saving and killing

AllWays == {"save-buffer", "name-while-pending", "edit-out", "quit", "quit-kill", "crash"}

ASSUME EmacsAssumption ==
  NoTx \notin Txs /\ MaxSaveFaults \in Nat /\ Ways \subseteq AllWays

VARIABLES
  live,         \* buffer -> it exists in a running Emacs
  named,        \* buffer -> buffer-file-name is set
  listed,       \* buffer -> imoogi-clipboard--transactions
  link,         \* transaction -> the kind of its links in the buffer's text
  disk,         \* transaction -> the kind of its links in the document on disk
  import,       \* transaction -> its import: "new", "fresh", "stale" or "done"
  doing,        \* buffer -> the progress of save-around or dispose-buffer
  before,       \* transaction -> its links when the save began (change-group)
  saveFaults,   \* failed saves so far
  known,        \* history: transactions Emacs has recorded in a buffer
  discarded     \* history: transactions Emacs has sent an abort for

bufferVars == <<live, named, listed>>
textVars == <<link, import>>
saveVars == <<before, saveFaults>>
history == <<known, discarded>>
emacsVars == <<bufferVars, textVars, disk, doing, saveVars, history>>
allVars == <<vars, emacsVars>>

\* imoogi-asset:ID, a relative path into staging, a relative path to the final asset
Links == {"none", "opaque", "staging", "final"}

(* at: the phase; todo: what its loop has still to visit; call: the transaction
   whose call is under way; batch: the prepared transactions of the save;
   settled: those of them found COMMITTED (their lifecycle_state). *)
Phases == {"rest", "prepare", "reconcile", "saved", "commit", "kill"}
Doings == [at : Phases, todo : SUBSET Txs, call : Txs \cup {NoTx},
           batch : SUBSET Txs, settled : SUBSET Txs]
Rest == [at |-> "rest", todo |-> {}, call |-> NoTx, batch |-> {}, settled |-> {}]

Of(b) == {t \in Txs : Home[t] = b}

\* Emacs reads commands in b: the buffer exists and no save or kill is waiting.
AtRest(b) == live[b] /\ doing[b].at = "rest"

\* The text of b changes: an import still on its way will find another tick.
Touch(b) ==
  import' = [t \in Txs |-> IF Home[t] = b /\ import[t] = "fresh" THEN "stale" ELSE import[t]]

EInit ==
  /\ Init
  /\ live = [b \in Buffers |-> TRUE]
  /\ named = [b \in Buffers |-> FALSE]
  /\ listed = [b \in Buffers |-> {}]
  /\ link = [t \in Txs |-> "none"]
  /\ disk = [t \in Txs |-> "none"]
  /\ import = [t \in Txs |-> "new"]
  /\ doing = [b \in Buffers |-> Rest]
  /\ before = [t \in Txs |-> "none"]
  /\ saveFaults = 0
  /\ known = {}
  /\ discarded = {}

-----------------------------------------------------------------------------
(* Pasting *)

\* start-import: the owner is decided now, the links are inserted later.
Paste(t) ==
  /\ AtRest(Home[t])
  /\ import[t] = "new"
  /\ job[t].at = "idle"
  /\ IF named[Home[t]] THEN StartImportOwned(t) ELSE StartImport(t)
  /\ import' = [import EXCEPT ![t] = "fresh"]
  /\ UNCHANGED <<bufferVars, link, disk, doing, saveVars, history>>

\* asset-link: the path is relative as soon as the buffer has a file.
InsertedLink(t) ==
  IF ~ named[Home[t]] THEN "opaque"
  ELSE IF job[t].op = "import" THEN "staging" ELSE "final"

\* finish-import: the links are inserted, a staged transaction is recorded.
FinishImport(t) ==
  /\ link' = [link EXCEPT ![t] = InsertedLink(t)]
  /\ import' = [u \in Txs |->
       IF u = t THEN "done"
       ELSE IF Home[u] = Home[t] /\ import[u] = "fresh" THEN "stale" ELSE import[u]]
  /\ IF job[t].op = "import"
     THEN /\ listed' = [listed EXCEPT ![Home[t]] = @ \cup {t}]
          /\ known' = known \cup {t}
     ELSE UNCHANGED <<listed, known>>

(* The callback of start-import.  A completion that finds the text changed is
   dropped, and so is the helper's transaction with it. *)
ImportReply(t) ==
  /\ live[Home[t]]
  /\ import[t] \in {"fresh", "stale"}
  /\ job[t].at = "replied"
  /\ Dismiss(t)
  /\ IF import[t] = "fresh" /\ job[t].ok
     THEN FinishImport(t)
     ELSE /\ import' = [import EXCEPT ![t] = "done"]
          /\ UNCHANGED <<link, listed, known>>
  /\ UNCHANGED <<live, named, disk, doing, saveVars, discarded>>

-----------------------------------------------------------------------------
(* Editing *)

Type(b) ==
  /\ AtRest(b)
  /\ Touch(b)
  /\ UNCHANGED <<vars, bufferVars, link, disk, doing, saveVars, history>>

\* The user deletes the links of t.
EditOut(t) ==
  /\ "edit-out" \in Ways
  /\ AtRest(Home[t])
  /\ link[t] # "none"
  /\ link' = [link EXCEPT ![t] = "none"]
  /\ Touch(Home[t])
  /\ UNCHANGED <<vars, bufferVars, disk, doing, saveVars, history>>

-----------------------------------------------------------------------------
(* Saving *)

MayName(b) ==
  /\ AtRest(b)
  /\ ~ named[b]
  /\ "name-while-pending" \in Ways \/ \A t \in Of(b) : import[t] \notin {"fresh", "stale"}

\* write-file and set-visited-file-name: the name comes before the save.
SetVisited(b) ==
  /\ MayName(b)
  /\ named' = [named EXCEPT ![b] = TRUE]
  /\ UNCHANGED <<vars, live, listed, textVars, disk, doing, saveVars, history>>

\* The document on disk becomes the text of b.
WriteBuffer(b) ==
  /\ disk' = [t \in Txs |-> IF Home[t] = b THEN link[t] ELSE disk[t]]
  /\ mentioned' = [t \in Txs |-> IF Home[t] = b THEN link[t] # "none" ELSE mentioned[t]]
  /\ UNCHANGED <<manifest, files, job, faults>>

(* save-buffer in a buffer without a file: save-around sees no buffer-file-name
   and only calls basic-save-buffer, which asks for the name itself. *)
FirstSave(b) ==
  /\ "save-buffer" \in Ways
  /\ MayName(b)
  /\ WriteBuffer(b)
  /\ named' = [named EXCEPT ![b] = TRUE]
  /\ UNCHANGED <<live, listed, textVars, doing, saveVars, history>>

\* save-around with nothing staged.
PlainSave(b) ==
  /\ AtRest(b)
  /\ named[b]
  /\ listed[b] = {}
  /\ WriteBuffer(b)
  /\ UNCHANGED <<bufferVars, textVars, doing, saveVars, history>>

\* save-around collects the staged transactions and opens a change group.
BeginSave(b) ==
  /\ AtRest(b)
  /\ named[b]
  /\ listed[b] # {}
  /\ doing' = [doing EXCEPT ![b] =
       [Rest EXCEPT !.at = "prepare", !.todo = listed[b], !.batch = listed[b]]]
  /\ before' = [t \in Txs |-> IF Home[t] = b THEN link[t] ELSE before[t]]
  /\ UNCHANGED <<vars, bufferVars, textVars, disk, saveFaults, history>>

\* A call for t: the loop of t's buffer is at the given phase and waits for nothing.
Ready(t, at) == doing[Home[t]].at = at /\ doing[Home[t]].call = NoTx /\ t \in doing[Home[t]].todo
Call(t) ==
  /\ job[t].at = "idle"
  /\ doing' = [doing EXCEPT ![Home[t]].call = t]
  /\ UNCHANGED <<bufferVars, textVars, disk, saveVars>>

\* A second call for the transaction at hand.
CallAgain(t, at) ==
  /\ doing[Home[t]].at = at /\ doing[Home[t]].call = t /\ job[t].at = "idle"
  /\ UNCHANGED emacsVars

\* The answer to the call for t arrives.
Replied(t, phases) ==
  /\ doing[Home[t]].at \in phases /\ doing[Home[t]].call = t
  /\ job[t].at = "replied"
  /\ Dismiss(t)

\* Seeded bug: the loop goes on while the call counts as waiting.
AdvanceStillWaiting(t, at) ==
  doing' = [doing EXCEPT ![Home[t]].at = at, ![Home[t]].todo = @ \ {t}]

\* The loop goes on to its next transaction.
Advance(t, at) ==
  doing' = [doing EXCEPT ![Home[t]].at = at, ![Home[t]].call = NoTx, ![Home[t]].todo = @ \ {t}]

\* prepare-transaction asks the helper to finalize the next staged transaction.
CallFinalize(t) ==
  Ready(t, "prepare") /\ StartFinalize(t) /\ Call(t) /\ UNCHANGED history

\* Opaque links become paths to the final assets; the state is remembered.
Rewrite(t) ==
  /\ link' = [link EXCEPT ![t] = IF @ = "opaque" THEN "final" ELSE @]
  /\ IF link[t] = "opaque" THEN Touch(Home[t]) ELSE UNCHANGED import
  /\ doing' = [doing EXCEPT
       ![Home[t]].at = "prepare", ![Home[t]].call = NoTx, ![Home[t]].todo = @ \ {t},
       ![Home[t]].settled = IF manifest[t].State = "COMMITTED" THEN @ \cup {t} ELSE @]

\* The error handler of save-around: cancel-change-group, then the error goes on.
SaveError(b) ==
  /\ link' = [t \in Txs |-> IF Home[t] = b THEN before[t] ELSE link[t]]
  /\ Touch(b)
  /\ doing' = [doing EXCEPT ![b] = Rest]

\* prepare-transaction: the answer to finalize, and to reconcile if it was asked for.
PrepareReply(t) ==
  LET reconcile == doing[Home[t]].at = "prepare" /\ manifest[t].State = "NEEDS_RECONCILIATION"
  IN  /\ Replied(t, {"prepare", "reconcile"})
      /\ \/ job[t].ok /\ ~ reconcile /\ Rewrite(t)
         \/ /\ job[t].ok /\ reconcile
            /\ doing' = [doing EXCEPT ![Home[t]].at = "reconcile"]
            /\ UNCHANGED textVars
         \/ ~ job[t].ok /\ SaveError(Home[t])
      /\ UNCHANGED <<bufferVars, disk, saveVars, history>>

CallReconcile(t) == CallAgain(t, "reconcile") /\ StartReconcile(t)

\* Seeded bug: the document is written before the whole batch is prepared.
AllPreparedEarly(b) == doing[b].at = "prepare" /\ doing[b].call = NoTx

\* All staged transactions are prepared: the original basic-save-buffer runs.
AllPrepared(b) == doing[b].at = "prepare" /\ doing[b].todo = {} /\ doing[b].call = NoTx

WriteDocument(b) ==
  /\ AllPrepared(b)
  /\ WriteBuffer(b)
  /\ doing' = [doing EXCEPT ![b].at = "saved", ![b].todo = doing[b].batch]
  /\ UNCHANGED <<bufferVars, textVars, saveVars, history>>

WriteDocumentFails(b) ==
  /\ AllPrepared(b)
  /\ saveFaults < MaxSaveFaults
  /\ saveFaults' = saveFaults + 1
  /\ SaveError(b)
  /\ UNCHANGED <<vars, bufferVars, disk, before, history>>

\* A transaction that finalize found COMMITTED needs no acknowledgement.
DropSettled(t) ==
  /\ Ready(t, "saved") /\ t \in doing[Home[t]].settled
  /\ listed' = [listed EXCEPT ![Home[t]] = @ \ {t}]
  /\ Advance(t, "saved")
  /\ UNCHANGED <<vars, live, named, textVars, disk, saveVars, history>>

CallDocumentSaved(t) ==
  /\ Ready(t, "saved") /\ t \notin doing[Home[t]].settled
  /\ StartDocumentSaved(t) /\ Call(t) /\ UNCHANGED history

\* An acknowledgement that fails is only logged: the transaction stays listed.
DocumentSavedReply(t) ==
  /\ Replied(t, {"saved"})
  /\ IF job[t].ok THEN doing' = [doing EXCEPT ![Home[t]].at = "commit"]
                  ELSE Advance(t, "saved")
  /\ UNCHANGED <<bufferVars, textVars, disk, saveVars, history>>

CallCommit(t) == CallAgain(t, "commit") /\ StartCommit(t)

CommitReply(t) ==
  /\ Replied(t, {"commit"})
  /\ listed' = [listed EXCEPT ![Home[t]] = IF job[t].ok THEN @ \ {t} ELSE @]
  /\ Advance(t, "saved")
  /\ UNCHANGED <<live, named, textVars, disk, saveVars, history>>

EndSave(b) ==
  /\ doing[b].at = "saved" /\ doing[b].todo = {} /\ doing[b].call = NoTx
  /\ doing' = [doing EXCEPT ![b] = Rest]
  /\ UNCHANGED <<vars, bufferVars, textVars, disk, saveVars, history>>

-----------------------------------------------------------------------------
(* Killing a buffer, quitting, crashing *)

\* dispose-buffer on kill-buffer-hook: every staged transaction is aborted.
BeginKill(b) ==
  /\ AtRest(b)
  /\ doing' = [doing EXCEPT ![b].at = "kill", ![b].todo = listed[b]]
  /\ UNCHANGED <<vars, bufferVars, textVars, disk, saveVars, history>>

CallAbort(t) ==
  /\ Ready(t, "kill") /\ StartAbort(t) /\ Call(t)
  /\ discarded' = discarded \cup {t}
  /\ UNCHANGED known

\* Whatever the helper answers, the transaction is forgotten.
AbortReply(t) ==
  /\ Replied(t, {"kill"})
  /\ Advance(t, "kill")
  /\ UNCHANGED <<bufferVars, textVars, disk, saveVars, history>>

\* Seeded bug: Emacs deletes the staging directory behind the helper's back.
LeaveAndClean(b) ==
  /\ live' = [live EXCEPT ![b] = FALSE]
  /\ listed' = [listed EXCEPT ![b] = {}]
  /\ doing' = [doing EXCEPT ![b] = Rest]
  /\ files' = files \ ({b} \X Contents)
  /\ UNCHANGED <<manifest, mentioned, job, faults, named, textVars, disk, saveVars, history>>

\* The buffer is gone, and its list with it.
Leave(b) ==
  /\ live' = [live EXCEPT ![b] = FALSE]
  /\ listed' = [listed EXCEPT ![b] = {}]
  /\ doing' = [doing EXCEPT ![b] = Rest]
  /\ UNCHANGED <<vars, named, textVars, disk, saveVars, history>>

EndKill(b) ==
  /\ doing[b].at = "kill" /\ doing[b].todo = {} /\ doing[b].call = NoTx
  /\ Leave(b)

(* C-g while a call is waiting: call-sync deletes the helper, condition-case
   does not catch a quit, so the save or kill stops as it is.  A quit after
   the document was written loses acknowledgements of the batch; a quit from kill-buffer leaves
   the buffer and its list. *)
Quit(b) ==
  /\ (IF doing[b].at = "kill" THEN "quit-kill" ELSE "quit") \in Ways
  /\ doing[b].call # NoTx
  /\ doing[b].at \in {"saved", "commit"} => "lost-ack" \in Faults
  /\ Dismiss(doing[b].call)
  /\ doing' = [doing EXCEPT ![b] = Rest]
  /\ UNCHANGED <<bufferVars, textVars, disk, saveVars, history>>

\* Emacs dies: nothing is aborted, the helpers under way finish or not.
Crash(b) == "crash" \in Ways /\ live[b] /\ Leave(b)

-----------------------------------------------------------------------------
(* The composition *)

\* Steps Emacs takes by itself once a command was given.
SaveStep(b) ==
  \/ WriteDocument(b) \/ WriteDocumentFails(b) \/ EndSave(b)
  \/ \E t \in Of(b) : \/ CallFinalize(t) \/ PrepareReply(t) \/ CallReconcile(t)
                      \/ DropSettled(t) \/ CallDocumentSaved(t) \/ DocumentSavedReply(t)
                      \/ CallCommit(t) \/ CommitReply(t)

KillStep(b) == EndKill(b) \/ \E t \in Of(b) : CallAbort(t) \/ AbortReply(t)

User(b) ==
  \/ Type(b) \/ SetVisited(b) \/ FirstSave(b) \/ PlainSave(b) \/ BeginSave(b)
  \/ BeginKill(b) \/ Quit(b) \/ Crash(b)

HelperStep(t) == (Work(t) \/ Die(t)) /\ UNCHANGED emacsVars

ENext ==
  \/ \E b \in Buffers : User(b) \/ SaveStep(b) \/ KillStep(b)
  \/ \E t \in Txs : Paste(t) \/ EditOut(t) \/ ImportReply(t) \/ HelperStep(t)

ESpec == EInit /\ [][ENext]_allVars

(* Helpers run, Emacs runs the command it is in and the callbacks of imports,
   and the user names the buffer and saves it as long as something is staged. *)
EFairSpec ==
  /\ ESpec
  /\ \A t \in Txs : WF_allVars(Work(t) /\ UNCHANGED emacsVars) /\ WF_allVars(ImportReply(t))
  /\ \A b \in Buffers : /\ WF_allVars(SaveStep(b)) /\ WF_allVars(KillStep(b))
                        /\ WF_allVars(SetVisited(b)) /\ WF_allVars(BeginSave(b))

-----------------------------------------------------------------------------
(* Properties *)

(* Every Emacs variable has its type, and only transactions of a buffer are in
   its list, its loops and its call. *)
EmacsTypeOK ==
  /\ live \in [Buffers -> BOOLEAN]
  /\ named \in [Buffers -> BOOLEAN]
  /\ listed \in [Buffers -> SUBSET Txs]
  /\ link \in [Txs -> Links]
  /\ disk \in [Txs -> Links]
  /\ import \in [Txs -> {"new", "fresh", "stale", "done"}]
  /\ doing \in [Buffers -> Doings]
  /\ before \in [Txs -> Links]
  /\ saveFaults \in 0..MaxSaveFaults
  /\ known \subseteq Txs
  /\ discarded \subseteq known
  /\ \A t \in Txs : mentioned[t] = (disk[t] # "none")
  /\ \A b \in Buffers :
       /\ listed[b] \cup doing[b].todo \cup doing[b].batch \cup doing[b].settled \subseteq Of(b)
       /\ doing[b].call # NoTx => doing[b].call \in doing[b].todo

\* No other transaction publishes a content of t into t's directories.
Unshared(t) ==
  \A u \in Txs \ {t} : \/ Payload[t] \cap Payload[u] = {}
                       \/ Home[t] # Home[u] /\ Root[Home[t]] # Root[Home[u]]

(* The bytes of a paste are never lost: from the moment Emacs recorded the
   transaction until its buffer is killed, all its contents are staged or all
   are at their final place, whatever fails or dies between two steps of
   finalize, commit and reconcile. *)
PayloadKept ==
  \A t \in known \ discarded :
    Unshared(t) => StagedAssets(t) \subseteq files \/ FinalAssets(t) \subseteq files

(* README, clipboard table: the first successful save moves the assets of an
   unsaved buffer to their final place.  Whatever a document on disk links to
   is in its asset directory. *)
SavedAssetsFinal == \A t \in Txs : disk[t] # "none" => FinalAssets(t) \subseteq files

(* A link saved to a final asset never dangles while the buffer lives, whatever
   fails, dies or is retried after the document was written. *)
SavedLinksKept ==
  \A t \in known \ discarded :
    Unshared(t) /\ disk[t] = "final" => FinalAssets(t) \subseteq files

(* Documents of one asset directory share its files by content.  Whatever such
   neighbours publish, fail, take back or abort, a committed transaction keeps the
   final assets it created, its own later calls included; it loses one it found
   there only together with the paste that created it, whose own document was
   never confirmed as saved. *)
CommittedAssetsStay ==
  [][\A t \in Txs : manifest[t].State = "COMMITTED" =>
       \A f \in (FinalAssets(t) \cap files) \ files' :
         /\ f \notin manifest[t].CreatedFiles
         /\ \E u \in Txs \ {t} :
              /\ f \in manifest[u].CreatedFiles \cup job[u].made
              /\ manifest[u].State \notin {"DOCUMENT_SAVED", "COMMITTED"}]_allVars

(* Killing the buffer takes back all the transaction put on disk, no matter how
   often its save failed and was retried before: a retry must not forget which
   final files the first attempt created. *)
AbortLeavesNothing ==
  \A t \in Txs : manifest[t].State = "ABORTED" /\ Unshared(t)
                   => (StagedAssets(t) \cup FinalAssets(t)) \cap files \subseteq PreExisting

(* A transaction is committed only when the document on disk mentions its
   assets and they are at their final place. *)
CommitsMentionedAssets ==
  [][\A t \in Txs :
       manifest'[t].State = "COMMITTED" /\ manifest[t].State # "COMMITTED"
         => mentioned[t] /\ (Unshared(t) => FinalAssets(t) \subseteq files)]_allVars

\* The helper as Emacs uses it is the helper of ClipHelper.
HelperSpec == Spec

(* A staged transaction is settled by the next saves that reach the helper
   (clipboard-test.el, lost-commit-response-converges-on-next-save), unless
   its buffer is killed first: lost answers and failed steps never wedge it. *)
Converges == \A t \in Txs : t \in listed[Home[t]] ~> t \notin listed[Home[t]]

==============================================================================
