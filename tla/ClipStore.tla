------------------------------ MODULE ClipStore ------------------------------
(***************************************************************************)
(* The manifest of one asset transaction of the clipboard helper and the   *)
(* way internal/clipboard/staging.go rewrites it.  A manifest is written   *)
(* with writeJSONAtomic (temporary file, fsync, rename), so every operator *)
(* below describes one atomic replacement of the manifest on disk.         *)
(*                                                                         *)
(* Owner and Assets always change together (Create names the staging       *)
(* owner and staged paths, Prepare the destination owner and final paths), *)
(* so the field Place stands for both.                                     *)
(***************************************************************************)

\* "NONE": no manifest was written for the transaction.
States == {"NONE", "STAGED", "PREPARED", "DOCUMENT_SAVED", "COMMITTED",
           "NEEDS_RECONCILIATION", "ABORTED"}

Terminal == {"COMMITTED", "ABORTED"}

\* Seeded bugs of allowedTransition: an unsettled transaction may be confirmed
\* again; a repeated state is refused.
AllowedTransitionUnparks(current, next) ==
  \/ current = "STAGED" /\ next \in {"PREPARED", "ABORTED", "NEEDS_RECONCILIATION"}
  \/ current = "PREPARED" /\ next \in {"DOCUMENT_SAVED", "ABORTED", "NEEDS_RECONCILIATION"}
  \/ current = "DOCUMENT_SAVED" /\ next \in {"DOCUMENT_SAVED", "COMMITTED", "NEEDS_RECONCILIATION"}
  \/ current = "NEEDS_RECONCILIATION" /\ next \in Terminal \cup {"DOCUMENT_SAVED"}

AllowedTransitionNoRepeat(current, next) ==
  \/ current = "STAGED" /\ next \in {"PREPARED", "ABORTED", "NEEDS_RECONCILIATION"}
  \/ current = "PREPARED" /\ next \in {"DOCUMENT_SAVED", "ABORTED", "NEEDS_RECONCILIATION"}
  \/ current = "DOCUMENT_SAVED" /\ next \in {"COMMITTED", "NEEDS_RECONCILIATION"}
  \/ current = "NEEDS_RECONCILIATION" /\ next \in Terminal

\* allowedTransition.  Nothing is allowed without a manifest: Load fails first.
AllowedTransition(current, next) ==
  \/ current = next /\ current # "NONE"
  \/ current = "STAGED" /\ next \in {"PREPARED", "ABORTED", "NEEDS_RECONCILIATION"}
  \/ current = "PREPARED" /\ next \in {"DOCUMENT_SAVED", "ABORTED", "NEEDS_RECONCILIATION"}
  \/ current = "DOCUMENT_SAVED" /\ next \in {"COMMITTED", "NEEDS_RECONCILIATION"}
  \/ current = "NEEDS_RECONCILIATION" /\ next \in Terminal

Manifests(Files) ==
  [State : States, Place : {"staging", "final"}, CreatedFiles : SUBSET Files,
   StagingFiles : SUBSET Files, Orphans : SUBSET Files]

NoManifest ==
  [State |-> "NONE", Place |-> "staging", CreatedFiles |-> {},
   StagingFiles |-> {}, Orphans |-> {}]

\* Store.Create: the files the import created are both the created and the staging files.
Create(created) ==
  [State |-> "STAGED", Place |-> "staging", CreatedFiles |-> created,
   StagingFiles |-> created, Orphans |-> {}]

\* Store.RecordRecovery of the manifest that Create could not write.
RecordRecovery(created, orphans) ==
  [Create(created) EXCEPT !.State = "NEEDS_RECONCILIATION", !.Orphans = orphans]

\* Seeded bug: the list of staging files is overwritten too.
PrepareForgetsStaging(m, created) ==
  [m EXCEPT !.State = "PREPARED", !.Place = "final", !.CreatedFiles = created,
            !.StagingFiles = created]

\* Store.Prepare: the created files become the final ones, StagingFiles are kept.
Prepare(m, created) ==
  [m EXCEPT !.State = "PREPARED", !.Place = "final", !.CreatedFiles = created]

\* Store.Transition with a list of orphans (which may be the empty list).
TransitionOrphans(m, next, orphans) ==
  [m EXCEPT !.State = next, !.Orphans = orphans]

\* Store.Transition with nil lists: the recorded ones are kept.
Transition(m, next) == [m EXCEPT !.State = next]
==============================================================================
