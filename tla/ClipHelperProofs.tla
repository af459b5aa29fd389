-------------------------- MODULE ClipHelperProofs --------------------------
(***************************************************************************)
(* Proofs about ClipHelper: the helper with any client, any number of      *)
(* transactions, any sharing of directories and contents, any faults.      *)
(***************************************************************************)
EXTENDS ClipHelper, TLAPS

-----------------------------------------------------------------------------
(* Types *)

(* The paths a transaction publishes to are files. *)
LEMMA PathTypes ==
  ASSUME NEW t \in Txs, NEW c \in Payload[t]
  PROVE  StagingPath(t, c) \in Files /\ FinalPath(t, c) \in Files /\ c \in Contents
BY ConstantsAssumption DEF StagingPath, FinalPath, Files

(* What staging.go writes is a manifest. *)
LEMMA ManifestTypes ==
  ASSUME NEW m \in Manifests(Files), NEW made \in SUBSET Files, NEW orphans \in SUBSET Files,
         NEW next \in States
  PROVE  /\ NoManifest \in Manifests(Files)
         /\ Create(made) \in Manifests(Files)
         /\ RecordRecovery(made, orphans) \in Manifests(Files)
         /\ Prepare(m, made) \in Manifests(Files)
         /\ TransitionOrphans(m, next, orphans) \in Manifests(Files)
         /\ [TransitionOrphans(m, next, orphans) EXCEPT !.CreatedFiles = made] \in Manifests(Files)
         /\ Transition(m, next) \in Manifests(Files)
BY DEF Manifests, NoManifest, Create, RecordRecovery, Prepare, TransitionOrphans, Transition, States

(* The jobs a request starts with. *)
LEMMA NewJobTypes ==
  ASSUME NEW op \in Operations, NEW at \in Stages, NEW left \in SUBSET Contents,
         NEW doomed \in SUBSET Files, NEW ok \in BOOLEAN
  PROVE  /\ NoJob \in Jobs
         /\ [NoJob EXCEPT !.op = op, !.at = at] \in Jobs
         /\ [NoJob EXCEPT !.op = op, !.at = at, !.ok = ok] \in Jobs
         /\ [NoJob EXCEPT !.op = op, !.at = at, !.left = left] \in Jobs
         /\ [NoJob EXCEPT !.op = op, !.at = at, !.doomed = doomed] \in Jobs
BY DEF Jobs, NoJob, Operations, Stages

(* A request only starts a job. *)
LEMMA RequestType ==
  ASSUME TypeOK, NEW t \in Txs, Request(t)
  PROVE  TypeOK'
<1>0. job \in [Txs -> Jobs] /\ manifest[t] \in Manifests(Files)
  BY DEF TypeOK
<1>1. ASSUME NEW op \in Operations, Begin(t, op, "write")
      PROVE  job' \in [Txs -> Jobs]
  <2>1. "write" \in Stages BY DEF Stages
  <2> QED BY <1>0, <1>1, <2>1, NewJobTypes DEF Begin
<1>2. ASSUME NEW op \in Operations, NEW ok \in BOOLEAN, Answer(t, op, ok)
      PROVE  job' \in [Txs -> Jobs]
  <2>1. "replied" \in Stages BY DEF Stages
  <2> QED BY <1>0, <1>2, <2>1, NewJobTypes DEF Answer
<1>3. ASSUME NEW op \in Operations, NEW paths \in SUBSET Files, BeginRemoval(t, op, paths)
      PROVE  job' \in [Txs -> Jobs]
  <2>1. "remove" \in Stages BY DEF Stages
  <2> QED BY <1>0, <1>3, <2>1, NewJobTypes DEF BeginRemoval
<1>4. ASSUME NEW op \in Operations,
             job' = [job EXCEPT ![t] =
                       [NoJob EXCEPT !.op = op, !.at = "publish", !.left = Payload[t]]]
      PROVE  job' \in [Txs -> Jobs]
  <2>1. "publish" \in Stages /\ Payload[t] \in SUBSET Contents
    BY ConstantsAssumption DEF Stages
  <2> QED BY <1>0, <1>4, <2>1, NewJobTypes
<1>5. /\ manifest[t].CreatedFiles \in SUBSET Files
      /\ manifest[t].StagingFiles \in SUBSET Files
      /\ manifest[t].Orphans \in SUBSET Files
      /\ manifest[t].CreatedFiles \cup manifest[t].StagingFiles \in SUBSET Files
  BY <1>0 DEF Manifests
<1>6. /\ {"import", "import-owned", "finalize", "document-saved"} \subseteq Operations
      /\ {"commit", "reconcile", "abort"} \subseteq Operations
      /\ \A s : (manifest[t].State = s) \in BOOLEAN
      /\ Verified(t) \in BOOLEAN
  BY DEF Operations, Verified
<1>7. job' \in [Txs -> Jobs]
  <2>1. CASE StartImport(t) BY <2>1, <1>4, <1>6 DEF StartImport
  <2>2. CASE StartImportOwned(t) BY <2>2, <1>4, <1>6 DEF StartImportOwned
  <2>3. CASE StartFinalize(t) BY <2>3, <1>2, <1>4, <1>6 DEF StartFinalize
  <2>4. CASE StartDocumentSaved(t) BY <2>4, <1>1, <1>2, <1>6 DEF StartDocumentSaved
  <2>5. CASE StartCommit(t) BY <2>5, <1>2, <1>3, <1>5, <1>6 DEF StartCommit
  <2>6. CASE StartReconcile(t) BY <2>6, <1>2, <1>3, <1>5, <1>6 DEF StartReconcile
  <2>7. CASE StartAbort(t) BY <2>7, <1>2, <1>3, <1>5, <1>6 DEF StartAbort
  <2> QED BY <2>1, <2>2, <2>3, <2>4, <2>5, <2>6, <2>7 DEF Request
<1>8. UNCHANGED <<manifest, files, mentioned, faults>>
  BY DEF Request, StartImport, StartImportOwned, StartFinalize, StartDocumentSaved,
         StartCommit, StartReconcile, StartAbort
<1> QED BY <1>7, <1>8 DEF TypeOK

(* Updating one field of one job. *)
LEMMA FieldTypes ==
  ASSUME NEW j \in [Txs -> Jobs], NEW t \in Txs
  PROVE  /\ \A at \in Stages : [j EXCEPT ![t].at = at] \in [Txs -> Jobs]
         /\ \A left \in SUBSET Contents : [j EXCEPT ![t].left = left] \in [Txs -> Jobs]
         /\ \A made \in SUBSET Files : [j EXCEPT ![t].made = made] \in [Txs -> Jobs]
         /\ \A doomed \in SUBSET Files : [j EXCEPT ![t].doomed = doomed] \in [Txs -> Jobs]
         /\ \A orphans \in SUBSET Files : [j EXCEPT ![t].orphans = orphans] \in [Txs -> Jobs]
         /\ \A op \in Operations, ok \in BOOLEAN :
              [j EXCEPT ![t] = [NoJob EXCEPT !.op = op, !.at = "replied", !.ok = ok]]
                \in [Txs -> Jobs]
<1>1. \A at \in Stages : [j EXCEPT ![t].at = at] \in [Txs -> Jobs]
  BY DEF Jobs
<1>2. \A left \in SUBSET Contents : [j EXCEPT ![t].left = left] \in [Txs -> Jobs]
  BY DEF Jobs
<1>3. \A made \in SUBSET Files : [j EXCEPT ![t].made = made] \in [Txs -> Jobs]
  BY DEF Jobs
<1>4. \A doomed \in SUBSET Files : [j EXCEPT ![t].doomed = doomed] \in [Txs -> Jobs]
  BY DEF Jobs
<1>5. \A orphans \in SUBSET Files : [j EXCEPT ![t].orphans = orphans] \in [Txs -> Jobs]
  BY DEF Jobs
<1>6. \A op \in Operations, ok \in BOOLEAN :
        [j EXCEPT ![t] = [NoJob EXCEPT !.op = op, !.at = "replied", !.ok = ok]]
          \in [Txs -> Jobs]
  BY NewJobTypes DEF Stages
<1> QED BY <1>1, <1>2, <1>3, <1>4, <1>5, <1>6

(* A step of a helper process keeps the types. *)
LEMMA WorkType ==
  ASSUME TypeOK, NEW t \in Txs, Work(t)
  PROVE  TypeOK'
<1>0. /\ job \in [Txs -> Jobs]
      /\ manifest \in [Txs -> Manifests(Files)]
      /\ files \subseteq Files
      /\ faults \in 0..MaxFaults /\ MaxFaults \in Nat
  BY ConstantsAssumption DEF TypeOK
<1>1. /\ job[t].op \in Operations
      /\ job[t].left \subseteq Contents /\ job[t].made \subseteq Files
      /\ job[t].doomed \subseteq Files /\ job[t].orphans \subseteq Files
      /\ manifest[t] \in Manifests(Files)
  BY <1>0 DEF Jobs
<1>2. \A ok \in BOOLEAN : Reply(t, ok) => job' \in [Txs -> Jobs]
  <2>1. \A ok \in BOOLEAN :
          [job EXCEPT ![t] = [NoJob EXCEPT !.op = job[t].op, !.at = "replied", !.ok = ok]]
            \in [Txs -> Jobs]
    BY <1>0, <1>1, FieldTypes
  <2> QED BY <2>1 DEF Reply, Answer
<1>3. \A at \in Stages : GoTo(t, at) => job' \in [Txs -> Jobs]
  <2>1. \A at \in Stages : [job EXCEPT ![t].at = at] \in [Txs -> Jobs]
    BY <1>0, FieldTypes
  <2> QED BY <2>1 DEF GoTo
<1>4. ASSUME NEW kind, Fault(t, kind) PROVE faults' \in 0..MaxFaults
  BY <1>0, <1>4 DEF Fault
<1>5. CASE PublishOne(t)
  <2>1. PICK c \in job[t].left :
          /\ files' = files \cup {Target(t, c)}
          /\ job' = [job EXCEPT ![t].left = @ \ {c},
                                ![t].made = IF Target(t, c) \in files THEN @
                                            ELSE @ \cup {Target(t, c)}]
    BY <1>5 DEF PublishOne
  <2>2. Target(t, c) \in Files
    BY <1>1, ConstantsAssumption DEF Target, StagingPath, FinalPath, Files
  <2>3. /\ job[t].left \ {c} \in SUBSET Contents
        /\ (IF Target(t, c) \in files THEN job[t].made ELSE job[t].made \cup {Target(t, c)})
             \in SUBSET Files
    BY <1>1, <2>2
  <2>4. job' \in [Txs -> Jobs]
    <3> DEFINE j == [job EXCEPT ![t].left = job[t].left \ {c}]
    <3>1. j \in [Txs -> Jobs] BY <1>0, <2>3, FieldTypes
    <3>2. job' = [j EXCEPT ![t].made = IF Target(t, c) \in files THEN job[t].made
                                       ELSE job[t].made \cup {Target(t, c)}]
      BY <1>0, <2>1 DEF Jobs
    <3> QED BY <2>3, <3>1, <3>2, FieldTypes
  <2>5. files' \subseteq Files BY <1>0, <2>1, <2>2
  <2> QED BY <1>5, <2>4, <2>5 DEF TypeOK, PublishOne
<1>6. CASE PublishFails(t)
  <2>1. job' = [[job EXCEPT ![t].at = "undo"] EXCEPT ![t].doomed = job[t].made]
    BY <1>0, <1>6 DEF PublishFails, Jobs
  <2>2. [job EXCEPT ![t].at = "undo"] \in [Txs -> Jobs]
    BY <1>0, FieldTypes DEF Stages
  <2>3. job' \in [Txs -> Jobs] BY <1>1, <2>1, <2>2, FieldTypes
  <2> QED BY <1>4, <1>6, <2>3 DEF TypeOK, PublishFails
<1>7. CASE PublishDone(t)
  <2>1. job' \in [Txs -> Jobs] BY <1>2, <1>3, <1>7 DEF PublishDone, Stages
  <2> QED BY <1>7, <2>1 DEF TypeOK, PublishDone
<1>8. CASE WriteManifest(t)
  <2>1. Wanted(t) \in Manifests(Files)
    BY <1>1, ManifestTypes DEF Wanted, States
  <2>2. job' \in [Txs -> Jobs] BY <1>2, <1>8 DEF WriteManifest
  <2> QED BY <1>8, <2>1, <2>2 DEF TypeOK, WriteManifest
<1>9. CASE WriteFails(t)
  <2>1. CASE job[t].op = "document-saved"
    <3>1. job' \in [Txs -> Jobs] BY <1>2, <1>9, <2>1 DEF WriteFails
    <3> QED BY <1>4, <1>9, <3>1 DEF TypeOK, WriteFails
  <2>2. CASE job[t].op # "document-saved"
    <3>1. job' = [[job EXCEPT ![t].at = "rollback"] EXCEPT ![t].doomed = job[t].made]
      BY <1>0, <1>9, <2>2 DEF WriteFails, Jobs
    <3>2. [job EXCEPT ![t].at = "rollback"] \in [Txs -> Jobs]
      BY <1>0, FieldTypes DEF Stages
    <3>3. job' \in [Txs -> Jobs] BY <1>1, <3>1, <3>2, FieldTypes
    <3> QED BY <1>4, <1>9, <3>3 DEF TypeOK, WriteFails
  <2> QED BY <2>1, <2>2
<1>10. CASE RemoveOne(t)
  <2>1. PICK f : files' = files \ {f} /\ job' = [job EXCEPT ![t].doomed = @ \ {f}]
    BY <1>10 DEF RemoveOne
  <2>2. job' \in [Txs -> Jobs]
    <3>1. job[t].doomed \ {f} \in SUBSET Files BY <1>1
    <3> QED BY <1>0, <2>1, <3>1, FieldTypes
  <2>3. files' \subseteq Files BY <1>0, <2>1
  <2> QED BY <1>10, <2>2, <2>3 DEF TypeOK, RemoveOne
<1>11. CASE RemoveFails(t)
  <2>1. PICK f \in files :
          job' = [[job EXCEPT ![t].doomed = job[t].doomed \ {f}]
                    EXCEPT ![t].orphans = job[t].orphans \cup {f}]
    BY <1>0, <1>11 DEF RemoveFails, Jobs
  <2>2. job[t].doomed \ {f} \in SUBSET Files /\ job[t].orphans \cup {f} \in SUBSET Files
    BY <1>0, <1>1
  <2>3. [job EXCEPT ![t].doomed = job[t].doomed \ {f}] \in [Txs -> Jobs]
    BY <1>0, <2>2, FieldTypes
  <2>4. job' \in [Txs -> Jobs] BY <2>1, <2>2, <2>3, FieldTypes
  <2> QED BY <1>4, <1>11, <2>4 DEF TypeOK, RemoveFails
<1>12. CASE Compensated(t)
  <2>1. job' \in [Txs -> Jobs] BY <1>2, <1>3, <1>12 DEF Compensated, Stages
  <2> QED BY <1>12, <2>1 DEF TypeOK, Compensated
<1>13. CASE Recover(t)
  <2>1. job' \in [Txs -> Jobs] BY <1>2, <1>13 DEF Recover
  <2>2. faults' \in 0..MaxFaults BY <1>0, <1>4, <1>13 DEF Recover
  <2>3. manifest' \in [Txs -> Manifests(Files)]
    <3>1. RecordRecovery(job[t].made, job[t].orphans) \in Manifests(Files)
      BY <1>1, ManifestTypes DEF States
    <3>2. [TransitionOrphans(manifest[t], "NEEDS_RECONCILIATION", job[t].orphans)
             EXCEPT !.CreatedFiles = job[t].made] \in Manifests(Files)
      BY <1>1, ManifestTypes DEF States
    <3> QED BY <1>0, <1>13, <3>1, <3>2 DEF Recover, Recovery
  <2> QED BY <1>13, <2>1, <2>2, <2>3 DEF TypeOK, Recover
<1>14. CASE Settle(t)
  <2>1. job' \in [Txs -> Jobs] BY <1>2, <1>14 DEF Settle
  <2>2. faults' \in 0..MaxFaults BY <1>0, <1>4, <1>14 DEF Settle
  <2>3. Settled(t) \in Manifests(Files)
    BY <1>1, ManifestTypes DEF Settled, States
  <2>4. manifest' \in [Txs -> Manifests(Files)]
    BY <1>0, <1>14, <2>3 DEF Settle
  <2> QED BY <1>14, <2>1, <2>2, <2>4 DEF TypeOK, Settle
<1> QED BY <1>5, <1>6, <1>7, <1>8, <1>9, <1>10, <1>11, <1>12, <1>13, <1>14 DEF Work

(* No step of the helper or its client breaks the types. *)
LEMMA TypeInductive == TypeOK /\ [Next]_vars => TypeOK'
<1> SUFFICES ASSUME TypeOK, [Next]_vars PROVE TypeOK'
  OBVIOUS
<1>1. CASE \E t \in Txs : Request(t) BY <1>1, RequestType
<1>2. CASE \E t \in Txs : Work(t) BY <1>2, WorkType
<1>3. ASSUME NEW t \in Txs, Die(t) PROVE TypeOK'
  <2>1. job[t].op \in Operations BY DEF TypeOK, Jobs
  <2>2. job' \in [Txs -> Jobs] BY <1>3, <2>1, FieldTypes DEF Die, Reply, Answer, TypeOK
  <2>3. faults' \in 0..MaxFaults
    BY <1>3, ConstantsAssumption DEF Die, Fault, TypeOK
  <2> QED BY <1>3, <2>2, <2>3 DEF Die, TypeOK
<1>4. ASSUME NEW t \in Txs, Dismiss(t) PROVE TypeOK'
  <2>1. NoJob \in Jobs BY DEF NoJob, Jobs, Operations, Stages
  <2> QED BY <1>4, <2>1 DEF Dismiss, TypeOK
<1>5. CASE WriteDocuments BY <1>5 DEF WriteDocuments, TypeOK
<1>6. CASE UNCHANGED vars BY <1>6 DEF vars, TypeOK
<1> QED BY <1>1, <1>2, <1>3, <1>4, <1>5, <1>6 DEF Next

LEMMA TypeInitial == Init => TypeOK
<1>1. PreExisting \subseteq Files /\ 0 \in 0..MaxFaults
  BY ConstantsAssumption DEF Files
<1>2. NoManifest \in Manifests(Files) /\ NoJob \in Jobs
  BY DEF NoManifest, Manifests, States, NoJob, Jobs, Operations, Stages
<1> QED BY <1>1, <1>2 DEF Init, TypeOK

(* In every reachable state of the helper with any client, the variables have
   their types: no manifest and no helper ever names a path outside the staging
   directories and the asset directories. *)
THEOREM TypeCorrect == Spec => []TypeOK
BY TypeInitial, TypeInductive, PTL DEF Spec

-----------------------------------------------------------------------------
(* The files of the user.  UserFilesKept alone is not inductive: a step may
   remove whatever a helper lists as doomed, which it takes from the manifest or
   from the files it made.  UserFilesDisowned says that no such list ever holds a
   file of the user; publishOne keeps it because it lists a file as made only
   when the directory did not have it - and the directory has the user's files. *)

UserFilesInv == UserFilesKept /\ UserFilesDisowned

(* What Removable is, list by list. *)
LEMMA DisownedParts ==
  ASSUME NEW t \in Txs
  PROVE  Removable(t) \cap PreExisting = {} <=>
           /\ manifest[t].CreatedFiles \cap PreExisting = {}
           /\ manifest[t].StagingFiles \cap PreExisting = {}
           /\ manifest[t].Orphans \cap PreExisting = {}
           /\ job[t].made \cap PreExisting = {}
           /\ job[t].doomed \cap PreExisting = {}
           /\ job[t].orphans \cap PreExisting = {}
BY DEF Removable

(* A request removes from nothing but the lists of its manifest. *)
LEMMA RequestDisowned ==
  ASSUME TypeOK, UserFilesInv, NEW t \in Txs, Request(t)
  PROVE  UserFilesInv'
<1>1. UNCHANGED <<manifest, files, mentioned, faults>>
  BY DEF Request, StartImport, StartImportOwned, StartFinalize, StartDocumentSaved,
         StartCommit, StartReconcile, StartAbort
<1>2. /\ manifest[t].CreatedFiles \cap PreExisting = {}
      /\ manifest[t].StagingFiles \cap PreExisting = {}
      /\ manifest[t].Orphans \cap PreExisting = {}
  BY DisownedParts DEF UserFilesInv, UserFilesDisowned
<1>3. job \in [Txs -> Jobs] BY DEF TypeOK
<1>4. /\ \A u \in Txs \ {t} : job'[u] = job[u]
      /\ job'[t].made = {} /\ job'[t].orphans = {}
      /\ job'[t].doomed \cap PreExisting = {}
  <2> DEFINE Keeps == /\ \A u \in Txs \ {t} : job'[u] = job[u]
                      /\ job'[t].made = {} /\ job'[t].orphans = {}
                      /\ job'[t].doomed \cap PreExisting = {}
  <2>1. ASSUME NEW op, NEW at, Begin(t, op, at) PROVE Keeps
    BY <1>3, <2>1 DEF Begin, NoJob
  <2>2. ASSUME NEW op, NEW ok, Answer(t, op, ok) PROVE Keeps
    BY <1>3, <2>2 DEF Answer, NoJob
  <2>3. ASSUME NEW op, NEW paths, paths \cap PreExisting = {}, BeginRemoval(t, op, paths)
        PROVE Keeps
    BY <1>3, <2>3 DEF BeginRemoval, NoJob
  <2>4. ASSUME NEW op, job' = [job EXCEPT ![t] =
                 [NoJob EXCEPT !.op = op, !.at = "publish", !.left = Payload[t]]]
        PROVE Keeps
    BY <1>3, <2>4 DEF NoJob
  <2>5. (manifest[t].CreatedFiles \cup manifest[t].StagingFiles) \cap PreExisting = {}
    BY <1>2
  <2> HIDE DEF Keeps
  <2>6. ASSUME StartImport(t) PROVE Keeps BY <2>4, <2>6 DEF StartImport
  <2>7. ASSUME StartImportOwned(t) PROVE Keeps BY <2>4, <2>7 DEF StartImportOwned
  <2>8. ASSUME StartFinalize(t) PROVE Keeps BY <2>2, <2>4, <2>8 DEF StartFinalize
  <2>9. ASSUME StartDocumentSaved(t) PROVE Keeps BY <2>1, <2>2, <2>9 DEF StartDocumentSaved
  <2>10. ASSUME StartCommit(t) PROVE Keeps BY <1>2, <2>2, <2>3, <2>10 DEF StartCommit
  <2>11. ASSUME StartReconcile(t) PROVE Keeps BY <1>2, <2>2, <2>3, <2>11 DEF StartReconcile
  <2>12. ASSUME StartAbort(t) PROVE Keeps BY <2>2, <2>3, <2>5, <2>12 DEF StartAbort
  <2>13. Keeps BY <2>6, <2>7, <2>8, <2>9, <2>10, <2>11, <2>12 DEF Request
  <2> QED BY <2>13 DEF Keeps
<1>5. ASSUME NEW u \in Txs PROVE (Removable(u) \cap PreExisting = {})'
  <2>1. CASE u = t BY <1>1, <1>2, <1>4, <2>1 DEF Removable
  <2>2. CASE u # t
    <3>1. Removable(u)' = Removable(u) BY <1>1, <1>4, <2>2 DEF Removable
    <3> QED BY <3>1 DEF UserFilesInv, UserFilesDisowned
  <2> QED BY <2>1, <2>2
<1> QED BY <1>1, <1>5 DEF UserFilesInv, UserFilesKept, UserFilesDisowned
(* A step of a helper takes nothing of the user's: it removes a doomed file, and
   it lists as made only a file that was not there. *)
LEMMA WorkDisowned ==
  ASSUME TypeOK, UserFilesInv, NEW t \in Txs, Work(t)
  PROVE  UserFilesInv'
<1>0. /\ job \in [Txs -> Jobs] /\ job[t] \in Jobs
      /\ manifest \in [Txs -> Manifests(Files)] /\ manifest[t] \in Manifests(Files)
  BY DEF TypeOK
<1>1. /\ manifest[t].CreatedFiles \cap PreExisting = {}
      /\ manifest[t].StagingFiles \cap PreExisting = {}
      /\ manifest[t].Orphans \cap PreExisting = {}
      /\ job[t].made \cap PreExisting = {}
      /\ job[t].doomed \cap PreExisting = {}
      /\ job[t].orphans \cap PreExisting = {}
      /\ PreExisting \subseteq files
  BY DisownedParts DEF UserFilesInv, UserFilesDisowned, UserFilesKept
<1> DEFINE Lists(m, j) == /\ m.CreatedFiles \cap PreExisting = {}
                          /\ m.StagingFiles \cap PreExisting = {}
                          /\ m.Orphans \cap PreExisting = {}
                          /\ j.made \cap PreExisting = {}
                          /\ j.doomed \cap PreExisting = {}
                          /\ j.orphans \cap PreExisting = {}
(* It suffices to look at the lists of t. *)
<1>2. ASSUME Lists(manifest'[t], job'[t]), PreExisting \subseteq files',
             \A u \in Txs \ {t} : job'[u] = job[u] /\ manifest'[u] = manifest[u]
      PROVE  UserFilesInv'
  <2>1. ASSUME NEW u \in Txs PROVE (Removable(u) \cap PreExisting = {})'
    <3>1. CASE u = t BY <1>2, <3>1 DEF Removable
    <3>2. CASE u # t
      <4>1. Removable(u)' = Removable(u) BY <1>2, <3>2 DEF Removable
      <4> QED BY <4>1 DEF UserFilesInv, UserFilesDisowned
    <3> QED BY <3>1, <3>2
  <2> QED BY <1>2, <2>1 DEF UserFilesInv, UserFilesKept, UserFilesDisowned
<1>3. ASSUME NEW ok, Reply(t, ok)
      PROVE  /\ \A u \in Txs \ {t} : job'[u] = job[u]
             /\ job'[t].made = {} /\ job'[t].doomed = {} /\ job'[t].orphans = {}
  BY <1>0, <1>3 DEF Reply, Answer, NoJob
<1>4. ASSUME NEW at, GoTo(t, at)
      PROVE  /\ \A u \in Txs \ {t} : job'[u] = job[u]
             /\ job'[t].made = job[t].made /\ job'[t].doomed = job[t].doomed
             /\ job'[t].orphans = job[t].orphans
  BY <1>0, <1>4 DEF GoTo, Jobs
<1>5. CASE PublishOne(t)
  <2>1. PICK c \in job[t].left :
          /\ files' = files \cup {Target(t, c)}
          /\ job' = [job EXCEPT ![t].left = @ \ {c},
                                ![t].made = IF Target(t, c) \in files THEN @
                                            ELSE @ \cup {Target(t, c)}]
    BY <1>5 DEF PublishOne
  <2>2. /\ job'[t].made = IF Target(t, c) \in files THEN job[t].made
                          ELSE job[t].made \cup {Target(t, c)}
        /\ job'[t].doomed = job[t].doomed /\ job'[t].orphans = job[t].orphans
        /\ \A u \in Txs \ {t} : job'[u] = job[u]
    BY <1>0, <2>1 DEF Jobs
  <2>3. job'[t].made \cap PreExisting = {} BY <1>1, <2>2
  <2> QED BY <1>1, <1>2, <1>5, <2>1, <2>2, <2>3 DEF PublishOne
<1>6. CASE PublishFails(t)
  <2>1. /\ job'[t].made = job[t].made /\ job'[t].doomed = job[t].made
        /\ job'[t].orphans = job[t].orphans
        /\ \A u \in Txs \ {t} : job'[u] = job[u]
    BY <1>0, <1>6 DEF PublishFails, Jobs
  <2> QED BY <1>1, <1>2, <1>6, <2>1 DEF PublishFails
<1>7. CASE PublishDone(t)
  BY <1>1, <1>2, <1>3, <1>4, <1>7 DEF PublishDone
<1>8. CASE WriteManifest(t)
  <2>1. /\ Wanted(t).CreatedFiles \cap PreExisting = {}
        /\ Wanted(t).StagingFiles \cap PreExisting = {}
        /\ Wanted(t).Orphans \cap PreExisting = {}
    <3>1. CASE job[t].op = "import" BY <1>1, <3>1 DEF Wanted, Create
    <3>2. CASE job[t].op = "finalize" BY <1>0, <1>1, <3>2 DEF Wanted, Prepare, Manifests
    <3>3. CASE job[t].op \notin {"import", "finalize"}
      BY <1>0, <1>1, <3>3 DEF Wanted, Transition, Manifests
    <3> QED BY <3>1, <3>2, <3>3
  <2>2. /\ manifest'[t] = Wanted(t) /\ \A u \in Txs \ {t} : manifest'[u] = manifest[u]
        /\ files' = files /\ Reply(t, TRUE)
    BY <1>0, <1>8 DEF WriteManifest
  <2> QED BY <1>1, <1>2, <1>3, <2>1, <2>2
<1>9. CASE WriteFails(t)
  <2>1. CASE job[t].op = "document-saved"
    BY <1>1, <1>2, <1>3, <1>9, <2>1 DEF WriteFails
  <2>2. CASE job[t].op # "document-saved"
    <3>1. /\ job'[t].made = job[t].made /\ job'[t].doomed = job[t].made
          /\ job'[t].orphans = job[t].orphans
          /\ \A u \in Txs \ {t} : job'[u] = job[u]
      BY <1>0, <1>9, <2>2 DEF WriteFails, Jobs
    <3> QED BY <1>1, <1>2, <1>9, <3>1 DEF WriteFails
  <2> QED BY <2>1, <2>2
<1>10. CASE RemoveOne(t)
  <2>1. PICK f \in NextDoomed(t) :
          files' = files \ {f} /\ job' = [job EXCEPT ![t].doomed = @ \ {f}]
    BY <1>10 DEF RemoveOne
  <2>2. f \notin PreExisting BY <1>1, <2>1 DEF NextDoomed
  <2>3. /\ job'[t].made = job[t].made /\ job'[t].doomed = job[t].doomed \ {f}
        /\ job'[t].orphans = job[t].orphans
        /\ \A u \in Txs \ {t} : job'[u] = job[u]
    BY <1>0, <2>1 DEF Jobs
  <2>4. PreExisting \subseteq files' BY <1>1, <2>1, <2>2
  <2> QED BY <1>1, <1>2, <1>10, <2>3, <2>4 DEF RemoveOne
<1>11. CASE RemoveFails(t)
  <2>1. PICK f \in NextDoomed(t) :
          job' = [job EXCEPT ![t].doomed = @ \ {f}, ![t].orphans = @ \cup {f}]
    BY <1>11 DEF RemoveFails
  <2>2. f \notin PreExisting BY <1>1, <2>1 DEF NextDoomed
  <2>3. /\ job'[t].made = job[t].made /\ job'[t].doomed = job[t].doomed \ {f}
        /\ job'[t].orphans = job[t].orphans \cup {f}
        /\ \A u \in Txs \ {t} : job'[u] = job[u]
    BY <1>0, <2>1 DEF Jobs
  <2>4. job'[t].orphans \cap PreExisting = {} BY <1>1, <2>2, <2>3
  <2> QED BY <1>1, <1>2, <1>11, <2>3, <2>4 DEF RemoveFails
<1>12. CASE Compensated(t)
  BY <1>1, <1>2, <1>3, <1>4, <1>12 DEF Compensated
<1>13. CASE Recover(t)
  <2>1. /\ manifest'[t].CreatedFiles \cap PreExisting = {}
        /\ manifest'[t].StagingFiles \cap PreExisting = {}
        /\ manifest'[t].Orphans \cap PreExisting = {}
        /\ \A u \in Txs \ {t} : manifest'[u] = manifest[u]
    <3> DEFINE R == RecordRecovery(job[t].made, job[t].orphans)
               P == [TransitionOrphans(manifest[t], "NEEDS_RECONCILIATION", job[t].orphans)
                       EXCEPT !.CreatedFiles = job[t].made]
    <3>1. /\ R.CreatedFiles = job[t].made /\ R.StagingFiles = job[t].made
          /\ R.Orphans = job[t].orphans
      BY DEF RecordRecovery, Create
    <3>2. /\ P.CreatedFiles = job[t].made /\ P.StagingFiles = manifest[t].StagingFiles
          /\ P.Orphans = job[t].orphans
      BY <1>0 DEF TransitionOrphans, Manifests
    <3>3. \/ manifest' = manifest
          \/ manifest' = [manifest EXCEPT ![t] = R]
          \/ manifest' = [manifest EXCEPT ![t] = P]
      BY <1>13 DEF Recover, Recovery
    <3> HIDE DEF R, P
    <3> QED BY <1>0, <1>1, <3>1, <3>2, <3>3
  <2>2. files' = files /\ Reply(t, FALSE) BY <1>13 DEF Recover
  <2> QED BY <1>1, <1>2, <1>3, <2>1, <2>2
<1>14. CASE Settle(t)
  <2>1. /\ Settled(t).CreatedFiles = manifest[t].CreatedFiles
        /\ Settled(t).StagingFiles = manifest[t].StagingFiles
        /\ Settled(t).Orphans \in {manifest[t].Orphans, job[t].orphans, {}}
    BY <1>0 DEF Settled, TransitionOrphans, Transition, Manifests
  <2>2. manifest' = manifest \/ manifest' = [manifest EXCEPT ![t] = Settled(t)]
    BY <1>14 DEF Settle
  <2>3. /\ manifest'[t].CreatedFiles \cap PreExisting = {}
        /\ manifest'[t].StagingFiles \cap PreExisting = {}
        /\ manifest'[t].Orphans \cap PreExisting = {}
        /\ \A u \in Txs \ {t} : manifest'[u] = manifest[u]
    BY <1>0, <1>1, <2>1, <2>2
  <2>4. files' = files /\ \E ok : Reply(t, ok) BY <1>14 DEF Settle
  <2> QED BY <1>1, <1>2, <1>3, <2>3, <2>4
<1> QED BY <1>5, <1>6, <1>7, <1>8, <1>9, <1>10, <1>11, <1>12, <1>13, <1>14 DEF Work

(* UserFilesInv is inductive relative to TypeOK. *)
LEMMA UserFilesInvariant == Spec => []UserFilesInv
<1>1. Init => UserFilesInv
  BY DEF Init, UserFilesInv, UserFilesKept, UserFilesDisowned, Removable, NoManifest, NoJob
<1>2. TypeOK /\ UserFilesInv /\ [Next]_vars => UserFilesInv'
  <2> SUFFICES ASSUME TypeOK, UserFilesInv, [Next]_vars PROVE UserFilesInv'
    OBVIOUS
  <2>1. CASE \E t \in Txs : Request(t) BY <2>1, RequestDisowned
  <2>2. CASE \E t \in Txs : Work(t) BY <2>2, WorkDisowned
  <2>3. ASSUME NEW t \in Txs, NEW j, j.made = {}, j.doomed = {}, j.orphans = {},
               job' = [job EXCEPT ![t] = j], UNCHANGED <<manifest, files>>
        PROVE  UserFilesInv'
    <3>1. ASSUME NEW u \in Txs PROVE Removable(u)' \subseteq Removable(u)
      <4>1. job'[u] = IF u = t THEN j ELSE job[u] BY <2>3 DEF TypeOK
      <4> QED BY <2>3, <4>1 DEF Removable
    <3> QED BY <2>3, <3>1 DEF UserFilesInv, UserFilesKept, UserFilesDisowned
  <2>4. ASSUME NEW t \in Txs, Die(t) PROVE UserFilesInv'
    <3> DEFINE j == [NoJob EXCEPT !.op = job[t].op, !.at = "replied", !.ok = FALSE]
    <3>1. j.made = {} /\ j.doomed = {} /\ j.orphans = {} BY DEF NoJob
    <3>2. job' = [job EXCEPT ![t] = j] /\ UNCHANGED <<manifest, files>>
      BY <2>4 DEF Die, Reply, Answer
    <3> HIDE DEF j
    <3> QED BY <2>3, <3>1, <3>2
  <2>5. ASSUME NEW t \in Txs, Dismiss(t) PROVE UserFilesInv'
    <3>1. NoJob.made = {} /\ NoJob.doomed = {} /\ NoJob.orphans = {} BY DEF NoJob
    <3> QED BY <2>3, <2>5, <3>1 DEF Dismiss
  <2>6. CASE WriteDocuments
    BY <2>6 DEF WriteDocuments, UserFilesInv, UserFilesKept, UserFilesDisowned, Removable
  <2>7. CASE UNCHANGED vars
    BY <2>7 DEF vars, UserFilesInv, UserFilesKept, UserFilesDisowned, Removable
  <2> QED BY <2>1, <2>2, <2>4, <2>5, <2>6, <2>7 DEF Next
<1> QED BY <1>1, <1>2, TypeCorrect, PTL DEF Spec

(* No commit, abort, reconciliation or compensation of any transaction, whatever
   the client asks for and whichever steps fail, ever removes a file that was in
   an asset directory before. *)
THEOREM UserFilesSafe == Spec => []UserFilesKept
BY UserFilesInvariant, PTL DEF UserFilesInv

(* No manifest and no helper ever lists such a file among the files to remove. *)
THEOREM UserFilesNeverOwned == Spec => []UserFilesDisowned
BY UserFilesInvariant, PTL DEF UserFilesInv

(***************************************************************************)
(* ClipHelper implements TxLifecycle: the manifests of all transactions,   *)
(* seen through their states, live the life TxLifecycle promises.          *)
(***************************************************************************)

-----------------------------------------------------------------------------
(* An import creates a manifest and does not ask allowedTransition.  That this
   is a legal step rests on an invariant: as long as the helper of an import
   works, nobody else has written its transaction's manifest. *)

FreshImports ==
  \A t \in Txs : job[t].op = "import" /\ Working(t) => manifest[t].State = "NONE"

(* A helper writes no manifest but its own, and once it has written it has answered. *)
LEMMA WorkOwnManifest ==
  ASSUME TypeOK, NEW t \in Txs, Work(t)
  PROVE  /\ \A u \in Txs \ {t} : job'[u] = job[u] /\ manifest'[u] = manifest[u]
         /\ job'[t].op = job[t].op
         /\ manifest' = manifest \/ job'[t].at = "replied"
         /\ Working(t)
<1>0. /\ job \in [Txs -> Jobs] /\ manifest \in [Txs -> Manifests(Files)]
  BY DEF TypeOK
<1>1. ASSUME NEW ok, Reply(t, ok)
      PROVE  /\ \A u \in Txs \ {t} : job'[u] = job[u]
             /\ job'[t].op = job[t].op /\ job'[t].at = "replied"
  BY <1>0, <1>1 DEF Reply, Answer, NoJob
<1>2. ASSUME NEW at, GoTo(t, at)
      PROVE  (\A u \in Txs \ {t} : job'[u] = job[u]) /\ job'[t].op = job[t].op
  BY <1>0, <1>2 DEF GoTo, Jobs
<1>3. CASE PublishOne(t) BY <1>0, <1>3 DEF PublishOne, Jobs, Working
<1>4. CASE PublishFails(t) BY <1>0, <1>4 DEF PublishFails, Jobs, Working
<1>5. CASE PublishDone(t) BY <1>1, <1>2, <1>5 DEF PublishDone, Working
<1>6. CASE WriteManifest(t) BY <1>0, <1>1, <1>6 DEF WriteManifest, Working
<1>7. CASE WriteFails(t)
  <2>1. CASE job[t].op = "document-saved" BY <1>1, <1>7, <2>1 DEF WriteFails, Working
  <2>2. CASE job[t].op # "document-saved"
    BY <1>0, <1>7, <2>2 DEF WriteFails, Jobs, Working
  <2> QED BY <2>1, <2>2
<1>8. CASE RemoveOne(t) BY <1>0, <1>8 DEF RemoveOne, Jobs, Working, Removing
<1>9. CASE RemoveFails(t) BY <1>0, <1>9 DEF RemoveFails, Jobs, Working, Removing
<1>10. CASE Compensated(t) BY <1>1, <1>2, <1>10 DEF Compensated, Working
<1>11. CASE Recover(t)
  <2>1. Reply(t, FALSE) /\ Working(t) BY <1>11 DEF Recover, Working
  <2>2. \A u \in Txs \ {t} : manifest'[u] = manifest[u]
    <3>1. manifest' = manifest \/ \E m : manifest' = [manifest EXCEPT ![t] = m]
      BY <1>11 DEF Recover
    <3> QED BY <1>0, <3>1
  <2> QED BY <1>1, <2>1, <2>2
<1>12. CASE Settle(t)
  <2>1. (\E ok : Reply(t, ok)) /\ Working(t) BY <1>12 DEF Settle, Working
  <2>2. \A u \in Txs \ {t} : manifest'[u] = manifest[u]
    BY <1>0, <1>12 DEF Settle
  <2> QED BY <1>1, <2>1, <2>2
<1> QED BY <1>3, <1>4, <1>5, <1>6, <1>7, <1>8, <1>9, <1>10, <1>11, <1>12 DEF Work

(* A request starts an import only for a transaction without a manifest. *)
LEMMA RequestFresh ==
  ASSUME TypeOK, NEW t \in Txs, Request(t)
  PROVE  /\ \A u \in Txs \ {t} : job'[u] = job[u]
         /\ job'[t].op = "import" => manifest[t].State = "NONE"
         /\ manifest' = manifest
<1>0. job \in [Txs -> Jobs] BY DEF TypeOK
<1> DEFINE Starts(op) == (\A u \in Txs \ {t} : job'[u] = job[u]) /\ job'[t].op = op
<1>1. ASSUME NEW op, NEW at, Begin(t, op, at) PROVE Starts(op)
  BY <1>0, <1>1 DEF Begin, NoJob
<1>2. ASSUME NEW op, NEW ok, Answer(t, op, ok) PROVE Starts(op)
  BY <1>0, <1>2 DEF Answer, NoJob
<1>3. ASSUME NEW op, NEW paths, BeginRemoval(t, op, paths) PROVE Starts(op)
  BY <1>0, <1>3 DEF BeginRemoval, NoJob
<1>4. ASSUME NEW op, job' = [job EXCEPT ![t] =
               [NoJob EXCEPT !.op = op, !.at = "publish", !.left = Payload[t]]]
      PROVE  Starts(op)
  BY <1>0, <1>4 DEF NoJob
<1> HIDE DEF Starts
<1>5. \/ Starts("import") /\ manifest[t].State = "NONE"
      \/ \E op \in {"import-owned", "finalize", "document-saved",
                    "commit", "reconcile", "abort"} : Starts(op)
  <2>1. CASE StartImport(t) BY <1>4, <2>1 DEF StartImport
  <2>2. CASE StartImportOwned(t) BY <1>4, <2>2 DEF StartImportOwned
  <2>3. CASE StartFinalize(t) BY <1>2, <1>4, <2>3 DEF StartFinalize
  <2>4. CASE StartDocumentSaved(t) BY <1>1, <1>2, <2>4 DEF StartDocumentSaved
  <2>5. CASE StartCommit(t) BY <1>2, <1>3, <2>5 DEF StartCommit
  <2>6. CASE StartReconcile(t) BY <1>2, <1>3, <2>6 DEF StartReconcile
  <2>7. CASE StartAbort(t) BY <1>2, <1>3, <2>7 DEF StartAbort
  <2> QED BY <2>1, <2>2, <2>3, <2>4, <2>5, <2>6, <2>7 DEF Request
<1>6. manifest' = manifest
  BY DEF Request, StartImport, StartImportOwned, StartFinalize, StartDocumentSaved,
         StartCommit, StartReconcile, StartAbort
<1> QED BY <1>5, <1>6 DEF Starts

(* FreshImports is inductive relative to TypeOK. *)
LEMMA FreshImportsInvariant == Spec => []FreshImports
<1>1. Init => FreshImports
  BY DEF Init, FreshImports, NoJob, NoManifest
<1>2. TypeOK /\ FreshImports /\ [Next]_vars => FreshImports'
  <2> SUFFICES ASSUME TypeOK, FreshImports, [Next]_vars PROVE FreshImports'
    OBVIOUS
  <2>1. ASSUME NEW t \in Txs, Request(t) PROVE FreshImports'
    BY <2>1, RequestFresh DEF FreshImports, Working
  <2>2. ASSUME NEW t \in Txs, Work(t) PROVE FreshImports'
    BY <2>2, WorkOwnManifest DEF FreshImports, Working
  <2>3. ASSUME NEW t \in Txs, Die(t) PROVE FreshImports'
    BY <2>3 DEF Die, Reply, Answer, NoJob, FreshImports, Working, TypeOK
  <2>4. ASSUME NEW t \in Txs, Dismiss(t) PROVE FreshImports'
    BY <2>4 DEF Dismiss, NoJob, FreshImports, Working, TypeOK
  <2>5. CASE WriteDocuments BY <2>5 DEF WriteDocuments, FreshImports, Working
  <2>6. CASE UNCHANGED vars BY <2>6 DEF vars, FreshImports, Working
  <2> QED BY <2>1, <2>2, <2>3, <2>4, <2>5, <2>6 DEF Next
<1> QED BY <1>1, <1>2, TypeCorrect, PTL DEF Spec

-----------------------------------------------------------------------------
(* Refinement *)

(* allowedTransition, and an import's first manifest, are moves of TxLifecycle. *)
LEMMA TransitionMoves ==
  ASSUME TypeOK, NEW t \in Txs, NEW m \in Manifests(Files),
         manifest' = [manifest EXCEPT ![t] = m],
         \/ AllowedTransition(manifest[t].State, m.State)
         \/ manifest[t].State = "NONE" /\ m.State \in {"STAGED", "NEEDS_RECONCILIATION"}
  PROVE  TL!Next \/ UNCHANGED lifecycle
<1>1. manifest \in [Txs -> Manifests(Files)] BY DEF TypeOK
<1>2. lifecycle' = [lifecycle EXCEPT ![t] = m.State] /\ lifecycle[t] = manifest[t].State
  BY <1>1 DEF lifecycle
<1>3. CASE manifest[t].State = m.State
  <2>1. lifecycle' = lifecycle BY <1>1, <1>2, <1>3 DEF lifecycle
  <2> QED BY <2>1
<1>4. CASE manifest[t].State # m.State
  <2>1. \/ TL!Stage(t) \/ TL!PrepareFor(t) \/ TL!ConfirmSaved(t)
        \/ TL!Commit(t) \/ TL!Abort(t) \/ TL!Park(t)
    BY <1>2, <1>4 DEF AllowedTransition, Terminal, TL!Stage, TL!PrepareFor,
       TL!ConfirmSaved, TL!Commit, TL!Abort, TL!Park, TL!Move
  <2> QED BY <2>1 DEF TL!Next
<1> QED BY <1>3, <1>4

(* A step that writes no manifest is a stutter. *)
LEMMA SameManifests ==
  ASSUME manifest' = manifest
  PROVE  UNCHANGED lifecycle
BY DEF lifecycle

(* Every step of a helper is a move or a stutter. *)
LEMMA WorkMoves ==
  ASSUME TypeOK, FreshImports, NEW t \in Txs, Work(t)
  PROVE  TL!Next \/ UNCHANGED lifecycle
<1>0. /\ job[t] \in Jobs /\ manifest[t] \in Manifests(Files)
      /\ job[t].made \in SUBSET Files /\ job[t].orphans \in SUBSET Files
  BY DEF TypeOK, Jobs
<1>1. job[t].op = "import" => manifest[t].State = "NONE"
  BY WorkOwnManifest DEF FreshImports
<1>2. CASE manifest' = manifest BY <1>2, SameManifests
<1>3. CASE WriteManifest(t)
  <2>1. Wanted(t) \in Manifests(Files)
    BY <1>0, ManifestTypes DEF Wanted, States
  <2>2. \/ AllowedTransition(manifest[t].State, Wanted(t).State)
        \/ manifest[t].State = "NONE" /\ Wanted(t).State = "STAGED"
    BY <1>1, <1>3 DEF WriteManifest, Accepted, Wanted, Create
  <2> QED BY <1>3, <2>1, <2>2, TransitionMoves DEF WriteManifest
<1>4. CASE Recover(t)
  <2> DEFINE R == RecordRecovery(job[t].made, job[t].orphans)
             P == [TransitionOrphans(manifest[t], "NEEDS_RECONCILIATION", job[t].orphans)
                     EXCEPT !.CreatedFiles = job[t].made]
  <2>1. R \in Manifests(Files) /\ P \in Manifests(Files)
    BY <1>0, ManifestTypes DEF States
  <2>2. R.State = "NEEDS_RECONCILIATION" /\ P.State = "NEEDS_RECONCILIATION"
    BY <1>0 DEF RecordRecovery, Create, TransitionOrphans, Manifests
  <2>3. \/ manifest' = manifest
        \/ job[t].op = "import" /\ manifest' = [manifest EXCEPT ![t] = R]
        \/ /\ AllowedTransition(manifest[t].State, "NEEDS_RECONCILIATION")
           /\ manifest' = [manifest EXCEPT ![t] = P]
    BY <1>4 DEF Recover, Recovery, RecoveryAccepted
  <2>4. CASE manifest' = manifest BY <2>4, SameManifests
  <2>5. CASE job[t].op = "import" /\ manifest' = [manifest EXCEPT ![t] = R]
    <3> HIDE DEF R
    <3> QED BY <1>1, <2>1, <2>2, <2>5, TransitionMoves
  <2>6. CASE /\ AllowedTransition(manifest[t].State, "NEEDS_RECONCILIATION")
             /\ manifest' = [manifest EXCEPT ![t] = P]
    <3> HIDE DEF P
    <3> QED BY <2>1, <2>2, <2>6, TransitionMoves
  <2> QED BY <2>3, <2>4, <2>5, <2>6
<1>5. CASE Settle(t)
  <2>1. Settled(t) \in Manifests(Files)
    BY <1>0, ManifestTypes DEF Settled, States
  <2>2. \/ manifest' = manifest
        \/ /\ manifest' = [manifest EXCEPT ![t] = Settled(t)]
           /\ AllowedTransition(manifest[t].State, Settled(t).State)
    BY <1>5 DEF Settle
  <2> QED BY <2>1, <2>2, SameManifests, TransitionMoves
<1> QED
  BY <1>2, <1>3, <1>4, <1>5
  DEF Work, PublishOne, PublishFails, PublishDone, WriteFails, RemoveOne, RemoveFails, Compensated

(* Whatever the client asks for and whichever helper dies, every transaction
   lives the life of TxLifecycle: it is never aborted once its document was
   confirmed, and never leaves COMMITTED or ABORTED. *)
THEOREM LifecycleImplemented == Spec => Lifecycle
<1>1. Init => TL!Init
  BY DEF Init, NoManifest, TL!Init, lifecycle
<1>2. TypeOK /\ FreshImports /\ [Next]_vars
        => [TL!Next]_lifecycle
  <2> SUFFICES ASSUME TypeOK, FreshImports, [Next]_vars
               PROVE  TL!Next \/ UNCHANGED lifecycle
    OBVIOUS
  <2>1. ASSUME NEW t \in Txs, Request(t) PROVE manifest' = manifest
    BY <2>1, RequestFresh
  <2>2. ASSUME NEW t \in Txs, Work(t)
        PROVE  TL!Next \/ UNCHANGED lifecycle
    BY <2>2, WorkMoves
  <2>3. ASSUME NEW t \in Txs, Die(t) \/ Dismiss(t) PROVE manifest' = manifest
    BY <2>3 DEF Die, Dismiss
  <2>4. CASE WriteDocuments \/ UNCHANGED vars BY <2>4, SameManifests DEF WriteDocuments, vars
  <2> QED BY <2>1, <2>2, <2>3, <2>4, SameManifests DEF Next
<1> QED BY <1>1, <1>2, TypeCorrect, FreshImportsInvariant, PTL DEF Spec, Lifecycle, TL!Spec
=============================================================================
