--------------------------- MODULE ClipEmacsProofs ---------------------------
(***************************************************************************)
(* Emacs is a client of the helper: every step of ClipEmacs is a step of   *)
(* ClipHelper or changes nothing of the helper.  So whatever is proved of  *)
(* the helper with any client holds of the helper as Emacs uses it, for    *)
(* any number of buffers and transactions.                                 *)
(***************************************************************************)
EXTENDS ClipEmacs, ClipHelperProofs

-----------------------------------------------------------------------------
(* The invariant of the simulation.  A quit deletes the helper of the call under
   way (doing.call), which has to be a transaction; its value comes from the
   loops of saving and killing, and these from the buffer's list. *)

ClientInv ==
  /\ TypeOK
  /\ listed \in [Buffers -> SUBSET Txs]
  /\ doing \in [Buffers -> Doings]

(* Updating the progress of one buffer. *)
LEMMA DoingTypes ==
  ASSUME NEW d \in [Buffers -> Doings], NEW b \in Buffers
  PROVE  /\ [d EXCEPT ![b] = Rest] \in [Buffers -> Doings]
         /\ \A at \in Phases : [d EXCEPT ![b].at = at] \in [Buffers -> Doings]
         /\ \A todo \in SUBSET Txs : [d EXCEPT ![b].todo = todo] \in [Buffers -> Doings]
         /\ \A call \in Txs \cup {NoTx} : [d EXCEPT ![b].call = call] \in [Buffers -> Doings]
<1>1. Rest \in Doings BY DEF Rest, Doings, Phases
<1>2. \A at \in Phases : [d EXCEPT ![b].at = at] \in [Buffers -> Doings]
  BY DEF Doings
<1>3. \A todo \in SUBSET Txs : [d EXCEPT ![b].todo = todo] \in [Buffers -> Doings]
  BY DEF Doings
<1>4. \A call \in Txs \cup {NoTx} : [d EXCEPT ![b].call = call] \in [Buffers -> Doings]
  BY DEF Doings
<1> QED BY <1>1, <1>2, <1>3, <1>4

(* The steps of the save and kill loops. *)
LEMMA LoopTypes ==
  ASSUME ClientInv, NEW t \in Txs
  PROVE  /\ \A at \in Phases : Advance(t, at) => doing' \in [Buffers -> Doings]
         /\ \A at \in Phases : doing' = [doing EXCEPT ![Home[t]].at = at]
                                 => doing' \in [Buffers -> Doings]
         /\ Call(t) => doing' \in [Buffers -> Doings]
         /\ Rewrite(t) => doing' \in [Buffers -> Doings]
         /\ SaveError(Home[t]) => doing' \in [Buffers -> Doings]
<1> DEFINE b == Home[t]
<1>0. /\ b \in Buffers /\ doing \in [Buffers -> Doings] /\ doing[b] \in Doings
      /\ doing[b].todo \in SUBSET Txs /\ doing[b].settled \in SUBSET Txs
  BY ConstantsAssumption DEF ClientInv, Doings
<1> HIDE DEF b
<1>1. ASSUME NEW at \in Phases, Advance(t, at) PROVE doing' \in [Buffers -> Doings]
  <2> DEFINE d == [doing EXCEPT ![b].at = at]
             e == [d EXCEPT ![b].call = NoTx]
  <2>1. d \in [Buffers -> Doings] BY <1>0, DoingTypes
  <2>2. e \in [Buffers -> Doings] BY <1>0, <2>1, DoingTypes
  <2>3. doing' = [e EXCEPT ![b].todo = doing[b].todo \ {t}]
    BY <1>0, <1>1 DEF Advance, Doings, b
  <2>4. doing[b].todo \ {t} \in SUBSET Txs BY <1>0
  <2> HIDE DEF e
  <2> QED BY <1>0, <2>2, <2>3, <2>4, DoingTypes
<1>2. \A at \in Phases : doing' = [doing EXCEPT ![b].at = at] => doing' \in [Buffers -> Doings]
  <2>1. \A at \in Phases : [doing EXCEPT ![b].at = at] \in [Buffers -> Doings]
    BY <1>0, DoingTypes
  <2> QED BY <2>1
<1>3. Call(t) => doing' \in [Buffers -> Doings]
  <2>1. [doing EXCEPT ![b].call = t] \in [Buffers -> Doings]
    BY <1>0, DoingTypes
  <2> QED BY <2>1 DEF Call, b
<1>4. Rewrite(t) => doing' \in [Buffers -> Doings]
  <2>1. doing[b].settled \cup {t} \in SUBSET Txs /\ doing[b].todo \ {t} \in SUBSET Txs
    BY <1>0
  <2> DEFINE d == [doing EXCEPT ![b].at = "prepare"]
             e == [d EXCEPT ![b].call = NoTx]
             f == [e EXCEPT ![b].todo = doing[b].todo \ {t}]
             s == IF manifest[t].State = "COMMITTED" THEN doing[b].settled \cup {t}
                                                     ELSE doing[b].settled
  <2>2. d \in [Buffers -> Doings] BY <1>0, DoingTypes DEF Phases
  <2>3. e \in [Buffers -> Doings] BY <1>0, <2>2, DoingTypes
  <2>4. f \in [Buffers -> Doings] BY <1>0, <2>1, <2>3, DoingTypes
  <2>5. [f EXCEPT ![b].settled = s] \in [Buffers -> Doings]
    <3>1. s \in SUBSET Txs BY <1>0, <2>1
    <3> HIDE DEF f, s
    <3> QED BY <1>0, <2>4, <3>1 DEF Doings
  <2>6. Rewrite(t) => doing' = [f EXCEPT ![b].settled = s]
    BY <1>0 DEF Rewrite, Doings, b
  <2> QED BY <2>5, <2>6
<1>5. SaveError(b) => doing' \in [Buffers -> Doings]
  BY <1>0, DoingTypes DEF SaveError
<1> QED BY <1>1, <1>2, <1>3, <1>4, <1>5 DEF b

(* What Emacs does in a buffer keeps the lists of its transactions and its loops. *)
LEMMA UserTypes ==
  ASSUME ClientInv, NEW b \in Buffers, User(b)
  PROVE  listed' \in [Buffers -> SUBSET Txs] /\ doing' \in [Buffers -> Doings]
<1>0. /\ listed \in [Buffers -> SUBSET Txs] /\ doing \in [Buffers -> Doings]
      /\ listed[b] \in SUBSET Txs /\ NoTx \in Txs \cup {NoTx}
  BY DEF ClientInv
<1>1. [doing EXCEPT ![b] = Rest] \in [Buffers -> Doings] BY <1>0, DoingTypes
<1>2. CASE Leave(b) BY <1>0, <1>1, <1>2 DEF Leave
<1>3. CASE Type(b) BY <1>0, <1>3 DEF Type, bufferVars
<1>4. CASE SetVisited(b) BY <1>0, <1>4 DEF SetVisited
<1>5. CASE FirstSave(b) BY <1>0, <1>5 DEF FirstSave
<1>6. CASE PlainSave(b) BY <1>0, <1>6 DEF PlainSave, bufferVars
<1>7. CASE BeginSave(b)
  <2>1. [Rest EXCEPT !.at = "prepare", !.todo = listed[b], !.batch = listed[b]] \in Doings
    BY <1>0 DEF Rest, Doings, Phases
  <2> QED BY <1>0, <1>7, <2>1 DEF BeginSave, bufferVars
<1>8. CASE BeginKill(b)
  <2>1. [doing EXCEPT ![b].at = "kill"] \in [Buffers -> Doings]
    BY <1>0, DoingTypes DEF Phases
  <2> DEFINE d == [doing EXCEPT ![b].at = "kill"]
  <2>2. doing' = [d EXCEPT ![b].todo = listed[b]]
    BY <1>0, <1>8 DEF BeginKill, Doings
  <2>3. doing' \in [Buffers -> Doings]
    <3> HIDE DEF d
    <3> QED BY <1>0, <2>1, <2>2, DoingTypes DEF d
  <2> QED BY <1>0, <1>8, <2>3 DEF BeginKill, bufferVars
<1>9. CASE Quit(b) BY <1>0, <1>1, <1>9 DEF Quit, bufferVars
<1>10. CASE Crash(b) BY <1>2, <1>10 DEF Crash
<1> QED BY <1>3, <1>4, <1>5, <1>6, <1>7, <1>8, <1>9, <1>10 DEF User

LEMMA LoopStepTypes ==
  ASSUME ClientInv, NEW b \in Buffers, SaveStep(b) \/ KillStep(b)
  PROVE  listed' \in [Buffers -> SUBSET Txs] /\ doing' \in [Buffers -> Doings]
<1>0. /\ listed \in [Buffers -> SUBSET Txs] /\ doing \in [Buffers -> Doings]
      /\ doing[b].batch \in SUBSET Txs
      /\ {"prepare", "reconcile", "saved", "commit", "kill"} \subseteq Phases
  BY DEF ClientInv, Doings, Phases
<1>1. [doing EXCEPT ![b] = Rest] \in [Buffers -> Doings] BY <1>0, DoingTypes
<1>2. CASE WriteDocument(b)
  <2> DEFINE d == [doing EXCEPT ![b].at = "saved"]
  <2>1. d \in [Buffers -> Doings] BY <1>0, DoingTypes
  <2>2. doing' = [d EXCEPT ![b].todo = doing[b].batch]
    BY <1>0, <1>2 DEF WriteDocument, Doings
  <2>3. doing' \in [Buffers -> Doings]
    <3> HIDE DEF d
    <3> QED BY <1>0, <2>1, <2>2, DoingTypes
  <2> QED BY <1>0, <1>2, <2>3 DEF WriteDocument, bufferVars
<1>3. CASE WriteDocumentFails(b)
  BY <1>0, <1>1, <1>3 DEF WriteDocumentFails, SaveError, bufferVars
<1>4. CASE EndSave(b) BY <1>0, <1>1, <1>4 DEF EndSave, bufferVars
<1>5. CASE EndKill(b) BY <1>0, <1>1, <1>5 DEF EndKill, Leave
<1>6. ASSUME NEW t \in Of(b),
             \/ CallFinalize(t) \/ PrepareReply(t) \/ CallReconcile(t)
             \/ DropSettled(t) \/ CallDocumentSaved(t) \/ DocumentSavedReply(t)
             \/ CallCommit(t) \/ CommitReply(t) \/ CallAbort(t) \/ AbortReply(t)
      PROVE  listed' \in [Buffers -> SUBSET Txs] /\ doing' \in [Buffers -> Doings]
  <2>1. t \in Txs /\ listed[Home[t]] \in SUBSET Txs
    BY <1>0, ConstantsAssumption DEF Of
  <2> HIDE DEF ClientInv
  <2>2. /\ \A at \in Phases : Advance(t, at) => doing' \in [Buffers -> Doings]
        /\ \A at \in Phases : doing' = [doing EXCEPT ![Home[t]].at = at]
                                => doing' \in [Buffers -> Doings]
        /\ Call(t) => doing' \in [Buffers -> Doings]
        /\ Rewrite(t) => doing' \in [Buffers -> Doings]
        /\ SaveError(Home[t]) => doing' \in [Buffers -> Doings]
    BY <2>1, LoopTypes
  <2>3. CASE CallFinalize(t) \/ CallDocumentSaved(t) \/ CallAbort(t)
    BY <1>0, <2>2, <2>3 DEF CallFinalize, CallDocumentSaved, CallAbort, Call, bufferVars
  <2>4. CASE PrepareReply(t) BY <1>0, <2>2, <2>4 DEF PrepareReply, bufferVars
  <2>5. CASE CallReconcile(t) \/ CallCommit(t)
    BY <1>0, <2>5 DEF CallReconcile, CallCommit, CallAgain, emacsVars, bufferVars
  <2>6. CASE DropSettled(t) BY <1>0, <2>1, <2>2, <2>6 DEF DropSettled
  <2>7. CASE DocumentSavedReply(t) BY <1>0, <2>2, <2>7 DEF DocumentSavedReply, bufferVars
  <2>8. CASE CommitReply(t) BY <1>0, <2>1, <2>2, <2>8 DEF CommitReply
  <2>9. CASE AbortReply(t) BY <1>0, <2>2, <2>9 DEF AbortReply, bufferVars
  <2> QED BY <1>6, <2>3, <2>4, <2>5, <2>6, <2>7, <2>8, <2>9
<1> QED BY <1>2, <1>3, <1>4, <1>5, <1>6 DEF SaveStep, KillStep

LEMMA PasteTypes ==
  ASSUME ClientInv, NEW t \in Txs,
         Paste(t) \/ EditOut(t) \/ ImportReply(t) \/ HelperStep(t)
  PROVE  listed' \in [Buffers -> SUBSET Txs] /\ doing' \in [Buffers -> Doings]
<1>0. /\ listed \in [Buffers -> SUBSET Txs] /\ doing \in [Buffers -> Doings]
      /\ listed[Home[t]] \cup {t} \in SUBSET Txs
  BY ConstantsAssumption DEF ClientInv
<1>1. CASE Paste(t) \/ EditOut(t) \/ HelperStep(t)
  BY <1>0, <1>1 DEF Paste, EditOut, HelperStep, emacsVars, bufferVars
<1>2. CASE ImportReply(t) BY <1>0, <1>2 DEF ImportReply, FinishImport
<1> QED BY <1>1, <1>2

-----------------------------------------------------------------------------
(* The simulation *)

(* Writing a buffer to disk changes the documents the helper reads. *)
LEMMA WriteBufferStep ==
  ASSUME ClientInv, NEW b \in Buffers, WriteBuffer(b)
  PROVE  WriteDocuments
<1>1. mentioned' \in [Txs -> BOOLEAN] BY DEF ClientInv, TypeOK, WriteBuffer
<1> QED BY <1>1 DEF WriteBuffer, WriteDocuments

(* Every step of Emacs and its helpers is a step of the helper with any client. *)
LEMMA ClientStep ==
  ASSUME ClientInv, [ENext]_allVars
  PROVE  [Next]_vars
<1>1. ASSUME NEW b \in Buffers, User(b) PROVE [Next]_vars
  <2>1. CASE Quit(b)
    <3>1. doing[b].call \in Txs
      <4>1. doing[b] \in Doings BY DEF ClientInv
      <4> QED BY <2>1, <4>1 DEF Quit, Doings
    <3> QED BY <2>1, <3>1 DEF Quit, Next
  <2>2. CASE FirstSave(b) \/ PlainSave(b)
    BY <2>2, WriteBufferStep DEF FirstSave, PlainSave, Next
  <2>3. CASE Type(b) \/ SetVisited(b) \/ BeginSave(b) \/ BeginKill(b) \/ Crash(b)
    BY <2>3 DEF Type, SetVisited, BeginSave, BeginKill, Crash, Leave
  <2> QED BY <1>1, <2>1, <2>2, <2>3 DEF User
<1>2. ASSUME NEW b \in Buffers, SaveStep(b) \/ KillStep(b) PROVE [Next]_vars
  <2>1. CASE WriteDocument(b) BY <2>1, WriteBufferStep DEF WriteDocument, Next
  <2>2. CASE WriteDocumentFails(b) \/ EndSave(b) \/ EndKill(b)
    BY <2>2 DEF WriteDocumentFails, EndSave, EndKill, Leave
  <2>3. ASSUME NEW t \in Of(b),
               \/ CallFinalize(t) \/ PrepareReply(t) \/ CallReconcile(t)
               \/ DropSettled(t) \/ CallDocumentSaved(t) \/ DocumentSavedReply(t)
               \/ CallCommit(t) \/ CommitReply(t) \/ CallAbort(t) \/ AbortReply(t)
        PROVE  [Next]_vars
    <3>1. t \in Txs BY DEF Of
    <3>2. CASE DropSettled(t) BY <3>2 DEF DropSettled
    <3>3. CASE \/ PrepareReply(t) \/ DocumentSavedReply(t) \/ CommitReply(t) \/ AbortReply(t)
      BY <3>1, <3>3 DEF PrepareReply, DocumentSavedReply, CommitReply, AbortReply, Replied, Next
    <3>4. CASE \/ CallFinalize(t) \/ CallReconcile(t) \/ CallDocumentSaved(t)
               \/ CallCommit(t) \/ CallAbort(t)
      <4>1. Request(t)
        BY <3>4 DEF CallFinalize, CallReconcile, CallDocumentSaved, CallCommit, CallAbort,
                    CallAgain, Call, Request
      <4> QED BY <3>1, <4>1 DEF Next
    <3> QED BY <2>3, <3>2, <3>3, <3>4
  <2> QED BY <1>2, <2>1, <2>2, <2>3 DEF SaveStep, KillStep
<1>3. ASSUME NEW t \in Txs, Paste(t) \/ EditOut(t) \/ ImportReply(t) \/ HelperStep(t)
      PROVE  [Next]_vars
  <2>1. CASE Paste(t) BY <2>1 DEF Paste, Request, Next
  <2>2. CASE EditOut(t) BY <2>2 DEF EditOut
  <2>3. CASE ImportReply(t) BY <2>3 DEF ImportReply, Next
  <2>4. CASE HelperStep(t) BY <2>4 DEF HelperStep, Next
  <2> QED BY <1>3, <2>1, <2>2, <2>3, <2>4
<1>4. CASE UNCHANGED allVars BY <1>4 DEF allVars
<1> QED BY <1>1, <1>2, <1>3, <1>4 DEF ENext

(* ClientInv is inductive. *)
LEMMA ClientInvariant == ESpec => []ClientInv
<1>1. EInit => ClientInv
  BY TypeInitial DEF EInit, ClientInv, Doings, Rest, Phases
<1>2. ClientInv /\ [ENext]_allVars => ClientInv'
  <2> SUFFICES ASSUME ClientInv, [ENext]_allVars PROVE ClientInv'
    OBVIOUS
  <2>1. TypeOK' BY ClientStep, TypeInductive DEF ClientInv
  <2>2. listed' \in [Buffers -> SUBSET Txs] /\ doing' \in [Buffers -> Doings]
    <3>1. CASE UNCHANGED allVars
      BY <3>1 DEF allVars, emacsVars, bufferVars, ClientInv
    <3>2. CASE ENext BY <3>2, UserTypes, LoopStepTypes, PasteTypes DEF ENext
    <3> QED BY <3>1, <3>2
  <2> QED BY <2>1, <2>2 DEF ClientInv
<1> QED BY <1>1, <1>2, PTL DEF ESpec

(* The helper as Emacs uses it - asynchronous imports, lifecycle calls of several
   buffers at a time, quits that delete helpers, crashes - is the helper of
   ClipHelper with one of its clients. *)
THEOREM HelperImplemented == ESpec => HelperSpec
<1>1. EInit => Init BY DEF EInit
<1>2. ClientInv /\ [ENext]_allVars => [Next]_vars BY ClientStep
<1> QED BY <1>1, <1>2, ClientInvariant, PTL DEF ESpec, HelperSpec, Spec

(* Hence saving, retrying, quitting, killing and crashing never cost the user a
   file that was in an asset directory before. *)
THEOREM EmacsKeepsUserFiles == ESpec => []UserFilesKept
BY HelperImplemented, UserFilesSafe, PTL DEF HelperSpec

(* And whatever Emacs does, transactions live the life of TxLifecycle. *)
THEOREM EmacsLifecycle == ESpec => Lifecycle
BY HelperImplemented, LifecycleImplemented, PTL DEF HelperSpec

(***************************************************************************)
(* The bytes of a paste and the links saved to them survive every failure, *)
(* kill, quit and crash, for any number of buffers and transactions that   *)
(* share directories in any way: PayloadKept and SavedLinksKept.           *)
(*                                                                         *)
(* Neither is inductive.  A helper removes what the lists of its manifest  *)
(* and of its own earlier steps say, so the invariant follows these lists  *)
(* (Life, Hired); it removes staged files once the manifest is prepared    *)
(* and the final ones are there (Bytes); and Emacs rewrites a link only    *)
(* after an answer that proves the manifest prepared (Waiting, Linked).    *)
(***************************************************************************)

-----------------------------------------------------------------------------
(* The invariant *)

Own(t) == StagedAssets(t) \cup FinalAssets(t)

\* A transaction never names, copies or removes a path that is not its own.
OwnPaths(t) == Removable(t) \subseteq Own(t) /\ job[t].left \subseteq Payload[t]

\* What the manifest of a transaction that was not discarded says.
Life(t) ==
  LET m == manifest[t]
  IN  /\ m.StagingFiles \subseteq StagedAssets(t)
      /\ m.Place = "staging" => m.State \in {"NONE", "STAGED", "NEEDS_RECONCILIATION"}
      /\ m.Place = "final" => /\ m.State \in Prepared
                              /\ m.Orphans \subseteq StagedAssets(t)
      /\ m.State = "STAGED" => m.Orphans = {}
      /\ t \in known => m.State # "NONE"

\* What its helper may be doing.
Hired(t) ==
  LET j == job[t]
      m == manifest[t]
  IN  /\ j.op # "abort"
      /\ j.op \in {"import", "import-owned"} => t \notin known
      /\ j.at \in {"publish", "undo", "rollback", "recover"}
           => j.op \in {"import", "import-owned", "finalize"}
      /\ j.at = "write" => /\ j.op \in {"import", "finalize", "document-saved"}
                           /\ j.op # "document-saved" => j.left = {}
      /\ j.at = "remove" => /\ j.op \in {"commit", "reconcile"}
                            /\ m.Place = "final"
                            /\ j.doomed \cup j.orphans \subseteq StagedAssets(t)
      /\ Working(t) /\ j.op \in {"import", "import-owned"} => m.State = "NONE"
      /\ Working(t) /\ j.op = "import" => j.made \subseteq StagedAssets(t)
      /\ Working(t) /\ j.op = "finalize"
           => /\ m.State = "STAGED"
              /\ j.made \cup j.doomed \cup j.orphans \subseteq FinalAssets(t)
      /\ j.at = "replied" /\ j.ok => /\ j.op = "import" => m.State = "STAGED"
                                     /\ j.op = "finalize" => m.State \in Prepared

\* Where its bytes are.
Bytes(t) ==
  /\ manifest[t].Place = "final" => FinalAssets(t) \subseteq files
  /\ manifest[t].State = "STAGED" \/ (t \in known /\ manifest[t].Place = "staging")
       => StagedAssets(t) \subseteq files
  /\ job[t].at \in {"publish", "write"} /\ job[t].op \in {"import", "finalize"}
       => \A c \in Payload[t] \ job[t].left : Target(t, c) \in files

Kept(t) == Life(t) /\ Hired(t) /\ (Unshared(t) => Bytes(t))

\* Emacs lists and visits recorded transactions of the buffer only.
Visited(b) ==
  /\ listed[b] \cup doing[b].todo \cup doing[b].batch \cup doing[b].settled \subseteq Of(b) \cap known
  /\ doing[b].call # NoTx => doing[b].call \in doing[b].todo
  /\ doing[b].at = "rest" => doing[b].call = NoTx

\* What the call under way for t is, and what its answer will say.
Waiting(t) ==
  doing[Home[t]].call = t =>
    /\ doing[Home[t]].at # "kill"
    /\ doing[Home[t]].at = "prepare" => job[t].at # "idle" /\ job[t].op = "finalize"
    /\ doing[Home[t]].at = "reconcile" =>
         /\ job[t].at = "idle" => manifest[t].State = "NEEDS_RECONCILIATION"
         /\ job[t].at # "idle" => /\ job[t].op = "reconcile"
                                  /\ job[t].ok => manifest[t].Place = "final"

\* A link names the final asset only of a prepared transaction.
Linked(t) ==
  t \in known /\ "final" \in {link[t], before[t], disk[t]} => manifest[t].Place = "final"

\* Before its import is done a transaction is not recorded and has no links.
Unborn(t) ==
  import[t] # "done" =>
    t \notin known /\ link[t] = "none" /\ before[t] = "none" /\ disk[t] = "none"

KeptInv ==
  /\ \A t \in Txs : OwnPaths(t) /\ Unborn(t)
  /\ \A b \in Buffers : Visited(b)
  /\ \A t \in Txs \ discarded : Kept(t) /\ Waiting(t) /\ Linked(t)
-----------------------------------------------------------------------------
(* Paths *)

(* The paths of a transaction that shares nothing are its alone. *)
LEMMA OwnAlone ==
  ASSUME NEW t \in Txs, NEW u \in Txs, t # u, Unshared(t)
  PROVE  Own(t) \cap Own(u) = {}
<1>1. /\ Home[t] \in Buffers /\ Home[u] \in Buffers /\ Root[Home[t]] \in Roots
      /\ Root[Home[u]] \in Roots /\ Buffers \cap Roots = {}
  BY ConstantsAssumption
<1>2. \/ Payload[t] \cap Payload[u] = {}
      \/ Home[t] # Home[u] /\ Root[Home[t]] # Root[Home[u]]
  BY DEF Unshared
<1>3. ASSUME NEW c \in Payload[t], NEW d \in Payload[u]
      PROVE  /\ StagingPath(t, c) # StagingPath(u, d) /\ StagingPath(t, c) # FinalPath(u, d)
             /\ FinalPath(t, c) # StagingPath(u, d) /\ FinalPath(t, c) # FinalPath(u, d)
  <2>1. c # d \/ (Home[t] # Home[u] /\ Root[Home[t]] # Root[Home[u]]) BY <1>2
  <2> QED BY <1>1, <2>1 DEF StagingPath, FinalPath
<1> QED BY <1>3 DEF Own, StagedAssets, FinalAssets

(* Staged files are never final ones. *)
LEMMA StagedNotFinal ==
  ASSUME NEW t \in Txs
  PROVE  StagedAssets(t) \cap FinalAssets(t) = {}
<1>1. Home[t] \in Buffers /\ Root[Home[t]] \in Roots /\ Buffers \cap Roots = {}
  BY ConstantsAssumption
<1> QED BY <1>1 DEF StagedAssets, FinalAssets, StagingPath, FinalPath

(* What is published goes to one of the two. *)
LEMMA TargetOwn ==
  ASSUME NEW t \in Txs, NEW c \in Payload[t]
  PROVE  /\ Target(t, c) \in Own(t)
         /\ job[t].op = "import" => Target(t, c) \in StagedAssets(t)
         /\ job[t].op # "import" => Target(t, c) \in FinalAssets(t)
BY DEF Target, Own, StagedAssets, FinalAssets

(* A transaction a step does not touch, and whose files it leaves, stays kept. *)
LEMMA OthersKept ==
  ASSUME NEW u \in Txs, job'[u] = job[u], manifest'[u] = manifest[u],
         OwnPaths(u),
         u \in known' <=> u \in known,
         Unshared(u) => files \cap Own(u) \subseteq files'
  PROVE  OwnPaths(u)' /\ (Kept(u) => Kept(u)')
<1>1. OwnPaths(u)' BY DEF OwnPaths, Removable, Own, StagedAssets, FinalAssets, StagingPath, FinalPath
<1>2. Life(u) => Life(u)' BY DEF Life, StagedAssets, StagingPath
<1>3. Hired(u) => Hired(u)'
  BY DEF Hired, Working, StagedAssets, FinalAssets, StagingPath, FinalPath
<1>4. ASSUME Unshared(u), Bytes(u) PROVE Bytes(u)'
  <2>1. files \cap Own(u) \subseteq files' BY <1>4
  <2>2. StagedAssets(u) \subseteq files => StagedAssets(u) \subseteq files' BY <2>1 DEF Own
  <2>3. FinalAssets(u) \subseteq files => FinalAssets(u) \subseteq files' BY <2>1 DEF Own
  <2>4. \A c \in Payload[u] : Target(u, c) \in files => Target(u, c) \in files'
    BY <2>1, TargetOwn
  <2>5. \A c : Target(u, c)' = Target(u, c) BY DEF Target, StagingPath, FinalPath
  <2>6. StagedAssets(u)' = StagedAssets(u) /\ FinalAssets(u)' = FinalAssets(u)
    BY DEF StagedAssets, FinalAssets, StagingPath, FinalPath
  <2> QED BY <1>4, <2>2, <2>3, <2>4, <2>5, <2>6 DEF Bytes
<1> QED BY <1>1, <1>2, <1>3, <1>4 DEF Kept, Unshared
-----------------------------------------------------------------------------
(* Requests *)

(* A request removes from nothing but the lists of its manifest. *)
LEMMA RequestOwn ==
  ASSUME TypeOK, NEW t \in Txs, OwnPaths(t), Request(t)
  PROVE  /\ OwnPaths(t)'
         /\ UNCHANGED <<manifest, files>>
         /\ \A u \in Txs \ {t} : job'[u] = job[u]
<1>1. UNCHANGED <<manifest, files>>
  BY DEF Request, StartImport, StartImportOwned, StartFinalize, StartDocumentSaved,
         StartCommit, StartReconcile, StartAbort
<1>2. job \in [Txs -> Jobs] BY DEF TypeOK
<1>3. /\ manifest[t].CreatedFiles \subseteq Own(t) /\ manifest[t].StagingFiles \subseteq Own(t)
      /\ manifest[t].Orphans \subseteq Own(t)
  BY DEF OwnPaths, Removable
<1> DEFINE Keeps == /\ \A u \in Txs \ {t} : job'[u] = job[u]
                    /\ job'[t].made = {} /\ job'[t].orphans = {}
                    /\ job'[t].doomed \subseteq Own(t)
                    /\ job'[t].left \subseteq Payload[t]
<1>4. ASSUME NEW op, NEW at, Begin(t, op, at) PROVE Keeps
  BY <1>2, <1>4 DEF Begin, NoJob
<1>5. ASSUME NEW op, NEW ok, Answer(t, op, ok) PROVE Keeps
  BY <1>2, <1>5 DEF Answer, NoJob
<1>6. ASSUME NEW op, NEW paths, paths \subseteq Own(t), BeginRemoval(t, op, paths)
      PROVE Keeps
  BY <1>2, <1>6 DEF BeginRemoval, NoJob
<1>7. ASSUME NEW op, job' = [job EXCEPT ![t] =
               [NoJob EXCEPT !.op = op, !.at = "publish", !.left = Payload[t]]]
      PROVE Keeps
  BY <1>2, <1>7 DEF NoJob
<1>8. manifest[t].CreatedFiles \cup manifest[t].StagingFiles \subseteq Own(t) BY <1>3
<1> HIDE DEF Keeps
<1>9. Keeps
  <2>1. ASSUME StartImport(t) PROVE Keeps BY <1>7, <2>1 DEF StartImport
  <2>2. ASSUME StartImportOwned(t) PROVE Keeps BY <1>7, <2>2 DEF StartImportOwned
  <2>3. ASSUME StartFinalize(t) PROVE Keeps BY <1>5, <1>7, <2>3 DEF StartFinalize
  <2>4. ASSUME StartDocumentSaved(t) PROVE Keeps BY <1>4, <1>5, <2>4 DEF StartDocumentSaved
  <2>5. ASSUME StartCommit(t) PROVE Keeps BY <1>3, <1>5, <1>6, <2>5 DEF StartCommit
  <2>6. ASSUME StartReconcile(t) PROVE Keeps BY <1>3, <1>5, <1>6, <2>6 DEF StartReconcile
  <2>7. ASSUME StartAbort(t) PROVE Keeps BY <1>5, <1>6, <1>8, <2>7 DEF StartAbort
  <2> QED BY <2>1, <2>2, <2>3, <2>4, <2>5, <2>6, <2>7 DEF Request
<1>10. Own(t)' = Own(t) BY DEF Own, StagedAssets, FinalAssets, StagingPath, FinalPath
<1>11. Removable(t)' \subseteq Own(t)'
  BY <1>1, <1>3, <1>9, <1>10 DEF Keeps, Removable
<1> QED BY <1>1, <1>9, <1>11 DEF Keeps, OwnPaths

(* A request without effect on the files: it needs only that its job fits the manifest. *)
LEMMA StartKept ==
  ASSUME TypeOK, NEW t \in Txs, Kept(t),
         UNCHANGED <<manifest, files>>, t \in known' <=> t \in known,
         Hired(t)',
         job'[t].at = "publish" /\ job'[t].op \in {"import", "finalize"}
           => job'[t].left = Payload[t],
         job'[t].at # "write" \/ job'[t].op = "document-saved"
  PROVE  Kept(t)'
<1>1. Life(t)' BY DEF Kept, Life, StagedAssets, StagingPath
<1>2. Unshared(t) => Bytes(t)'
  BY DEF Kept, Bytes, StagedAssets, FinalAssets, StagingPath, FinalPath
<1> QED BY <1>1, <1>2 DEF Kept, Unshared

(* Every request of Emacs but abort keeps what is kept. *)
LEMMA RequestKept ==
  ASSUME TypeOK, NEW t \in Txs, Kept(t), t \in known' <=> t \in known,
         \/ (StartImport(t) \/ StartImportOwned(t)) /\ t \notin known
         \/ StartFinalize(t) \/ StartDocumentSaved(t) \/ StartCommit(t) \/ StartReconcile(t)
  PROVE  Kept(t)'
<1>0. /\ job \in [Txs -> Jobs] /\ manifest[t] \in Manifests(Files)
      /\ StagedAssets(t)' = StagedAssets(t) /\ FinalAssets(t)' = FinalAssets(t)
  BY DEF TypeOK, StagedAssets, FinalAssets, StagingPath, FinalPath
<1>1. UNCHANGED <<manifest, files>>
  BY DEF StartImport, StartImportOwned, StartFinalize, StartDocumentSaved, StartCommit,
         StartReconcile
<1>2. Life(t) BY DEF Kept
<1>3. ASSUME NEW op, NEW ok, Answer(t, op, ok), op \notin {"abort", "import", "import-owned"},
             ok /\ op = "finalize" => manifest[t].State \in Prepared
      PROVE  Kept(t)'
  <2>1. /\ job'[t].op = op /\ job'[t].at = "replied" /\ job'[t].ok = ok
    BY <1>0, <1>3 DEF Answer, NoJob
  <2>2. Hired(t)' BY <1>1, <1>3, <2>1 DEF Hired, Working
  <2> QED BY <1>1, <2>1, <2>2, StartKept
<1>4. ASSUME NEW op, NEW paths, BeginRemoval(t, op, paths), op \in {"commit", "reconcile"},
             manifest[t].Place = "final", paths \subseteq StagedAssets(t)
      PROVE  Kept(t)'
  <2>1. /\ job'[t].op = op /\ job'[t].at = "remove" /\ job'[t].doomed = paths
        /\ job'[t].orphans = {}
    BY <1>0, <1>4 DEF BeginRemoval, NoJob
  <2>2. Hired(t)' BY <1>0, <1>1, <1>4, <2>1 DEF Hired, Working
  <2> QED BY <1>1, <1>4, <2>1, <2>2, StartKept
<1>5. ASSUME NEW op \in {"import", "import-owned", "finalize"},
             job' = [job EXCEPT ![t] =
                       [NoJob EXCEPT !.op = op, !.at = "publish", !.left = Payload[t]]],
             op # "finalize" => t \notin known /\ manifest[t].State = "NONE",
             op = "finalize" => manifest[t].State = "STAGED"
      PROVE  Kept(t)'
  <2>1. /\ job'[t].op = op /\ job'[t].at = "publish" /\ job'[t].left = Payload[t]
        /\ job'[t].made = {} /\ job'[t].doomed = {} /\ job'[t].orphans = {}
    BY <1>0, <1>5 DEF NoJob
  <2>2. Hired(t)' BY <1>1, <1>5, <2>1 DEF Hired, Working
  <2> QED BY <1>1, <2>1, <2>2, StartKept
<1>6. manifest[t].Orphans \subseteq StagedAssets(t) \/ manifest[t].Place # "final"
  BY <1>2 DEF Life
<1>7. manifest[t].StagingFiles \subseteq StagedAssets(t) BY <1>2 DEF Life
<1>8. Verified(t) => manifest[t].Place = "final" BY DEF Verified
<1>9. CASE (StartImport(t) \/ StartImportOwned(t)) /\ t \notin known
  BY <1>5, <1>9 DEF StartImport, StartImportOwned
<1>10. CASE StartFinalize(t)
  <2>1. manifest[t].State \notin Prepared \cup {"NONE"} => manifest[t].State = "STAGED"
    BY <1>0, <1>2 DEF Life, Manifests, Prepared
  <2> QED BY <1>3, <1>5, <1>10, <2>1 DEF StartFinalize
<1>11. CASE StartDocumentSaved(t)
  <2>1. CASE Begin(t, "document-saved", "write")
    <3>1. job'[t].op = "document-saved" /\ job'[t].at = "write" BY <1>0, <2>1 DEF Begin, NoJob
    <3>2. Hired(t)' BY <1>1, <3>1 DEF Hired, Working
    <3> QED BY <1>1, <3>1, <3>2, StartKept
  <2> QED BY <1>3, <1>11, <2>1 DEF StartDocumentSaved
<1>12. CASE StartCommit(t) BY <1>3, <1>4, <1>7, <1>8, <1>12 DEF StartCommit
<1>13. CASE StartReconcile(t)
  BY <1>3, <1>4, <1>6, <1>7, <1>8, <1>13 DEF StartReconcile
<1> QED BY <1>9, <1>10, <1>11, <1>12, <1>13

(* An answer that is taken, or a helper that is deleted. *)
LEMMA DismissKept ==
  ASSUME TypeOK, NEW t \in Txs, OwnPaths(t), Dismiss(t)
  PROVE  /\ OwnPaths(t)'
         /\ \A u \in Txs \ {t} : job'[u] = job[u]
         /\ job'[t].at = "idle" /\ job'[t].op = "none" /\ ~ job'[t].ok
         /\ Kept(t) /\ (t \in known' <=> t \in known) => Kept(t)'
         /\ Kept(t) /\ job[t].op = "import" /\ job[t].at = "replied" /\ job[t].ok => Kept(t)'
<1>0. job \in [Txs -> Jobs] /\ UNCHANGED <<manifest, files>> BY DEF TypeOK, Dismiss
<1>1. /\ \A u \in Txs \ {t} : job'[u] = job[u]
      /\ job'[t].at = "idle" /\ job'[t].op = "none" /\ ~ job'[t].ok
      /\ job'[t].left = {} /\ job'[t].made = {} /\ job'[t].doomed = {} /\ job'[t].orphans = {}
  BY <1>0 DEF Dismiss, NoJob
<1>2. StagedAssets(t)' = StagedAssets(t) /\ FinalAssets(t)' = FinalAssets(t) /\ Own(t)' = Own(t)
  BY DEF Own, StagedAssets, FinalAssets, StagingPath, FinalPath
<1>3. OwnPaths(t)' BY <1>0, <1>1, <1>2 DEF OwnPaths, Removable
<1>4. Hired(t)' BY <1>1 DEF Hired, Working
<1>5. Kept(t) /\ (t \in known' <=> t \in known) => Kept(t)'
  <2>1. Life(t) /\ (t \in known' <=> t \in known) => Life(t)' BY <1>0, <1>2 DEF Life
  <2>2. Bytes(t) /\ (t \in known' <=> t \in known) => Bytes(t)' BY <1>0, <1>1, <1>2 DEF Bytes
  <2> QED BY <1>4, <2>1, <2>2 DEF Kept, Unshared
<1>6. ASSUME Kept(t), job[t].op = "import", job[t].at = "replied", job[t].ok PROVE Kept(t)'
  <2>1. manifest[t].State = "STAGED" BY <1>6 DEF Kept, Hired
  <2>2. Life(t)' BY <1>0, <1>2, <1>6, <2>1 DEF Kept, Life
  <2>3. Unshared(t) => Bytes(t)'
    BY <1>0, <1>1, <1>2, <1>6, <2>1 DEF Kept, Bytes, Life, Prepared
  <2> QED BY <1>4, <2>2, <2>3 DEF Kept, Unshared
<1> QED BY <1>1, <1>3, <1>5, <1>6
-----------------------------------------------------------------------------
(* Steps of a helper *)

(* What a step needs to say of t: its lists, and what it may have put on disk. *)
LEMMA WorkKept ==
  ASSUME TypeOK, NEW t \in Txs, OwnPaths(t), Work(t), t \in known' <=> t \in known
  PROVE  /\ OwnPaths(t)' /\ (Kept(t) => Kept(t)')
         /\ \A u \in Txs \ {t} : job'[u] = job[u] /\ manifest'[u] = manifest[u]
         /\ files \ Own(t) \subseteq files'
<1>0. /\ job \in [Txs -> Jobs] /\ job[t] \in Jobs
      /\ manifest \in [Txs -> Manifests(Files)] /\ manifest[t] \in Manifests(Files)
  BY DEF TypeOK
<1>1. /\ StagedAssets(t)' = StagedAssets(t) /\ FinalAssets(t)' = FinalAssets(t)
      /\ Own(t)' = Own(t) /\ StagedAssets(t) \cup FinalAssets(t) = Own(t)
      /\ StagedAssets(t) \cap FinalAssets(t) = {}
  BY StagedNotFinal DEF Own, StagedAssets, FinalAssets, StagingPath, FinalPath
<1>2. /\ manifest[t].CreatedFiles \subseteq Own(t) /\ manifest[t].StagingFiles \subseteq Own(t)
      /\ manifest[t].Orphans \subseteq Own(t) /\ job[t].made \subseteq Own(t)
      /\ job[t].doomed \subseteq Own(t) /\ job[t].orphans \subseteq Own(t)
      /\ job[t].left \subseteq Payload[t]
  BY DEF OwnPaths, Removable
<1> DEFINE Others == \A u \in Txs \ {t} : job'[u] = job[u] /\ manifest'[u] = manifest[u]
           Goal == /\ OwnPaths(t)' /\ (Kept(t) => Kept(t)')
                   /\ Others /\ files \ Own(t) \subseteq files'
<1>3. ASSUME NEW ok \in BOOLEAN, Reply(t, ok)
      PROVE  /\ \A u \in Txs \ {t} : job'[u] = job[u]
             /\ job'[t].op = job[t].op /\ job'[t].at = "replied" /\ job'[t].ok = ok
             /\ job'[t].left = {} /\ job'[t].made = {} /\ job'[t].doomed = {}
             /\ job'[t].orphans = {}
  BY <1>0, <1>3 DEF Reply, Answer, NoJob
<1>4. ASSUME NEW at, GoTo(t, at)
      PROVE  /\ \A u \in Txs \ {t} : job'[u] = job[u]
             /\ job'[t].op = job[t].op /\ job'[t].at = at /\ job'[t].ok = job[t].ok
             /\ job'[t].left = job[t].left /\ job'[t].made = job[t].made
             /\ job'[t].doomed = job[t].doomed /\ job'[t].orphans = job[t].orphans
  BY <1>0, <1>4 DEF GoTo, Jobs
(* A step that only answers no. *)
<1>5. ASSUME Reply(t, FALSE), UNCHANGED <<manifest, files>> PROVE Goal
  <2>1. OwnPaths(t)' /\ Others BY <1>1, <1>2, <1>3, <1>5 DEF OwnPaths, Removable
  <2>2. Kept(t) => Kept(t)'
    <3>1. Life(t) => Life(t)' BY <1>1, <1>5 DEF Life
    <3>2. Hired(t) => Hired(t)' BY <1>3, <1>5 DEF Hired, Working
    <3>3. Bytes(t) => Bytes(t)' BY <1>1, <1>3, <1>5 DEF Bytes
    <3> QED BY <3>1, <3>2, <3>3 DEF Kept, Unshared
  <2> QED BY <1>5, <2>1, <2>2
<1>6. CASE PublishOne(t)
  <2>1. PICK c \in job[t].left :
          /\ files' = files \cup {Target(t, c)}
          /\ job' = [job EXCEPT ![t].left = @ \ {c},
                                ![t].made = IF Target(t, c) \in files THEN @
                                            ELSE @ \cup {Target(t, c)}]
    BY <1>6 DEF PublishOne
  <2>2. /\ job'[t].left = job[t].left \ {c}
        /\ job'[t].made \in {job[t].made, job[t].made \cup {Target(t, c)}}
        /\ job'[t].doomed = job[t].doomed /\ job'[t].orphans = job[t].orphans
        /\ job'[t].op = job[t].op /\ job'[t].at = job[t].at /\ job'[t].ok = job[t].ok
        /\ \A u \in Txs \ {t} : job'[u] = job[u]
    BY <1>0, <2>1 DEF Jobs
  <2>3. c \in Payload[t] /\ manifest' = manifest BY <1>2, <1>6 DEF PublishOne
  <2>4. /\ Target(t, c) \in Own(t)
        /\ job[t].op = "import" => Target(t, c) \in StagedAssets(t)
        /\ job[t].op # "import" => Target(t, c) \in FinalAssets(t)
    BY <2>3, TargetOwn
  <2>5. job'[t].made \subseteq Own(t) BY <1>2, <2>2, <2>4
  <2>6. OwnPaths(t)' BY <1>1, <1>2, <2>2, <2>3, <2>5 DEF OwnPaths, Removable
  <2>7. Life(t) => Life(t)' BY <1>1, <2>3 DEF Life
  <2>8. Hired(t) => Hired(t)'
    <3>1. job[t].at = "publish" BY <1>6 DEF PublishOne
    <3>2. job[t].op = "import" /\ job[t].made \subseteq StagedAssets(t)
            => job'[t].made \subseteq StagedAssets(t)
      BY <2>2, <2>4
    <3>3. job[t].op = "finalize" /\ job[t].made \subseteq FinalAssets(t)
            => job'[t].made \subseteq FinalAssets(t)
      BY <2>2, <2>4
    <3> QED BY <1>1, <2>2, <2>3, <3>1, <3>2, <3>3 DEF Hired, Working
  <2>9. Bytes(t) => Bytes(t)'
    <3>1. \A d : Target(t, d)' = Target(t, d) BY <2>2 DEF Target, StagingPath, FinalPath
    <3>2. files \subseteq files' /\ Target(t, c) \in files' BY <2>1
    <3> QED BY <1>1, <2>2, <2>3, <3>1, <3>2 DEF Bytes
  <2> QED BY <2>1, <2>2, <2>3, <2>6, <2>7, <2>8, <2>9 DEF Kept, Unshared
<1>7. CASE PublishFails(t)
  <2>1. /\ job'[t].at = "undo" /\ job'[t].op = job[t].op /\ job'[t].ok = job[t].ok
        /\ job'[t].left = job[t].left /\ job'[t].made = job[t].made
        /\ job'[t].doomed = job[t].made /\ job'[t].orphans = job[t].orphans
        /\ \A u \in Txs \ {t} : job'[u] = job[u]
        /\ UNCHANGED <<manifest, files>> /\ job[t].at = "publish"
    BY <1>0, <1>7 DEF PublishFails, Jobs
  <2>2. OwnPaths(t)' BY <1>1, <1>2, <2>1 DEF OwnPaths, Removable
  <2>3. Life(t) => Life(t)' BY <1>1, <2>1 DEF Life
  <2>4. Hired(t) => Hired(t)' BY <1>1, <2>1 DEF Hired, Working
  <2>5. Bytes(t) => Bytes(t)' BY <1>1, <2>1 DEF Bytes
  <2> QED BY <2>1, <2>2, <2>3, <2>4, <2>5 DEF Kept, Unshared
<1>8. CASE PublishDone(t)
  <2>0. UNCHANGED <<manifest, files>> /\ job[t].at = "publish" /\ job[t].left = {}
    BY <1>8 DEF PublishDone
  <2>1. CASE job[t].op = "import-owned"
    <3>1. Reply(t, TRUE) BY <1>8, <2>1 DEF PublishDone
    <3>2. OwnPaths(t)' BY <1>1, <1>2, <1>3, <2>0, <3>1 DEF OwnPaths, Removable
    <3>3. Life(t) => Life(t)' BY <1>1, <2>0 DEF Life
    <3>4. Hired(t) => Hired(t)' BY <1>3, <2>0, <2>1, <3>1 DEF Hired, Working
    <3>5. Bytes(t) => Bytes(t)' BY <1>1, <1>3, <2>0, <3>1 DEF Bytes
    <3> QED BY <1>3, <2>0, <3>1, <3>2, <3>3, <3>4, <3>5 DEF Kept, Unshared
  <2>2. CASE job[t].op # "import-owned"
    <3>1. GoTo(t, "write") BY <1>8, <2>2 DEF PublishDone
    <3>2. OwnPaths(t)' BY <1>1, <1>2, <1>4, <2>0, <3>1 DEF OwnPaths, Removable
    <3>3. Life(t) => Life(t)' BY <1>1, <2>0 DEF Life
    <3>4. Hired(t) => Hired(t)' BY <1>1, <1>4, <2>0, <2>2, <3>1 DEF Hired, Working
    <3>5. Bytes(t) => Bytes(t)'
      <4>1. \A d : Target(t, d)' = Target(t, d)
        BY <1>4, <3>1 DEF Target, StagingPath, FinalPath
      <4> QED BY <1>1, <1>4, <2>0, <3>1, <4>1 DEF Bytes
    <3> QED BY <1>4, <2>0, <3>1, <3>2, <3>3, <3>4, <3>5 DEF Kept, Unshared
  <2> QED BY <2>1, <2>2
<1>9. CASE WriteFails(t)
  <2>0. UNCHANGED <<manifest, files>> /\ job[t].at = "write" BY <1>9 DEF WriteFails
  <2>1. CASE job[t].op = "document-saved" BY <1>5, <1>9, <2>0, <2>1 DEF WriteFails
  <2>2. CASE job[t].op # "document-saved"
    <3>1. /\ job'[t].at = "rollback" /\ job'[t].op = job[t].op /\ job'[t].ok = job[t].ok
          /\ job'[t].left = job[t].left /\ job'[t].made = job[t].made
          /\ job'[t].doomed = job[t].made /\ job'[t].orphans = job[t].orphans
          /\ \A u \in Txs \ {t} : job'[u] = job[u]
      BY <1>0, <1>9, <2>2 DEF WriteFails, Jobs
    <3>2. OwnPaths(t)' BY <1>1, <1>2, <2>0, <3>1 DEF OwnPaths, Removable
    <3>3. Life(t) => Life(t)' BY <1>1, <2>0 DEF Life
    <3>4. Hired(t) => Hired(t)' BY <1>1, <2>0, <2>2, <3>1 DEF Hired, Working
    <3>5. Bytes(t) => Bytes(t)' BY <1>1, <2>0, <3>1 DEF Bytes
    <3> QED BY <2>0, <3>1, <3>2, <3>3, <3>4, <3>5 DEF Kept, Unshared
  <2> QED BY <2>1, <2>2
<1>10. CASE RemoveFails(t)
  <2>1. PICK f \in NextDoomed(t) :
          job' = [job EXCEPT ![t].doomed = @ \ {f}, ![t].orphans = @ \cup {f}]
    BY <1>10 DEF RemoveFails
  <2>2. f \in job[t].doomed BY <2>1 DEF NextDoomed
  <2>3. /\ job'[t].doomed = job[t].doomed \ {f} /\ job'[t].orphans = job[t].orphans \cup {f}
        /\ job'[t].at = job[t].at /\ job'[t].op = job[t].op /\ job'[t].ok = job[t].ok
        /\ job'[t].left = job[t].left /\ job'[t].made = job[t].made
        /\ \A u \in Txs \ {t} : job'[u] = job[u]
    BY <1>0, <2>1 DEF Jobs
  <2>4. UNCHANGED <<manifest, files>> /\ job[t].at \in Removing BY <1>10 DEF RemoveFails
  <2>5. /\ job'[t].orphans \subseteq job[t].orphans \cup job[t].doomed
        /\ job'[t].doomed \subseteq job[t].doomed
    BY <2>2, <2>3
  <2>6. OwnPaths(t)' BY <1>1, <1>2, <2>3, <2>4, <2>5 DEF OwnPaths, Removable
  <2>7. Life(t) => Life(t)' BY <1>1, <2>4 DEF Life
  <2>8. Hired(t) => Hired(t)' BY <1>1, <2>3, <2>4, <2>5 DEF Hired, Working
  <2>9. Bytes(t) => Bytes(t)' BY <1>1, <2>3, <2>4 DEF Bytes, Removing
  <2> QED BY <2>3, <2>4, <2>6, <2>7, <2>8, <2>9 DEF Kept, Unshared
<1>11. CASE RemoveOne(t)
  <2>1. PICK f \in NextDoomed(t) :
          files' = files \ {f} /\ job' = [job EXCEPT ![t].doomed = @ \ {f}]
    BY <1>11 DEF RemoveOne
  <2>2. f \in job[t].doomed /\ f \in Own(t) BY <1>2, <2>1 DEF NextDoomed
  <2>3. /\ job'[t].doomed = job[t].doomed \ {f} /\ job'[t].orphans = job[t].orphans
        /\ job'[t].at = job[t].at /\ job'[t].op = job[t].op /\ job'[t].ok = job[t].ok
        /\ job'[t].left = job[t].left /\ job'[t].made = job[t].made
        /\ \A u \in Txs \ {t} : job'[u] = job[u]
    BY <1>0, <2>1 DEF Jobs
  <2>4. manifest' = manifest /\ job[t].at \in Removing BY <1>11 DEF RemoveOne
  <2>5. files \ Own(t) \subseteq files' BY <2>1, <2>2
  <2>6. OwnPaths(t)' BY <1>1, <1>2, <2>3, <2>4 DEF OwnPaths, Removable
  <2>7. Life(t) => Life(t)' BY <1>1, <2>4 DEF Life
  <2>8. Hired(t) => Hired(t)' BY <1>1, <2>3, <2>4 DEF Hired, Working
  (* The staged files go once the final ones are there; a failed finalize takes
     back final ones while the manifest still names the staged ones. *)
  <2>9. Life(t) /\ Hired(t) /\ Bytes(t) => Bytes(t)'
    <3> SUFFICES ASSUME Life(t), Hired(t), Bytes(t) PROVE Bytes(t)'
      OBVIOUS
    <3>1. CASE job[t].at = "remove"
      <4>1. manifest[t].Place = "final" /\ f \in StagedAssets(t)
        BY <2>2, <3>1 DEF Hired
      <4>2. manifest[t].State # "STAGED" BY <4>1 DEF Life, Prepared
      <4>3. FinalAssets(t) \subseteq files' BY <1>1, <2>1, <4>1 DEF Bytes
      <4> QED BY <1>1, <2>3, <2>4, <3>1, <4>1, <4>2, <4>3 DEF Bytes
    <3>2. CASE job[t].at # "remove" /\ job[t].op = "finalize"
      <4>1. manifest[t].State = "STAGED" /\ f \in FinalAssets(t)
        BY <2>2, <2>4, <3>2 DEF Hired, Working, Removing
      <4>2. manifest[t].Place # "final" BY <4>1 DEF Life, Prepared
      <4>3. StagedAssets(t) \subseteq files' BY <1>1, <2>1, <4>1 DEF Bytes
      <4> QED BY <1>1, <2>3, <2>4, <3>2, <4>2, <4>3 DEF Bytes, Removing
    <3>3. CASE job[t].at # "remove" /\ job[t].op # "finalize"
      <4>1. manifest[t].State = "NONE" /\ t \notin known
        BY <2>4, <3>3 DEF Hired, Working, Removing
      <4>2. manifest[t].Place # "final" BY <4>1 DEF Life, Prepared
      <4> QED BY <1>1, <2>3, <2>4, <3>3, <4>1, <4>2 DEF Bytes, Removing
    <3> QED BY <3>1, <3>2, <3>3
  <2> QED BY <2>3, <2>4, <2>5, <2>6, <2>7, <2>8, <2>9 DEF Kept, Unshared
<1>12. CASE Compensated(t)
  <2>0. /\ UNCHANGED <<manifest, files>> /\ job[t].doomed = {}
        /\ job[t].at \in {"undo", "rollback"}
    BY <1>12 DEF Compensated
  <2>1. CASE GoTo(t, "recover")
    <3>1. OwnPaths(t)' BY <1>1, <1>2, <1>4, <2>0, <2>1 DEF OwnPaths, Removable
    <3>2. Life(t) => Life(t)' BY <1>1, <2>0 DEF Life
    <3>3. Hired(t) => Hired(t)' BY <1>1, <1>4, <2>0, <2>1 DEF Hired, Working
    <3>4. Bytes(t) => Bytes(t)' BY <1>1, <1>4, <2>0, <2>1 DEF Bytes
    <3> QED BY <1>4, <2>0, <2>1, <3>1, <3>2, <3>3, <3>4 DEF Kept, Unshared
  <2> QED BY <1>5, <1>12, <2>0, <2>1 DEF Compensated
<1> HIDE DEF Goal
(* A new manifest: its lists come from the old one and from the helper's. *)
<1>13. ASSUME NEW m, manifest' = [manifest EXCEPT ![t] = m], files' = files,
              NEW ok \in BOOLEAN, Reply(t, ok),
              m.CreatedFiles \cup m.StagingFiles \cup m.Orphans \subseteq Own(t),
              Kept(t) => /\ m.StagingFiles \subseteq StagedAssets(t)
                         /\ m.Place = "staging" => m.State \in {"NONE", "STAGED", "NEEDS_RECONCILIATION"}
                         /\ m.Place = "final" => /\ m.State \in Prepared
                                                 /\ m.Orphans \subseteq StagedAssets(t)
                         /\ m.State = "STAGED" => m.Orphans = {}
                         /\ t \in known => m.State # "NONE"
                         /\ ok /\ job[t].op = "import" => m.State = "STAGED"
                         /\ ok /\ job[t].op = "finalize" => m.State \in Prepared
                         /\ Unshared(t) /\ m.Place = "final" => FinalAssets(t) \subseteq files
                         /\ Unshared(t) /\ (m.State = "STAGED" \/ (t \in known /\ m.Place = "staging"))
                              => StagedAssets(t) \subseteq files
       PROVE  Goal
  <2>1. /\ manifest'[t] = m /\ Others
        /\ job'[t].op = job[t].op /\ job'[t].at = "replied" /\ job'[t].ok = ok
        /\ job'[t].left = {} /\ job'[t].made = {} /\ job'[t].doomed = {}
        /\ job'[t].orphans = {}
    BY <1>0, <1>3, <1>13
  <2>2. OwnPaths(t)' BY <1>1, <1>13, <2>1 DEF OwnPaths, Removable
  <2>3. ASSUME Kept(t) PROVE Kept(t)'
    <3>1. Life(t)' BY <1>1, <1>13, <2>1, <2>3 DEF Life
    <3>2. Hired(t)' BY <1>1, <1>13, <2>1, <2>3 DEF Hired, Working, Kept
    <3>3. Unshared(t) => Bytes(t)' BY <1>1, <1>13, <2>1, <2>3 DEF Bytes
    <3> QED BY <3>1, <3>2, <3>3 DEF Kept, Unshared
  <2> QED BY <1>13, <2>1, <2>2, <2>3 DEF Goal
<1>14. ASSUME WriteManifest(t) PROVE Goal
  <2>0. /\ job[t].at = "write" /\ Accepted(t) /\ files' = files /\ Reply(t, TRUE)
        /\ manifest' = [manifest EXCEPT ![t] = Wanted(t)]
    BY <1>14 DEF WriteManifest
  <2>1. CASE job[t].op = "import"
    <3> DEFINE m == Wanted(t)
    <3>1. /\ m.State = "STAGED" /\ m.Place = "staging" /\ m.Orphans = {}
          /\ m.CreatedFiles = job[t].made /\ m.StagingFiles = job[t].made
      BY <2>1 DEF Wanted, Create
    <3>2. ASSUME Kept(t), Unshared(t) PROVE StagedAssets(t) \subseteq files
      <4>1. job[t].left = {} BY <2>0, <2>1, <3>2 DEF Kept, Hired
      <4>2. \A c \in Payload[t] : StagingPath(t, c) \in files
        BY <2>0, <2>1, <3>2, <4>1 DEF Kept, Bytes, Target
      <4> QED BY <4>2 DEF StagedAssets
    <3>3. Kept(t) => job[t].made \subseteq StagedAssets(t)
      BY <2>0, <2>1 DEF Kept, Hired, Working
    <3> HIDE DEF m
    <3>4. m.CreatedFiles \cup m.StagingFiles \cup m.Orphans \subseteq Own(t) BY <1>2, <3>1
    <3> QED BY <1>13, <2>0, <2>1, <3>1, <3>2, <3>3, <3>4 DEF m
  <2>2. CASE job[t].op = "finalize"
    <3> DEFINE m == Wanted(t)
    <3>1. /\ m.State = "PREPARED" /\ m.Place = "final" /\ m.Orphans = manifest[t].Orphans
          /\ m.CreatedFiles = job[t].made /\ m.StagingFiles = manifest[t].StagingFiles
      BY <1>0, <2>2 DEF Wanted, Prepare, Manifests
    <3>2. ASSUME Kept(t) PROVE job[t].left = {} /\ manifest[t].State = "STAGED"
      BY <2>0, <2>2, <3>2 DEF Kept, Hired, Working
    <3>3. ASSUME Kept(t), Unshared(t) PROVE FinalAssets(t) \subseteq files
      <4>1. \A c \in Payload[t] : FinalPath(t, c) \in files
        BY <2>0, <2>2, <3>2, <3>3 DEF Kept, Bytes, Target
      <4> QED BY <4>1 DEF FinalAssets
    <3>4. Kept(t) => manifest[t].StagingFiles \subseteq StagedAssets(t) /\ manifest[t].Orphans = {}
      BY <3>2 DEF Kept, Life
    <3> HIDE DEF m
    <3>5. m.CreatedFiles \cup m.StagingFiles \cup m.Orphans \subseteq Own(t) BY <1>2, <3>1
    <3> QED BY <1>13, <2>0, <2>2, <3>1, <3>3, <3>4, <3>5 DEF m, Prepared
  <2>3. CASE job[t].op \notin {"import", "finalize"}
    <3> DEFINE m == Wanted(t)
    <3>1. /\ m.State = "DOCUMENT_SAVED" /\ m.Place = manifest[t].Place
          /\ m.Orphans = manifest[t].Orphans
          /\ m.CreatedFiles = manifest[t].CreatedFiles
          /\ m.StagingFiles = manifest[t].StagingFiles
      BY <1>0, <2>3 DEF Wanted, Transition, Manifests
    <3>2. manifest[t].State \in {"PREPARED", "DOCUMENT_SAVED"}
      BY <1>0, <2>0, <2>3, <3>1 DEF Accepted, AllowedTransition, Terminal, Manifests
    <3>3. Kept(t) => /\ manifest[t].Place # "staging" /\ manifest[t].StagingFiles \subseteq StagedAssets(t)
                     /\ manifest[t].Place = "final" => manifest[t].Orphans \subseteq StagedAssets(t)
                     /\ Unshared(t) /\ manifest[t].Place = "final" => FinalAssets(t) \subseteq files
      BY <3>2 DEF Kept, Life, Bytes
    <3> HIDE DEF m
    <3>4. m.CreatedFiles \cup m.StagingFiles \cup m.Orphans \subseteq Own(t) BY <1>2, <3>1
    <3> QED BY <1>13, <2>0, <2>3, <3>1, <3>3, <3>4 DEF m, Prepared
  <2> QED BY <2>1, <2>2, <2>3
<1>15. ASSUME Recover(t) PROVE Goal
  <2>0. /\ job[t].at = "recover" /\ files' = files /\ Reply(t, FALSE)
        /\ manifest' = manifest \/ manifest' = [manifest EXCEPT ![t] = Recovery(t)]
    BY <1>15 DEF Recover
  <2>1. CASE job[t].op = "import"
    <3> DEFINE m == RecordRecovery(job[t].made, job[t].orphans)
    <3>1. /\ m.State = "NEEDS_RECONCILIATION" /\ m.Place = "staging" /\ m.Orphans = job[t].orphans
          /\ m.CreatedFiles = job[t].made /\ m.StagingFiles = job[t].made
      BY DEF RecordRecovery, Create
    <3>2. Kept(t) => t \notin known /\ job[t].made \subseteq StagedAssets(t)
      BY <2>0, <2>1 DEF Kept, Hired, Working
    <3>3. Recovery(t) = m BY <2>1 DEF Recovery
    <3> HIDE DEF m
    <3>4. m.CreatedFiles \cup m.StagingFiles \cup m.Orphans \subseteq Own(t) BY <1>2, <3>1
    <3> QED BY <1>5, <1>13, <2>0, <2>1, <3>1, <3>2, <3>3, <3>4
  <2>2. CASE job[t].op # "import"
    <3> DEFINE m == [TransitionOrphans(manifest[t], "NEEDS_RECONCILIATION", job[t].orphans)
                       EXCEPT !.CreatedFiles = job[t].made]
    <3>1. /\ m.State = "NEEDS_RECONCILIATION" /\ m.Place = manifest[t].Place
          /\ m.Orphans = job[t].orphans
          /\ m.CreatedFiles = job[t].made /\ m.StagingFiles = manifest[t].StagingFiles
      BY <1>0 DEF TransitionOrphans, Manifests
    <3>2. Recovery(t) = m BY <2>2 DEF Recovery
    <3>3. Kept(t) => /\ manifest[t].StagingFiles \subseteq StagedAssets(t)
                     /\ manifest[t].Place # "final"
                     /\ t \notin known \/ manifest[t].State = "STAGED"
                     /\ Unshared(t) /\ manifest[t].State = "STAGED" => StagedAssets(t) \subseteq files
      BY <2>0, <2>2 DEF Kept, Life, Hired, Bytes, Working, Prepared
    <3> HIDE DEF m
    <3>4. m.CreatedFiles \cup m.StagingFiles \cup m.Orphans \subseteq Own(t) BY <1>2, <3>1
    <3> QED BY <1>5, <1>13, <2>0, <2>2, <3>1, <3>2, <3>3, <3>4
  <2> QED BY <2>1, <2>2
<1>16. ASSUME Settle(t) PROVE Goal
  <2>0. /\ job[t].at = "remove" /\ files' = files
        /\ \/ Reply(t, FALSE) /\ manifest' = manifest
           \/ /\ AllowedTransition(manifest[t].State, Settled(t).State)
              /\ manifest' = [manifest EXCEPT ![t] = Settled(t)]
              /\ Reply(t, job[t].orphans = {})
    BY <1>16 DEF Settle
  <2> DEFINE m == Settled(t)
  <2>1. /\ m.CreatedFiles = manifest[t].CreatedFiles /\ m.StagingFiles = manifest[t].StagingFiles
        /\ m.Place = manifest[t].Place /\ m.Orphans \in {manifest[t].Orphans, job[t].orphans, {}}
        /\ job[t].op \in {"commit", "reconcile"}
             => /\ m.State \in {"NEEDS_RECONCILIATION", "COMMITTED"}
                /\ m.Orphans \in {job[t].orphans, {}}
    BY <1>0 DEF Settled, TransitionOrphans, Transition, Manifests
  <2>2. Kept(t) => /\ job[t].op \in {"commit", "reconcile"} /\ manifest[t].Place = "final"
                   /\ job[t].orphans \subseteq StagedAssets(t)
                   /\ manifest[t].StagingFiles \subseteq StagedAssets(t)
                   /\ Unshared(t) => FinalAssets(t) \subseteq files
    BY <2>0 DEF Kept, Hired, Life, Bytes
  <2> HIDE DEF m
  <2>3. m.CreatedFiles \cup m.StagingFiles \cup m.Orphans \subseteq Own(t) BY <1>2, <2>1
  <2>4. Kept(t) => m.Place = "final" /\ m.State \in Prepared \ {"STAGED"} /\ m.State # "NONE"
    BY <2>1, <2>2 DEF Prepared
  <2>5. CASE manifest' = [manifest EXCEPT ![t] = m] /\ Reply(t, job[t].orphans = {})
    <3>1. (job[t].orphans = {}) \in BOOLEAN OBVIOUS
    <3>2. Kept(t) => m.Orphans \subseteq StagedAssets(t) BY <2>1, <2>2
    <3>3. Kept(t) => m.State # "STAGED" BY <2>4
    <3> QED BY <1>13, <2>0, <2>1, <2>2, <2>3, <2>4, <2>5, <3>1, <3>2, <3>3
  <2> QED BY <1>5, <2>0, <2>5 DEF m
<1>17. Goal
  BY <1>6, <1>7, <1>8, <1>9, <1>10, <1>11, <1>12, <1>14, <1>15, <1>16 DEF Work, Goal
<1> QED BY <1>17 DEF Goal
-----------------------------------------------------------------------------
(* Emacs: types *)

\* EmacsTypeOK without the loops, which ClientInv and Visited cover.
TextTypes ==
  /\ live \in [Buffers -> BOOLEAN] /\ named \in [Buffers -> BOOLEAN]
  /\ link \in [Txs -> Links] /\ disk \in [Txs -> Links] /\ before \in [Txs -> Links]
  /\ import \in [Txs -> {"new", "fresh", "stale", "done"}]
  /\ saveFaults \in 0..MaxSaveFaults
  /\ known \subseteq Txs /\ discarded \subseteq known
  /\ \A t \in Txs : mentioned[t] = (disk[t] # "none")

LEMMA TypeParts ==
  ASSUME ClientInv
  PROVE  (\A b \in Buffers : Visited(b)) => (EmacsTypeOK <=> TextTypes)
<1>1. listed \in [Buffers -> SUBSET Txs] /\ doing \in [Buffers -> Doings] BY DEF ClientInv
<1> QED BY <1>1 DEF EmacsTypeOK, TextTypes, Visited

(* Editing a buffer and writing it keep the types. *)
LEMMA TextSteps ==
  ASSUME TextTypes, NEW b \in Buffers
  PROVE  /\ Touch(b) => import' \in [Txs -> {"new", "fresh", "stale", "done"}]
         /\ WriteBuffer(b) => /\ disk' \in [Txs -> Links]
                              /\ \A t \in Txs : mentioned'[t] = (disk'[t] # "none")
         /\ SaveError(b) => /\ link' \in [Txs -> Links]
                            /\ import' \in [Txs -> {"new", "fresh", "stale", "done"}]
<1>1. Touch(b) => import' \in [Txs -> {"new", "fresh", "stale", "done"}]
  BY DEF Touch, TextTypes
<1>2. WriteBuffer(b) => /\ disk' \in [Txs -> Links]
                        /\ \A t \in Txs : mentioned'[t] = (disk'[t] # "none")
  BY DEF WriteBuffer, TextTypes
<1>3. SaveError(b) => link' \in [Txs -> Links] BY DEF SaveError, TextTypes
<1> QED BY <1>1, <1>2, <1>3 DEF SaveError

(* What a step leaves alone of the types. *)
LEMMA TextTypesKept ==
  ASSUME ClientInv, TextTypes, \A b \in Buffers : Visited(b), ENext
  PROVE  TextTypes'
<1>0. /\ live \in [Buffers -> BOOLEAN] /\ named \in [Buffers -> BOOLEAN]
      /\ link \in [Txs -> Links] /\ disk \in [Txs -> Links] /\ before \in [Txs -> Links]
      /\ import \in [Txs -> {"new", "fresh", "stale", "done"}]
      /\ saveFaults \in 0..MaxSaveFaults /\ MaxSaveFaults \in Nat
      /\ known \subseteq Txs /\ discarded \subseteq known
      /\ \A t \in Txs : mentioned[t] = (disk[t] # "none")
  BY EmacsAssumption DEF TextTypes
<1>1. ASSUME NEW b \in Buffers, User(b) PROVE TextTypes'
  <2>1. CASE Type(b)
    BY <1>0, <2>1, TextSteps DEF Type, TextTypes, vars, bufferVars, saveVars, history
  <2>2. CASE SetVisited(b)
    BY <1>0, <2>2 DEF SetVisited, TextTypes, vars, textVars, saveVars, history
  <2>3. CASE FirstSave(b)
    BY <1>0, <2>3, TextSteps DEF FirstSave, TextTypes, textVars, saveVars, history
  <2>4. CASE PlainSave(b)
    BY <1>0, <2>4, TextSteps DEF PlainSave, TextTypes, bufferVars, textVars, saveVars, history
  <2>5. CASE BeginSave(b)
    BY <1>0, <2>5 DEF BeginSave, TextTypes, vars, bufferVars, textVars, history
  <2>6. CASE BeginKill(b)
    BY <1>0, <2>6 DEF BeginKill, TextTypes, vars, bufferVars, textVars, saveVars, history
  <2>7. CASE Quit(b)
    BY <1>0, <2>7 DEF Quit, Dismiss, TextTypes, bufferVars, textVars, saveVars, history
  <2>8. CASE Crash(b)
    BY <1>0, <2>8 DEF Crash, Leave, TextTypes, vars, textVars, saveVars, history
  <2> QED BY <1>1, <2>1, <2>2, <2>3, <2>4, <2>5, <2>6, <2>7, <2>8 DEF User
<1>2. ASSUME NEW b \in Buffers, SaveStep(b) \/ KillStep(b) PROVE TextTypes'
  <2>1. CASE WriteDocument(b)
    BY <1>0, <2>1, TextSteps DEF WriteDocument, TextTypes, bufferVars, textVars, saveVars, history
  <2>2. CASE WriteDocumentFails(b)
    BY <1>0, <2>2, TextSteps DEF WriteDocumentFails, TextTypes, vars, bufferVars, history
  <2>3. CASE EndSave(b)
    BY <1>0, <2>3 DEF EndSave, TextTypes, vars, bufferVars, textVars, saveVars, history
  <2>4. CASE EndKill(b)
    BY <1>0, <2>4 DEF EndKill, Leave, TextTypes, vars, textVars, saveVars, history
  <2>5. ASSUME NEW t \in Of(b),
               \/ CallFinalize(t) \/ PrepareReply(t) \/ CallReconcile(t)
               \/ DropSettled(t) \/ CallDocumentSaved(t) \/ DocumentSavedReply(t)
               \/ CallCommit(t) \/ CommitReply(t) \/ CallAbort(t) \/ AbortReply(t)
        PROVE  TextTypes'
    <3>0. t \in Txs /\ Home[t] = b BY DEF Of
    <3>1. CASE CallFinalize(t) \/ CallDocumentSaved(t)
      BY <1>0, <3>1 DEF CallFinalize, CallDocumentSaved, Call, StartFinalize, StartDocumentSaved,
                        TextTypes, bufferVars, textVars, saveVars, history
    <3>2. CASE CallAbort(t)
      <4>1. t \in known BY <3>0, <3>2 DEF CallAbort, Ready, Visited
      <4> QED BY <1>0, <3>2, <4>1 DEF CallAbort, Call, StartAbort, TextTypes, bufferVars,
                                      textVars, saveVars
    <3>3. CASE PrepareReply(t)
      <4>1. CASE Rewrite(t)
        <5>1. link' \in [Txs -> Links] BY <1>0, <4>1 DEF Rewrite, Links
        <5>2. import' \in [Txs -> {"new", "fresh", "stale", "done"}]
          BY <1>0, <3>0, <4>1, TextSteps DEF Rewrite
        <5> QED BY <1>0, <3>3, <5>1, <5>2 DEF PrepareReply, Replied, Dismiss, TextTypes,
                                              bufferVars, saveVars, history
      <4>2. CASE UNCHANGED textVars
        BY <1>0, <3>3, <4>2 DEF PrepareReply, Replied, Dismiss, TextTypes, bufferVars,
                                textVars, saveVars, history
      <4>3. CASE SaveError(Home[t])
        <5>1. link' \in [Txs -> Links] /\ import' \in [Txs -> {"new", "fresh", "stale", "done"}]
          BY <3>0, <4>3, TextSteps
        <5> QED BY <1>0, <3>3, <5>1 DEF PrepareReply, Replied, Dismiss, TextTypes, bufferVars,
                                        saveVars, history
      <4> QED BY <3>3, <4>1, <4>2, <4>3 DEF PrepareReply
    <3>4. CASE CallReconcile(t) \/ CallCommit(t)
      BY <1>0, <3>4 DEF CallReconcile, CallCommit, CallAgain, StartReconcile, StartCommit,
                        TextTypes, emacsVars, bufferVars, textVars, saveVars, history
    <3>5. CASE DropSettled(t)
      BY <1>0, <3>5 DEF DropSettled, TextTypes, vars, textVars, saveVars, history
    <3>6. CASE DocumentSavedReply(t) \/ CommitReply(t) \/ AbortReply(t)
      BY <1>0, <3>6 DEF DocumentSavedReply, CommitReply, AbortReply, Replied, Dismiss, TextTypes,
                        bufferVars, textVars, saveVars, history
    <3> QED BY <2>5, <3>1, <3>2, <3>3, <3>4, <3>5, <3>6
  <2> QED BY <1>2, <2>1, <2>2, <2>3, <2>4, <2>5 DEF SaveStep, KillStep
<1>3. ASSUME NEW t \in Txs, Paste(t) \/ EditOut(t) \/ ImportReply(t) \/ HelperStep(t)
      PROVE  TextTypes'
  <2>0. Home[t] \in Buffers BY ConstantsAssumption
  <2>1. CASE Paste(t)
    BY <1>0, <2>1 DEF Paste, StartImport, StartImportOwned, TextTypes, bufferVars, saveVars, history
  <2>2. CASE EditOut(t)
    <3>1. link' \in [Txs -> Links] BY <1>0, <2>2 DEF EditOut, Links
    <3> QED BY <1>0, <2>0, <2>2, <3>1, TextSteps
            DEF EditOut, TextTypes, vars, bufferVars, saveVars, history
  <2>3. CASE ImportReply(t)
    <3>1. CASE FinishImport(t)
      <4>1. link' \in [Txs -> Links] BY <1>0, <3>1 DEF FinishImport, InsertedLink, Links
      <4>2. import' \in [Txs -> {"new", "fresh", "stale", "done"}] BY <1>0, <3>1 DEF FinishImport
      <4>3. known' \subseteq Txs /\ known \subseteq known' BY <1>0, <3>1 DEF FinishImport
      <4> QED BY <1>0, <2>3, <4>1, <4>2, <4>3 DEF ImportReply, Dismiss, TextTypes, saveVars
    <3>2. CASE UNCHANGED <<link, listed, known>> /\ import' = [import EXCEPT ![t] = "done"]
      BY <1>0, <2>3, <3>2 DEF ImportReply, Dismiss, TextTypes, saveVars
    <3> QED BY <2>3, <3>1, <3>2 DEF ImportReply
  <2>4. CASE HelperStep(t)
    <3>1. mentioned' = mentioned
      BY <2>4 DEF HelperStep, Work, Die, PublishOne, PublishFails, PublishDone, WriteManifest,
                  WriteFails, RemoveOne, RemoveFails, Compensated, Recover, Settle
    <3> QED BY <1>0, <2>4, <3>1 DEF HelperStep, TextTypes, emacsVars, bufferVars, textVars,
                                   saveVars, history
  <2> QED BY <1>3, <2>1, <2>2, <2>3, <2>4
<1> QED BY <1>1, <1>2, <1>3 DEF ENext
-----------------------------------------------------------------------------
(* Emacs: loops *)

(* What the operators of the loops write, field by field. *)
LEMMA LoopEffects ==
  ASSUME ClientInv, NEW t \in Txs, NEW b, b = Home[t]
  PROVE  /\ \A at : Advance(t, at) =>
              /\ \A c \in Buffers \ {b} : doing'[c] = doing[c]
              /\ doing'[b].at = at /\ doing'[b].call = NoTx
              /\ doing'[b].todo \subseteq doing[b].todo
              /\ doing'[b].batch = doing[b].batch /\ doing'[b].settled = doing[b].settled
         /\ Call(t) =>
              /\ \A c \in Buffers \ {b} : doing'[c] = doing[c]
              /\ doing'[b].at = doing[b].at /\ doing'[b].call = t
              /\ doing'[b].todo = doing[b].todo
              /\ doing'[b].batch = doing[b].batch /\ doing'[b].settled = doing[b].settled
         /\ Rewrite(t) =>
              /\ \A c \in Buffers \ {b} : doing'[c] = doing[c]
              /\ doing'[b].at = "prepare" /\ doing'[b].call = NoTx
              /\ doing'[b].todo \subseteq doing[b].todo
              /\ doing'[b].batch = doing[b].batch
              /\ doing'[b].settled \subseteq doing[b].settled \cup {t}
<1>0. b \in Buffers /\ doing \in [Buffers -> Doings] /\ doing[b] \in Doings
  BY ConstantsAssumption DEF ClientInv
<1>1. ASSUME NEW at, Advance(t, at)
      PROVE  /\ \A c \in Buffers \ {b} : doing'[c] = doing[c]
             /\ doing'[b].at = at /\ doing'[b].call = NoTx
             /\ doing'[b].todo \subseteq doing[b].todo
             /\ doing'[b].batch = doing[b].batch /\ doing'[b].settled = doing[b].settled
  BY <1>0, <1>1 DEF Advance, Doings
<1>2. ASSUME Call(t)
      PROVE  /\ \A c \in Buffers \ {b} : doing'[c] = doing[c]
             /\ doing'[b].at = doing[b].at /\ doing'[b].call = t
             /\ doing'[b].todo = doing[b].todo
             /\ doing'[b].batch = doing[b].batch /\ doing'[b].settled = doing[b].settled
  BY <1>0, <1>2 DEF Call, Doings
<1>3. ASSUME Rewrite(t)
      PROVE  /\ \A c \in Buffers \ {b} : doing'[c] = doing[c]
             /\ doing'[b].at = "prepare" /\ doing'[b].call = NoTx
             /\ doing'[b].todo \subseteq doing[b].todo
             /\ doing'[b].batch = doing[b].batch
             /\ doing'[b].settled \subseteq doing[b].settled \cup {t}
  BY <1>0, <1>3 DEF Rewrite, Doings
<1> QED BY <1>1, <1>2, <1>3

LEMMA PhaseEffect ==
  ASSUME ClientInv, NEW b \in Buffers, NEW at, doing' = [doing EXCEPT ![b].at = at]
  PROVE  /\ \A c \in Buffers \ {b} : doing'[c] = doing[c]
         /\ doing'[b].at = at /\ doing'[b].call = doing[b].call
         /\ doing'[b].todo = doing[b].todo
         /\ doing'[b].batch = doing[b].batch /\ doing'[b].settled = doing[b].settled
<1>1. doing \in [Buffers -> Doings] /\ doing[b] \in Doings BY DEF ClientInv
<1> QED BY <1>1 DEF Doings

LEMMA RestEffect ==
  ASSUME ClientInv, NEW b \in Buffers, doing' = [doing EXCEPT ![b] = Rest]
  PROVE  /\ \A c \in Buffers \ {b} : doing'[c] = doing[c]
         /\ doing'[b].at = "rest" /\ doing'[b].call = NoTx /\ doing'[b].todo = {}
         /\ doing'[b].batch = {} /\ doing'[b].settled = {}
BY DEF ClientInv, Rest

(* Lists and loops never reach beyond the recorded transactions of the buffer. *)
LEMMA VisitedKept ==
  ASSUME ClientInv, TextTypes, \A b \in Buffers : Visited(b), ENext
  PROVE  \A b \in Buffers : Visited(b)'
<1>0. /\ listed \in [Buffers -> SUBSET Txs] /\ doing \in [Buffers -> Doings]
      /\ NoTx \notin Txs
  BY EmacsAssumption DEF ClientInv
(* It suffices to look at one buffer. *)
<1>1. ASSUME NEW b \in Buffers, known \subseteq known',
             \A c \in Buffers \ {b} : listed'[c] = listed[c] /\ doing'[c] = doing[c],
             listed'[b] \cup doing'[b].todo \cup doing'[b].batch \cup doing'[b].settled
               \subseteq Of(b) \cap known',
             doing'[b].call # NoTx => doing'[b].call \in doing'[b].todo,
             doing'[b].at = "rest" => doing'[b].call = NoTx
      PROVE  \A c \in Buffers : Visited(c)'
  <2>1. \A c \in Buffers : Of(c)' = Of(c) BY DEF Of
  <2>2. \A c \in Buffers \ {b} : Visited(c)' BY <1>1, <2>1 DEF Visited
  <2>3. Visited(b)' BY <1>1, <2>1 DEF Visited
  <2> QED BY <2>2, <2>3
<1>2. ASSUME UNCHANGED <<listed, doing>>, known' = known
      PROVE  \A c \in Buffers : Visited(c)'
  BY <1>2 DEF Visited, Of
<1>3. ASSUME NEW b \in Buffers, doing' = [doing EXCEPT ![b] = Rest], known' = known,
             listed' = listed \/ listed' = [listed EXCEPT ![b] = {}]
      PROVE  \A c \in Buffers : Visited(c)'
  <2>1. Visited(b) OBVIOUS
  <2>2. /\ listed'[b] \subseteq listed[b] /\ listed[b] \subseteq Of(b) \cap known
        /\ \A c \in Buffers \ {b} : listed'[c] = listed[c]
    BY <1>0, <1>3, <2>1 DEF Visited
  <2>3. /\ \A c \in Buffers \ {b} : doing'[c] = doing[c]
        /\ doing'[b].at = "rest" /\ doing'[b].call = NoTx /\ doing'[b].todo = {}
        /\ doing'[b].batch = {} /\ doing'[b].settled = {}
    BY <1>3, RestEffect
  <2> QED BY <1>1, <1>3, <2>2, <2>3
<1>4. ASSUME NEW b \in Buffers, User(b) PROVE \A c \in Buffers : Visited(c)'
  <2>0. Visited(b) OBVIOUS
  <2>1. CASE Type(b) \/ SetVisited(b) \/ FirstSave(b) \/ PlainSave(b)
    BY <1>2, <2>1 DEF Type, SetVisited, FirstSave, PlainSave, bufferVars, history
  <2>2. CASE BeginSave(b)
    <3>1. /\ \A c \in Buffers \ {b} : doing'[c] = doing[c]
          /\ doing'[b].at = "prepare" /\ doing'[b].call = NoTx /\ doing'[b].todo = listed[b]
          /\ doing'[b].batch = listed[b] /\ doing'[b].settled = {}
      BY <1>0, <2>2 DEF BeginSave, Rest
    <3> QED BY <1>1, <2>0, <2>2, <3>1 DEF BeginSave, Visited, bufferVars, history
  <2>3. CASE BeginKill(b)
    <3>1. /\ \A c \in Buffers \ {b} : doing'[c] = doing[c]
          /\ doing'[b].at = "kill" /\ doing'[b].call = doing[b].call /\ doing'[b].todo = listed[b]
          /\ doing'[b].batch = doing[b].batch /\ doing'[b].settled = doing[b].settled
      BY <1>0, <2>3 DEF BeginKill, Doings
    <3>2. doing[b].call = NoTx BY <2>0, <2>3 DEF BeginKill, AtRest, Visited
    <3> QED BY <1>1, <2>0, <2>3, <3>1, <3>2 DEF BeginKill, Visited, bufferVars, history
  <2>4. CASE Quit(b) BY <1>3, <2>4 DEF Quit, bufferVars, history
  <2>5. CASE Crash(b) BY <1>3, <2>5 DEF Crash, Leave, history
  <2> QED BY <1>4, <2>1, <2>2, <2>3, <2>4, <2>5 DEF User
<1>5. ASSUME NEW b \in Buffers, SaveStep(b) \/ KillStep(b)
      PROVE  \A c \in Buffers : Visited(c)'
  <2>0. Visited(b) OBVIOUS
  <2>1. CASE WriteDocument(b)
    <3>1. /\ \A c \in Buffers \ {b} : doing'[c] = doing[c]
          /\ doing'[b].at = "saved" /\ doing'[b].call = doing[b].call
          /\ doing'[b].todo = doing[b].batch
          /\ doing'[b].batch = doing[b].batch /\ doing'[b].settled = doing[b].settled
      BY <1>0, <2>1 DEF WriteDocument, Doings
    <3> QED BY <1>1, <2>0, <2>1, <3>1 DEF WriteDocument, AllPrepared, Visited, bufferVars, history
  <2>2. CASE WriteDocumentFails(b)
    BY <1>3, <2>2 DEF WriteDocumentFails, SaveError, bufferVars, history
  <2>3. CASE EndSave(b) BY <1>3, <2>3 DEF EndSave, bufferVars, history
  <2>4. CASE EndKill(b) BY <1>3, <2>4 DEF EndKill, Leave, history
  <2>5. ASSUME NEW t \in Of(b),
               \/ CallFinalize(t) \/ PrepareReply(t) \/ CallReconcile(t)
               \/ DropSettled(t) \/ CallDocumentSaved(t) \/ DocumentSavedReply(t)
               \/ CallCommit(t) \/ CommitReply(t) \/ CallAbort(t) \/ AbortReply(t)
        PROVE  \A c \in Buffers : Visited(c)'
    <3>0. t \in Txs /\ Home[t] = b BY DEF Of
    <3>1. ASSUME NEW at, Advance(t, at), at # "rest", known' = known,
                 listed' = listed \/ listed' = [listed EXCEPT ![b] = @ \ {t}]
          PROVE  \A c \in Buffers : Visited(c)'
      <4>1. /\ \A c \in Buffers \ {b} : doing'[c] = doing[c]
            /\ doing'[b].at = at /\ doing'[b].call = NoTx
            /\ doing'[b].todo \subseteq doing[b].todo
            /\ doing'[b].batch = doing[b].batch /\ doing'[b].settled = doing[b].settled
        BY <3>0, <3>1, LoopEffects
      <4>2. listed'[b] \subseteq listed[b] /\ \A c \in Buffers \ {b} : listed'[c] = listed[c]
        BY <1>0, <3>1
      <4> QED BY <1>1, <2>0, <3>1, <4>1, <4>2 DEF Visited
    <3>2. ASSUME Call(t), t \in doing[b].todo, doing[b].at # "rest", known' = known
          PROVE  \A c \in Buffers : Visited(c)'
      <4>1. /\ \A c \in Buffers \ {b} : doing'[c] = doing[c]
            /\ doing'[b].at = doing[b].at /\ doing'[b].call = t
            /\ doing'[b].todo = doing[b].todo
            /\ doing'[b].batch = doing[b].batch /\ doing'[b].settled = doing[b].settled
        BY <3>0, <3>2, LoopEffects
      <4>2. listed' = listed BY <3>2 DEF Call, bufferVars
      <4> QED BY <1>1, <2>0, <3>2, <4>1, <4>2 DEF Visited
    <3>3. ASSUME NEW at, doing' = [doing EXCEPT ![b].at = at], at # "rest",
                 UNCHANGED <<listed, known>>
          PROVE  \A c \in Buffers : Visited(c)'
      <4>1. /\ \A c \in Buffers \ {b} : doing'[c] = doing[c]
            /\ doing'[b].at = at /\ doing'[b].call = doing[b].call
            /\ doing'[b].todo = doing[b].todo
            /\ doing'[b].batch = doing[b].batch /\ doing'[b].settled = doing[b].settled
        BY <3>3, PhaseEffect
      <4> QED BY <1>1, <2>0, <3>3, <4>1 DEF Visited
    <3>4. CASE CallFinalize(t) \/ CallDocumentSaved(t) \/ CallAbort(t)
      BY <3>0, <3>2, <3>4 DEF CallFinalize, CallDocumentSaved, CallAbort, Ready, history
    <3>5. CASE PrepareReply(t)
      <4>0. UNCHANGED <<listed, known>> BY <3>5 DEF PrepareReply, bufferVars, history
      <4>1. CASE Rewrite(t)
        <5>1. /\ \A c \in Buffers \ {b} : doing'[c] = doing[c]
              /\ doing'[b].at = "prepare" /\ doing'[b].call = NoTx
              /\ doing'[b].todo \subseteq doing[b].todo
              /\ doing'[b].batch = doing[b].batch
              /\ doing'[b].settled \subseteq doing[b].settled \cup {t}
          BY <3>0, <4>1, LoopEffects
        <5>2. t \in Of(b) \cap known
          <6>1. doing[b].call = t /\ t # NoTx BY <1>0, <3>0, <3>5 DEF PrepareReply, Replied
          <6> QED BY <2>0, <6>1 DEF Visited
        <5> QED BY <1>1, <2>0, <4>0, <5>1, <5>2 DEF Visited
      <4>2. CASE SaveError(Home[t]) BY <1>3, <3>0, <4>0, <4>2 DEF SaveError
      <4> QED BY <3>0, <3>3, <3>5, <4>0, <4>1, <4>2 DEF PrepareReply
    <3>6. CASE CallReconcile(t) \/ CallCommit(t)
      BY <1>2, <3>6 DEF CallReconcile, CallCommit, CallAgain, emacsVars, bufferVars, history
    <3>7. CASE DropSettled(t) BY <3>0, <3>1, <3>7 DEF DropSettled, history
    <3>8. CASE DocumentSavedReply(t)
      BY <3>0, <3>1, <3>3, <3>8 DEF DocumentSavedReply, bufferVars, history
    <3>9. CASE CommitReply(t)
      <4>1. listed' = listed \/ listed' = [listed EXCEPT ![b] = @ \ {t}]
        BY <1>0, <3>0, <3>9 DEF CommitReply
      <4> QED BY <3>0, <3>1, <3>9, <4>1 DEF CommitReply, history
    <3>10. CASE AbortReply(t) BY <3>0, <3>1, <3>10 DEF AbortReply, bufferVars, history
    <3> QED BY <2>5, <3>4, <3>5, <3>6, <3>7, <3>8, <3>9, <3>10
  <2> QED BY <1>5, <2>1, <2>2, <2>3, <2>4, <2>5 DEF SaveStep, KillStep
<1>6. ASSUME NEW t \in Txs, Paste(t) \/ EditOut(t) \/ ImportReply(t) \/ HelperStep(t)
      PROVE  \A c \in Buffers : Visited(c)'
  <2>1. CASE Paste(t) \/ EditOut(t) \/ HelperStep(t)
    BY <1>2, <2>1 DEF Paste, EditOut, HelperStep, emacsVars, bufferVars, history
  <2>2. CASE ImportReply(t)
    <3>1. doing' = doing BY <2>2 DEF ImportReply
    <3>2. CASE UNCHANGED <<listed, known>> BY <1>2, <3>1, <3>2
    <3>3. CASE listed' = [listed EXCEPT ![Home[t]] = @ \cup {t}] /\ known' = known \cup {t}
      <4> DEFINE b == Home[t]
      <4>1. b \in Buffers /\ t \in Of(b) BY ConstantsAssumption DEF Of
      <4>2. Visited(b) BY <4>1
      <4>3. listed'[b] = listed[b] \cup {t} /\ \A c \in Buffers \ {b} : listed'[c] = listed[c]
        BY <1>0, <3>3, <4>1
      <4> HIDE DEF b
      <4> QED BY <1>1, <3>1, <3>3, <4>1, <4>2, <4>3 DEF Visited
    <3> QED BY <2>2, <3>2, <3>3 DEF ImportReply, FinishImport
  <2> QED BY <1>6, <2>1, <2>2
<1> QED BY <1>4, <1>5, <1>6 DEF ENext
-----------------------------------------------------------------------------
(* What Emacs lets the helper of one transaction do *)

Still == UNCHANGED <<manifest, files, job, known, discarded>>

Served(t) ==
  \/ /\ StartImport(t) \/ StartImportOwned(t)
     /\ t \notin known /\ job[t].at = "idle" /\ UNCHANGED <<known, discarded>>
  \/ /\ StartFinalize(t) \/ StartDocumentSaved(t) \/ StartCommit(t) \/ StartReconcile(t)
     /\ job[t].at = "idle" /\ UNCHANGED <<known, discarded>>
  \/ /\ StartAbort(t) /\ job[t].at = "idle"
     /\ known' = known /\ discarded' = discarded \cup {t}
  \/ Dismiss(t) /\ UNCHANGED <<known, discarded>>
  \/ /\ Dismiss(t) /\ job[t].op = "import" /\ job[t].at = "replied" /\ job[t].ok
     /\ known' = known \cup {t} /\ UNCHANGED discarded
  \/ (Work(t) \/ Die(t)) /\ UNCHANGED <<known, discarded>>

(* Every step of the composition is one of these. *)
LEMMA HelperCases ==
  ASSUME ClientInv, \A t \in Txs : Unborn(t), ENext
  PROVE  Still \/ \E t \in Txs : Served(t)
<1>1. ASSUME NEW b \in Buffers, User(b) PROVE Still \/ \E t \in Txs : Served(t)
  <2>1. CASE Quit(b)
    <3>1. doing[b].call \in Txs BY <2>1 DEF Quit, ClientInv, Doings
    <3> QED BY <2>1, <3>1 DEF Quit, history, Served
  <2>2. CASE Type(b) \/ SetVisited(b) \/ FirstSave(b) \/ PlainSave(b) \/ BeginSave(b)
             \/ BeginKill(b) \/ Crash(b)
    BY <2>2 DEF Type, SetVisited, FirstSave, PlainSave, BeginSave, BeginKill, Crash, Leave,
                WriteBuffer, Still, vars, history
  <2> QED BY <1>1, <2>1, <2>2 DEF User
<1>2. ASSUME NEW b \in Buffers, SaveStep(b) \/ KillStep(b)
      PROVE  Still \/ \E t \in Txs : Served(t)
  <2>1. CASE WriteDocument(b) \/ WriteDocumentFails(b) \/ EndSave(b) \/ EndKill(b)
    BY <2>1 DEF WriteDocument, WriteDocumentFails, EndSave, EndKill, Leave, WriteBuffer, Still,
                vars, history
  <2>2. ASSUME NEW t \in Of(b),
               \/ CallFinalize(t) \/ PrepareReply(t) \/ CallReconcile(t)
               \/ DropSettled(t) \/ CallDocumentSaved(t) \/ DocumentSavedReply(t)
               \/ CallCommit(t) \/ CommitReply(t) \/ CallAbort(t) \/ AbortReply(t)
        PROVE  Still \/ Served(t)
    <3>1. CASE DropSettled(t) BY <3>1 DEF DropSettled, Still, vars, history
    <3>2. CASE \/ PrepareReply(t) \/ DocumentSavedReply(t) \/ CommitReply(t) \/ AbortReply(t)
      BY <3>2 DEF PrepareReply, DocumentSavedReply, CommitReply, AbortReply, Replied, Served, history
    <3>3. CASE CallFinalize(t) \/ CallDocumentSaved(t) \/ CallAbort(t)
      BY <3>3 DEF CallFinalize, CallDocumentSaved, CallAbort, Call, Served, history
    <3>4. CASE CallReconcile(t) \/ CallCommit(t)
      BY <3>4 DEF CallReconcile, CallCommit, CallAgain, emacsVars, Served, history
    <3> QED BY <2>2, <3>1, <3>2, <3>3, <3>4
  <2>3. \A t \in Of(b) : t \in Txs BY DEF Of
  <2> QED BY <1>2, <2>1, <2>2, <2>3 DEF SaveStep, KillStep
<1>3. ASSUME NEW t \in Txs, Paste(t) \/ EditOut(t) \/ ImportReply(t) \/ HelperStep(t)
      PROVE  Still \/ Served(t)
  <2>1. CASE Paste(t)
    <3>1. t \notin known BY <2>1 DEF Paste, Unborn
    <3> QED BY <2>1, <3>1 DEF Paste, Served, history
  <2>2. CASE EditOut(t) BY <2>2 DEF EditOut, Still, vars, history
  <2>3. CASE ImportReply(t) BY <2>3 DEF ImportReply, FinishImport, Served
  <2>4. CASE HelperStep(t) BY <2>4 DEF HelperStep, emacsVars, history, Served
  <2> QED BY <1>3, <2>1, <2>2, <2>3, <2>4
<1> QED BY <1>1, <1>2, <1>3 DEF ENext

(* A helper that dies only says no. *)
LEMMA DieKept ==
  ASSUME TypeOK, NEW t \in Txs, OwnPaths(t), Die(t), t \in known' <=> t \in known
  PROVE  /\ OwnPaths(t)' /\ (Kept(t) => Kept(t)')
         /\ \A u \in Txs \ {t} : job'[u] = job[u]
         /\ UNCHANGED <<manifest, files>>
         /\ job'[t].op = job[t].op /\ job'[t].at = "replied" /\ ~ job'[t].ok
<1>1. job \in [Txs -> Jobs] /\ UNCHANGED <<manifest, files>> BY DEF TypeOK, Die
<1>2. /\ \A u \in Txs \ {t} : job'[u] = job[u]
      /\ job'[t].op = job[t].op /\ job'[t].at = "replied" /\ ~ job'[t].ok
      /\ job'[t].left = {} /\ job'[t].made = {} /\ job'[t].doomed = {} /\ job'[t].orphans = {}
  BY <1>1 DEF Die, Reply, Answer, NoJob
<1>3. StagedAssets(t)' = StagedAssets(t) /\ FinalAssets(t)' = FinalAssets(t) /\ Own(t)' = Own(t)
  BY DEF Own, StagedAssets, FinalAssets, StagingPath, FinalPath
<1>4. OwnPaths(t)' BY <1>1, <1>2, <1>3 DEF OwnPaths, Removable
<1>5. Life(t) => Life(t)' BY <1>1, <1>3 DEF Life
<1>6. Hired(t) => Hired(t)' BY <1>1, <1>2 DEF Hired, Working
<1>7. Bytes(t) => Bytes(t)' BY <1>1, <1>2, <1>3 DEF Bytes
<1> QED BY <1>1, <1>2, <1>4, <1>5, <1>6, <1>7 DEF Kept, Unshared

(* One transaction is served: it stays kept unless it is discarded, and so do the others. *)
LEMMA ServedKept ==
  ASSUME TypeOK, \A u \in Txs : OwnPaths(u), NEW t \in Txs, Served(t), NEW u \in Txs
  PROVE  OwnPaths(u)' /\ (u \notin discarded' /\ Kept(u) => Kept(u)')
<1>0. OwnPaths(t) /\ OwnPaths(u) /\ (u # t => (u \in known' <=> u \in known))
  BY DEF Served
<1>1. ASSUME \A v \in Txs \ {t} : job'[v] = job[v] /\ manifest'[v] = manifest[v],
             files \ Own(t) \subseteq files', u # t
      PROVE  OwnPaths(u)' /\ (Kept(u) => Kept(u)')
  <2>1. Unshared(u) => files \cap Own(u) \subseteq files'
    <3>1. Unshared(u) => Own(u) \cap Own(t) = {} BY <1>1, OwnAlone
    <3> QED BY <1>1, <3>1
  <2>2. job'[u] = job[u] /\ manifest'[u] = manifest[u] BY <1>1
  <2> QED BY <1>0, <1>1, <2>1, <2>2, OthersKept
<1>2. CASE /\ StartImport(t) \/ StartImportOwned(t)
           /\ t \notin known /\ job[t].at = "idle" /\ UNCHANGED <<known, discarded>>
  <2>1. Request(t) BY <1>2 DEF Request
  <2>2. OwnPaths(t)' /\ UNCHANGED <<manifest, files>> /\ \A v \in Txs \ {t} : job'[v] = job[v]
    BY <1>0, <2>1, RequestOwn
  <2>3. Kept(t) => Kept(t)' BY <1>2, RequestKept
  <2> QED BY <1>1, <2>2, <2>3
<1>3. CASE /\ StartFinalize(t) \/ StartDocumentSaved(t) \/ StartCommit(t) \/ StartReconcile(t)
           /\ job[t].at = "idle" /\ UNCHANGED <<known, discarded>>
  <2>1. Request(t) BY <1>3 DEF Request
  <2>2. OwnPaths(t)' /\ UNCHANGED <<manifest, files>> /\ \A v \in Txs \ {t} : job'[v] = job[v]
    BY <1>0, <2>1, RequestOwn
  <2>3. Kept(t) => Kept(t)' BY <1>3, RequestKept
  <2> QED BY <1>1, <2>2, <2>3
<1>4. CASE /\ StartAbort(t) /\ job[t].at = "idle"
           /\ known' = known /\ discarded' = discarded \cup {t}
  <2>1. Request(t) BY <1>4 DEF Request
  <2>2. OwnPaths(t)' /\ UNCHANGED <<manifest, files>> /\ \A v \in Txs \ {t} : job'[v] = job[v]
    BY <1>0, <2>1, RequestOwn
  <2> QED BY <1>1, <1>4, <2>2
<1>5. CASE Dismiss(t) /\ UNCHANGED <<known, discarded>>
  <2>1. OwnPaths(t)' /\ (Kept(t) => Kept(t)') /\ \A v \in Txs \ {t} : job'[v] = job[v]
    BY <1>0, <1>5, DismissKept
  <2>2. UNCHANGED <<manifest, files>> BY <1>5 DEF Dismiss
  <2> QED BY <1>1, <2>1, <2>2
<1>6. CASE /\ Dismiss(t) /\ job[t].op = "import" /\ job[t].at = "replied" /\ job[t].ok
           /\ known' = known \cup {t} /\ UNCHANGED discarded
  <2>1. OwnPaths(t)' /\ (Kept(t) => Kept(t)') /\ \A v \in Txs \ {t} : job'[v] = job[v]
    BY <1>0, <1>6, DismissKept
  <2>2. UNCHANGED <<manifest, files>> BY <1>6 DEF Dismiss
  <2> QED BY <1>1, <2>1, <2>2
<1>7. CASE Work(t) /\ UNCHANGED <<known, discarded>>
  <2>1. /\ OwnPaths(t)' /\ (Kept(t) => Kept(t)')
        /\ \A v \in Txs \ {t} : job'[v] = job[v] /\ manifest'[v] = manifest[v]
        /\ files \ Own(t) \subseteq files'
    BY <1>0, <1>7, WorkKept
  <2> QED BY <1>1, <2>1
<1>8. CASE Die(t) /\ UNCHANGED <<known, discarded>>
  <2>1. /\ OwnPaths(t)' /\ (Kept(t) => Kept(t)') /\ \A v \in Txs \ {t} : job'[v] = job[v]
        /\ UNCHANGED <<manifest, files>>
    BY <1>0, <1>8, DieKept
  <2> QED BY <1>1, <2>1
<1> QED BY <1>2, <1>3, <1>4, <1>5, <1>6, <1>7, <1>8 DEF Served

(* The bytes and the lists of all transactions, in every step of the composition. *)
LEMMA AllKept ==
  ASSUME ClientInv, KeptInv, [ENext]_allVars, NEW u \in Txs
  PROVE  OwnPaths(u)' /\ (u \notin discarded' /\ Kept(u) => Kept(u)')
<1>0. TypeOK /\ \A v \in Txs : OwnPaths(v) /\ Unborn(v) BY DEF ClientInv, KeptInv
<1>1. CASE Still
  <2>1. /\ job'[u] = job[u] /\ manifest'[u] = manifest[u] /\ files' = files
        /\ u \in known' <=> u \in known
    BY <1>1 DEF Still
  <2> QED BY <1>0, <2>1, OthersKept
<1>2. CASE \E t \in Txs : Served(t) BY <1>0, <1>2, ServedKept
<1>3. CASE UNCHANGED allVars BY <1>1, <1>3 DEF allVars, vars, emacsVars, history, Still
<1> QED BY <1>0, <1>1, <1>2, <1>3, HelperCases

(* Once final, the place of a transaction stays final. *)
LEMMA PlaceStays ==
  ASSUME TypeOK, NEW t \in Txs, Kept(t), Work(t), manifest[t].Place = "final"
  PROVE  manifest'[t].Place = "final"
<1>0. /\ manifest \in [Txs -> Manifests(Files)] /\ manifest[t] \in Manifests(Files)
      /\ manifest[t].State # "NONE"
  BY DEF TypeOK, Kept, Life, Prepared
<1>1. Working(t) => job[t].op \notin {"import", "import-owned"} BY <1>0 DEF Kept, Hired
<1>2. CASE WriteManifest(t)
  <2>1. job[t].op # "import" BY <1>1, <1>2 DEF WriteManifest, Working
  <2>2. Wanted(t).Place = "final"
    BY <1>0, <2>1 DEF Wanted, Prepare, Transition, Manifests
  <2> QED BY <1>0, <1>2, <2>2 DEF WriteManifest
<1>3. CASE Recover(t)
  <2>1. job[t].op # "import" BY <1>1, <1>3 DEF Recover, Working
  <2>2. Recovery(t).Place = "final"
    BY <1>0, <2>1 DEF Recovery, TransitionOrphans, Manifests
  <2> QED BY <1>0, <1>3, <2>2 DEF Recover
<1>4. CASE Settle(t)
  <2>1. Settled(t).Place = "final"
    BY <1>0 DEF Settled, TransitionOrphans, Transition, Manifests
  <2> QED BY <1>0, <1>4, <2>1 DEF Settle
<1>5. CASE manifest' = manifest BY <1>5
<1> QED BY <1>2, <1>3, <1>4, <1>5
        DEF Work, PublishOne, PublishFails, PublishDone, WriteFails, RemoveOne, RemoveFails,
            Compensated

LEMMA PlaceKept ==
  ASSUME ClientInv, KeptInv, [ENext]_allVars, NEW u \in Txs \ discarded,
         manifest[u].Place = "final"
  PROVE  manifest'[u].Place = "final"
<1>0. TypeOK /\ Kept(u) /\ \A v \in Txs : OwnPaths(v) /\ Unborn(v) BY DEF ClientInv, KeptInv
<1>1. CASE manifest' = manifest BY <1>1
<1>2. ASSUME NEW t \in Txs, Work(t) PROVE manifest'[u].Place = "final"
  <2>1. CASE t = u BY <1>0, <1>2, <2>1, PlaceStays
  <2>2. CASE t # u
    <3>1. manifest'[u] = manifest[u]
      BY <1>0, <1>2, <2>2 DEF TypeOK, Work, PublishOne, PublishFails, PublishDone, WriteManifest,
           WriteFails, RemoveOne, RemoveFails, Compensated, Recover, Settle
    <3> QED BY <3>1
  <2> QED BY <2>1, <2>2
<1>3. ASSUME NEW t \in Txs, Served(t) PROVE manifest' = manifest \/ Work(t)
  BY <1>3 DEF Served, StartImport, StartImportOwned, StartFinalize, StartDocumentSaved,
              StartCommit, StartReconcile, StartAbort, Dismiss, Die
<1>4. CASE UNCHANGED allVars BY <1>4 DEF allVars, vars
<1> QED BY <1>0, <1>1, <1>2, <1>3, <1>4, HelperCases DEF Still
-----------------------------------------------------------------------------
(* Emacs: links *)

\* No new kind of link: texts are copied between the buffer, its undo list and the disk.
Copied(u) ==
  /\ link'[u] \in {link[u], before[u], "none"}
  /\ before'[u] \in {before[u], link[u]}
  /\ disk'[u] \in {disk[u], link[u]}
  /\ import'[u] # "done" => import[u] # "done"
  /\ u \in known' => u \in known

(* Every step only copies the links of a transaction, rewrites them after the answer
   to its finalize or reconcile, or ends its import. *)
LEMMA LinkCases ==
  ASSUME TextTypes, ENext, NEW u \in Txs
  PROVE  \/ Copied(u)
         \/ PrepareReply(u) /\ Rewrite(u) /\ job[u].ok
            /\ (doing[Home[u]].at = "prepare" => manifest[u].State # "NEEDS_RECONCILIATION")
         \/ ImportReply(u) /\ FinishImport(u)
<1>0. /\ link \in [Txs -> Links] /\ disk \in [Txs -> Links] /\ before \in [Txs -> Links]
      /\ import \in [Txs -> {"new", "fresh", "stale", "done"}]
  BY DEF TextTypes
<1>1. ASSUME NEW b, Touch(b) PROVE import'[u] # "done" => import[u] # "done"
  BY <1>0, <1>1 DEF Touch
<1>2. ASSUME NEW b, WriteBuffer(b) PROVE disk'[u] \in {disk[u], link[u]}
  BY <1>2 DEF WriteBuffer
<1>3. ASSUME NEW b, SaveError(b)
      PROVE  link'[u] \in {link[u], before[u]} /\ (import'[u] # "done" => import[u] # "done")
  BY <1>1, <1>3 DEF SaveError
<1>4. ASSUME NEW b \in Buffers, User(b) PROVE Copied(u)
  <2>1. CASE Type(b)
    BY <1>1, <2>1 DEF Type, Copied, saveVars, history
  <2>2. CASE SetVisited(b) BY <2>2 DEF SetVisited, Copied, textVars, saveVars, history
  <2>3. CASE FirstSave(b) BY <1>2, <2>3 DEF FirstSave, Copied, textVars, saveVars, history
  <2>4. CASE PlainSave(b) BY <1>2, <2>4 DEF PlainSave, Copied, textVars, saveVars, history
  <2>5. CASE BeginSave(b) BY <2>5 DEF BeginSave, Copied, textVars, history
  <2>6. CASE BeginKill(b) \/ Quit(b) \/ Crash(b)
    BY <2>6 DEF BeginKill, Quit, Crash, Leave, Copied, textVars, saveVars, history
  <2> QED BY <1>4, <2>1, <2>2, <2>3, <2>4, <2>5, <2>6 DEF User
<1>5. ASSUME NEW b \in Buffers, SaveStep(b) \/ KillStep(b)
      PROVE  \/ Copied(u)
             \/ PrepareReply(u) /\ Rewrite(u) /\ job[u].ok
                /\ (doing[Home[u]].at = "prepare" => manifest[u].State # "NEEDS_RECONCILIATION")
  <2>1. CASE WriteDocument(b)
    BY <1>2, <2>1 DEF WriteDocument, Copied, textVars, saveVars, history
  <2>2. CASE WriteDocumentFails(b)
    BY <1>3, <2>2 DEF WriteDocumentFails, Copied, history
  <2>3. CASE EndSave(b) \/ EndKill(b)
    BY <2>3 DEF EndSave, EndKill, Leave, Copied, textVars, saveVars, history
  <2>4. ASSUME NEW t \in Of(b),
               \/ CallFinalize(t) \/ PrepareReply(t) \/ CallReconcile(t)
               \/ DropSettled(t) \/ CallDocumentSaved(t) \/ DocumentSavedReply(t)
               \/ CallCommit(t) \/ CommitReply(t) \/ CallAbort(t) \/ AbortReply(t)
        PROVE  \/ Copied(u)
               \/ PrepareReply(u) /\ Rewrite(u) /\ job[u].ok
                  /\ (doing[Home[u]].at = "prepare" => manifest[u].State # "NEEDS_RECONCILIATION")
    <3>1. CASE \/ CallFinalize(t) \/ CallReconcile(t) \/ DropSettled(t)
               \/ CallDocumentSaved(t) \/ DocumentSavedReply(t)
               \/ CallCommit(t) \/ CommitReply(t) \/ CallAbort(t) \/ AbortReply(t)
      BY <3>1 DEF CallFinalize, CallReconcile, DropSettled, CallDocumentSaved,
                  DocumentSavedReply, CallCommit, CommitReply, CallAbort, AbortReply, Call,
                  CallAgain, emacsVars, Copied, textVars, saveVars, history
    <3>2. CASE PrepareReply(t)
      <4>0. UNCHANGED <<disk, before, known>> BY <3>2 DEF PrepareReply, saveVars, history
      <4>1. CASE SaveError(Home[t]) BY <1>3, <4>0, <4>1 DEF Copied
      <4>2. CASE UNCHANGED textVars BY <4>0, <4>2 DEF Copied, textVars
      <4>3. CASE Rewrite(t) /\ t # u
        <5>1. link'[u] = link[u] BY <1>0, <4>3 DEF Rewrite
        <5>2. import'[u] # "done" => import[u] # "done" BY <1>1, <4>3 DEF Rewrite
        <5> QED BY <4>0, <5>1, <5>2 DEF Copied
      <4> QED BY <3>2, <4>1, <4>2, <4>3 DEF PrepareReply
    <3> QED BY <2>4, <3>1, <3>2
  <2> QED BY <1>5, <2>1, <2>2, <2>3, <2>4 DEF SaveStep, KillStep
<1>6. ASSUME NEW t \in Txs, Paste(t) \/ EditOut(t) \/ ImportReply(t) \/ HelperStep(t)
      PROVE  Copied(u) \/ (ImportReply(u) /\ FinishImport(u))
  <2>1. CASE Paste(t) BY <1>0, <2>1 DEF Paste, Copied, saveVars, history
  <2>2. CASE EditOut(t)
    <3>1. link'[u] \in {link[u], "none"} BY <1>0, <2>2 DEF EditOut
    <3> QED BY <1>1, <2>2, <3>1 DEF EditOut, Copied, saveVars, history
  <2>3. CASE ImportReply(t)
    <3>0. UNCHANGED <<disk, before>> BY <2>3 DEF ImportReply, saveVars
    <3>1. CASE FinishImport(t) /\ t # u
      BY <1>0, <3>0, <3>1 DEF FinishImport, Copied
    <3>2. CASE UNCHANGED <<link, listed, known>> /\ import' = [import EXCEPT ![t] = "done"]
      BY <1>0, <3>0, <3>2 DEF Copied
    <3> QED BY <2>3, <3>1, <3>2 DEF ImportReply
  <2>4. CASE HelperStep(t)
    BY <2>4 DEF HelperStep, emacsVars, Copied, textVars, saveVars, history
  <2> QED BY <1>6, <2>1, <2>2, <2>3, <2>4
<1> QED BY <1>4, <1>5, <1>6 DEF ENext

LEMMA UnbornKept ==
  ASSUME TextTypes, \A t \in Txs : Unborn(t), ENext, NEW u \in Txs
  PROVE  Unborn(u)'
<1>0. import \in [Txs -> {"new", "fresh", "stale", "done"}] /\ Unborn(u) BY DEF TextTypes
<1>1. CASE Copied(u) BY <1>0, <1>1 DEF Copied, Unborn
<1>2. CASE PrepareReply(u) /\ Rewrite(u)
  <2>1. UNCHANGED <<disk, before, known>> BY <1>2 DEF PrepareReply, saveVars, history
  <2>2. import'[u] # "done" => import[u] # "done" BY <1>0, <1>2 DEF Rewrite, Touch
  <2>3. link[u] = "none" => link'[u] = "none" BY <1>2 DEF Rewrite, TextTypes
  <2> QED BY <1>0, <2>1, <2>2, <2>3 DEF Unborn
<1>3. CASE ImportReply(u) /\ FinishImport(u)
  <2>1. import'[u] = "done" BY <1>3 DEF FinishImport
  <2> QED BY <2>1 DEF Unborn
<1> QED BY <1>1, <1>2, <1>3, LinkCases

LEMMA LinkedKept ==
  ASSUME ClientInv, TextTypes, KeptInv, ENext, NEW u \in Txs \ discarded'
  PROVE  Linked(u)'
<1>0. /\ u \in Txs /\ u \notin discarded /\ Home[u] \in Buffers
      /\ Unborn(u) /\ Kept(u) /\ Waiting(u) /\ Linked(u)
      /\ manifest \in [Txs -> Manifests(Files)] /\ manifest[u] \in Manifests(Files)
  <2>1. discarded \subseteq discarded'
    BY HelperCases DEF KeptInv, Served, Still
  <2> QED BY <2>1, ConstantsAssumption DEF KeptInv, ClientInv, TypeOK
<1>1. manifest[u].Place = "final" => manifest'[u].Place = "final" BY <1>0, PlaceKept
<1>2. CASE Copied(u)
  BY <1>0, <1>1, <1>2 DEF Copied, Linked
(* The rewritten link: its transaction is prepared. *)
<1>3. CASE PrepareReply(u) /\ Rewrite(u) /\ job[u].ok
           /\ (doing[Home[u]].at = "prepare" => manifest[u].State # "NEEDS_RECONCILIATION")
  <2>1. /\ doing[Home[u]].call = u /\ doing[Home[u]].at \in {"prepare", "reconcile"}
        /\ job[u].at = "replied"
    BY <1>3 DEF PrepareReply, Replied
  <2>2. CASE doing[Home[u]].at = "prepare"
    <3>1. manifest[u].State \in Prepared \ {"NEEDS_RECONCILIATION"}
      BY <1>0, <1>3, <2>1, <2>2 DEF Waiting, Kept, Hired
    <3>2. manifest[u].Place = "final"
      BY <1>0, <3>1 DEF Kept, Life, Prepared, Manifests
    <3> QED BY <1>1, <3>2 DEF Linked
  <2>3. CASE doing[Home[u]].at = "reconcile"
    <3>1. manifest[u].Place = "final" BY <1>0, <1>3, <2>1, <2>3 DEF Waiting
    <3> QED BY <1>1, <3>1 DEF Linked
  <2> QED BY <2>1, <2>2, <2>3
<1>4. CASE ImportReply(u) /\ FinishImport(u)
  <2>1. import[u] # "done" /\ UNCHANGED <<before, disk>>
    BY <1>4 DEF ImportReply, saveVars
  <2>2. u \in known' => job[u].op = "import"
    BY <1>0, <1>4, <2>1 DEF FinishImport, Unborn
  <2>3. job[u].op = "import" => link'[u] # "final"
    BY <1>4 DEF FinishImport, InsertedLink, TextTypes
  <2> QED BY <1>0, <2>1, <2>2, <2>3 DEF Linked, Unborn
<1> QED BY <1>0, <1>2, <1>3, <1>4, LinkCases
-----------------------------------------------------------------------------
(* Emacs: answers *)

(* A helper that is still at work keeps its request, and says yes to reconcile
   only of final files. *)
LEMMA WorkAnswers ==
  ASSUME TypeOK, NEW t \in Txs, Kept(t), Work(t) \/ Die(t)
  PROVE  /\ job[t].at # "idle" /\ job'[t].at # "idle" /\ job'[t].op = job[t].op
         /\ job[t].op = "reconcile" /\ (job[t].ok => manifest[t].Place = "final")
              => (job'[t].ok => manifest'[t].Place = "final")
<1>0. job \in [Txs -> Jobs] /\ job[t] \in Jobs BY DEF TypeOK
<1>1. ASSUME NEW ok, Reply(t, ok)
      PROVE  job'[t].op = job[t].op /\ job'[t].at = "replied" /\ job'[t].ok = ok
  BY <1>0, <1>1 DEF Reply, Answer, NoJob
<1>2. ASSUME NEW at, GoTo(t, at)
      PROVE  job'[t].op = job[t].op /\ job'[t].at = at /\ job'[t].ok = job[t].ok
  BY <1>0, <1>2 DEF GoTo, Jobs
<1>3. CASE Die(t)
  <2>1. job[t].at # "idle" /\ Reply(t, FALSE) BY <1>3 DEF Die, Working
  <2> QED BY <1>1, <2>1
<1>4. CASE PublishOne(t)
  <2>1. job[t].at = "publish" /\ manifest' = manifest BY <1>4 DEF PublishOne
  <2>2. job'[t].op = job[t].op /\ job'[t].at = job[t].at /\ job'[t].ok = job[t].ok
    <3>1. PICK c \in job[t].left :
            job' = [job EXCEPT ![t].left = @ \ {c},
                               ![t].made = IF Target(t, c) \in files THEN @
                                           ELSE @ \cup {Target(t, c)}]
      BY <1>4 DEF PublishOne
    <3> QED BY <1>0, <3>1 DEF Jobs
  <2> QED BY <2>1, <2>2
<1>5. CASE PublishFails(t)
  <2>1. job[t].at = "publish" /\ manifest' = manifest BY <1>5 DEF PublishFails
  <2>2. job'[t].op = job[t].op /\ job'[t].at = "undo" /\ job'[t].ok = job[t].ok
    BY <1>0, <1>5 DEF PublishFails, Jobs
  <2> QED BY <2>1, <2>2
<1>6. CASE PublishDone(t)
  <2>1. job[t].at = "publish" /\ manifest' = manifest BY <1>6 DEF PublishDone
  <2>2. job[t].op # "reconcile" BY <2>1 DEF Kept, Hired
  <2>3. Reply(t, TRUE) \/ GoTo(t, "write") BY <1>6 DEF PublishDone
  <2>4. job'[t].op = job[t].op /\ job'[t].at \in {"replied", "write"} BY <1>1, <1>2, <2>3
  <2> QED BY <2>1, <2>2, <2>4
<1>7. CASE WriteManifest(t)
  <2>1. job[t].at = "write" /\ Reply(t, TRUE) BY <1>7 DEF WriteManifest
  <2>2. job[t].op # "reconcile" BY <2>1 DEF Kept, Hired
  <2> QED BY <1>1, <2>1, <2>2
<1>8. CASE WriteFails(t)
  <2>1. job[t].at = "write" /\ manifest' = manifest BY <1>8 DEF WriteFails
  <2>2. CASE Reply(t, FALSE) BY <1>1, <2>1, <2>2
  <2>3. CASE job' = [job EXCEPT ![t].at = "rollback", ![t].doomed = job[t].made]
    <3>1. job'[t].op = job[t].op /\ job'[t].at = "rollback" /\ job'[t].ok = job[t].ok
      BY <1>0, <2>3 DEF Jobs
    <3> QED BY <2>1, <3>1
  <2> QED BY <1>8, <2>2, <2>3 DEF WriteFails
<1>9. CASE RemoveOne(t)
  <2>1. job[t].at # "idle" /\ manifest' = manifest BY <1>9 DEF RemoveOne, Removing
  <2>2. job'[t].op = job[t].op /\ job'[t].at = job[t].at /\ job'[t].ok = job[t].ok
    BY <1>0, <1>9 DEF RemoveOne, Jobs
  <2> QED BY <2>1, <2>2
<1>10. CASE RemoveFails(t)
  <2>1. job[t].at # "idle" /\ manifest' = manifest BY <1>10 DEF RemoveFails, Removing
  <2>2. job'[t].op = job[t].op /\ job'[t].at = job[t].at /\ job'[t].ok = job[t].ok
    BY <1>0, <1>10 DEF RemoveFails, Jobs
  <2> QED BY <2>1, <2>2
<1>11. CASE Compensated(t)
  <2>1. job[t].at # "idle" /\ manifest' = manifest BY <1>11 DEF Compensated
  <2>2. GoTo(t, "recover") \/ Reply(t, FALSE) BY <1>11 DEF Compensated
  <2>3. /\ job'[t].op = job[t].op /\ job'[t].at \in {"replied", "recover"}
        /\ job'[t].ok \in {job[t].ok, FALSE}
    BY <1>1, <1>2, <2>2
  <2> QED BY <2>1, <2>3
<1>12. CASE Recover(t)
  <2>1. job[t].at # "idle" /\ Reply(t, FALSE) BY <1>12 DEF Recover
  <2> QED BY <1>1, <2>1
<1>13. CASE Settle(t)
  <2>1. job[t].at = "remove" /\ \E ok : Reply(t, ok)
    BY <1>13 DEF Settle
  <2>2. manifest[t].Place = "final" BY <2>1 DEF Kept, Hired
  <2>3. manifest'[t].Place = "final" BY <1>13, <2>2, PlaceStays DEF Work
  <2>4. job'[t].at = "replied" /\ job'[t].op = job[t].op BY <1>1, <2>1
  <2> QED BY <2>1, <2>3, <2>4
<1> QED BY <1>3, <1>4, <1>5, <1>6, <1>7, <1>8, <1>9, <1>10, <1>11, <1>12, <1>13 DEF Work

(* The start of the two calls Waiting speaks of. *)
LEMMA CallAnswers ==
  ASSUME TypeOK, NEW t \in Txs
  PROVE  /\ StartFinalize(t) => job'[t].at # "idle" /\ job'[t].op = "finalize"
         /\ StartReconcile(t) /\ manifest[t].State = "NEEDS_RECONCILIATION"
              => /\ job'[t].at # "idle" /\ job'[t].op = "reconcile"
                 /\ job'[t].ok => manifest'[t].Place = "final"
<1>0. job \in [Txs -> Jobs] BY DEF TypeOK
<1>1. ASSUME NEW op, NEW ok, Answer(t, op, ok)
      PROVE  job'[t].op = op /\ job'[t].at = "replied" /\ job'[t].ok = ok
  BY <1>0, <1>1 DEF Answer, NoJob
<1>2. ASSUME NEW op, NEW paths, BeginRemoval(t, op, paths)
      PROVE  job'[t].op = op /\ job'[t].at = "remove" /\ ~ job'[t].ok
  BY <1>0, <1>2 DEF BeginRemoval, NoJob
<1>3. ASSUME job' = [job EXCEPT ![t] =
               [NoJob EXCEPT !.op = "finalize", !.at = "publish", !.left = Payload[t]]]
      PROVE  job'[t].op = "finalize" /\ job'[t].at = "publish"
  BY <1>0, <1>3 DEF NoJob
<1>4. StartFinalize(t) => job'[t].at # "idle" /\ job'[t].op = "finalize"
  BY <1>1, <1>3 DEF StartFinalize
<1>5. ASSUME StartReconcile(t), manifest[t].State = "NEEDS_RECONCILIATION"
      PROVE  /\ job'[t].at # "idle" /\ job'[t].op = "reconcile"
             /\ job'[t].ok => manifest'[t].Place = "final"
  <2>1. CASE Answer(t, "reconcile", FALSE) BY <1>1, <2>1
  <2>2. ASSUME NEW paths, BeginRemoval(t, "reconcile", paths)
        PROVE  job'[t].at # "idle" /\ job'[t].op = "reconcile" /\ ~ job'[t].ok
    BY <1>2, <2>2
  <2> QED BY <1>5, <2>1, <2>2 DEF StartReconcile
<1> QED BY <1>4, <1>5
LEMMA WaitingKept ==
  ASSUME ClientInv, TextTypes, KeptInv, ENext, NEW u \in Txs \ discarded'
  PROVE  Waiting(u)'
<1> DEFINE h == Home[u]
<1>0. /\ u \in Txs /\ u \notin discarded /\ h \in Buffers /\ NoTx \notin Txs
      /\ doing \in [Buffers -> Doings] /\ job \in [Txs -> Jobs] /\ TypeOK
      /\ Unborn(u) /\ Kept(u) /\ Waiting(u) /\ \A b \in Buffers : Visited(b)
  <2>1. discarded \subseteq discarded'
    BY HelperCases DEF KeptInv, Served, Still
  <2> QED BY <2>1, ConstantsAssumption, EmacsAssumption DEF KeptInv, ClientInv, TypeOK
<1>1. doing'[h].call # u => Waiting(u)' BY DEF Waiting
<1>2. ASSUME doing'[h].at = doing[h].at, doing'[h].call = doing[h].call,
             job'[u] = job[u], manifest'[u] = manifest[u]
      PROVE  Waiting(u)'
  BY <1>0, <1>2 DEF Waiting
<1> HIDE DEF h
<1>3. ASSUME NEW b \in Buffers, doing' = [doing EXCEPT ![b] = Rest],
             \/ job'[u] = job[u] /\ manifest'[u] = manifest[u]
             \/ b = h
      PROVE  Waiting(u)'
  <2>1. /\ \A c \in Buffers \ {b} : doing'[c] = doing[c]
        /\ doing'[b].call = NoTx
    BY <1>3, RestEffect
  <2>2. CASE b = h BY <1>0, <1>1, <2>1, <2>2
  <2>3. CASE b # h BY <1>0, <1>2, <1>3, <2>1, <2>3
  <2> QED BY <2>2, <2>3
<1>4. ASSUME NEW t \in Txs, Dismiss(t) PROVE manifest' = manifest /\ (t # u => job'[u] = job[u])
  BY <1>0, <1>4 DEF Dismiss
<1>5. ASSUME NEW b \in Buffers, User(b) PROVE Waiting(u)'
  <2>0. Visited(b) BY <1>0
  <2>1. CASE Type(b) \/ SetVisited(b) \/ FirstSave(b) \/ PlainSave(b)
    BY <1>2, <2>1 DEF Type, SetVisited, FirstSave, PlainSave, WriteBuffer, vars
  <2>2. CASE BeginSave(b)
    <3>1. /\ \A c \in Buffers \ {b} : doing'[c] = doing[c]
          /\ doing'[b].call = NoTx /\ UNCHANGED <<job, manifest>>
      BY <1>0, <2>2 DEF BeginSave, Rest, vars
    <3>2. CASE b = h BY <1>0, <1>1, <3>1, <3>2
    <3>3. CASE b # h BY <1>0, <1>2, <3>1, <3>3
    <3> QED BY <3>2, <3>3
  <2>3. CASE BeginKill(b)
    <3>1. /\ \A c \in Buffers \ {b} : doing'[c] = doing[c]
          /\ doing'[b].call = doing[b].call /\ UNCHANGED <<job, manifest>>
      BY <1>0, <2>3 DEF BeginKill, Doings, vars
    <3>2. doing[b].call = NoTx BY <2>0, <2>3 DEF BeginKill, AtRest, Visited
    <3>3. CASE b = h BY <1>0, <1>1, <3>1, <3>2, <3>3
    <3>4. CASE b # h BY <1>0, <1>2, <3>1, <3>4
    <3> QED BY <3>3, <3>4
  <2>4. CASE Quit(b)
    <3>1. /\ doing[b].call \in Of(b) /\ Dismiss(doing[b].call)
          /\ doing' = [doing EXCEPT ![b] = Rest]
      BY <2>0, <2>4 DEF Quit, Visited
    <3>2. doing[b].call \in Txs /\ (doing[b].call = u => b = h) BY <3>1 DEF Of, h
    <3> QED BY <1>3, <1>4, <3>1, <3>2
  <2>5. CASE Crash(b) BY <1>3, <2>5 DEF Crash, Leave, vars
  <2> QED BY <1>5, <2>1, <2>2, <2>3, <2>4, <2>5 DEF User
<1>6. ASSUME NEW b \in Buffers, SaveStep(b) \/ KillStep(b) PROVE Waiting(u)'
  <2>0. Visited(b) BY <1>0
  <2>1. CASE WriteDocument(b)
    <3>1. /\ \A c \in Buffers \ {b} : doing'[c] = doing[c]
          /\ doing'[b].call = doing[b].call /\ UNCHANGED <<job, manifest>>
      BY <1>0, <2>1 DEF WriteDocument, WriteBuffer, Doings
    <3>2. doing[b].call = NoTx BY <2>1 DEF WriteDocument, AllPrepared
    <3>3. CASE b = h BY <1>0, <1>1, <3>1, <3>2, <3>3
    <3>4. CASE b # h BY <1>0, <1>2, <3>1, <3>4
    <3> QED BY <3>3, <3>4
  <2>2. CASE WriteDocumentFails(b)
    BY <1>3, <2>2 DEF WriteDocumentFails, SaveError, vars
  <2>3. CASE EndSave(b) BY <1>3, <2>3 DEF EndSave, vars
  <2>4. CASE EndKill(b) BY <1>3, <2>4 DEF EndKill, Leave, vars
  <2>5. ASSUME NEW t \in Of(b),
               \/ CallFinalize(t) \/ PrepareReply(t) \/ CallReconcile(t)
               \/ DropSettled(t) \/ CallDocumentSaved(t) \/ DocumentSavedReply(t)
               \/ CallCommit(t) \/ CommitReply(t) \/ CallAbort(t) \/ AbortReply(t)
        PROVE  Waiting(u)'
    <3>0. t \in Txs /\ Home[t] = b /\ t # NoTx BY <1>0 DEF Of
    <3>1. ASSUME NEW at, Advance(t, at), manifest' = manifest, t # u => job'[u] = job[u]
          PROVE  Waiting(u)'
      <4>1. /\ \A c \in Buffers \ {b} : doing'[c] = doing[c]
            /\ doing'[b].call = NoTx
        BY <3>0, <3>1, LoopEffects
      <4>2. CASE b = h BY <1>0, <1>1, <4>1, <4>2
      <4>3. CASE b # h
        <5>1. t # u BY <3>0, <4>3 DEF h
        <5> QED BY <1>0, <1>2, <3>1, <4>1, <4>3, <5>1
      <4> QED BY <4>2, <4>3
    (* A call for t: the others do not wait for an answer of t's buffer. *)
    <3>2. ASSUME Call(t), u # t, Request(t) PROVE Waiting(u)'
      <4>1. /\ \A c \in Buffers \ {b} : doing'[c] = doing[c]
            /\ doing'[b].call = t
        BY <3>0, <3>2, LoopEffects
      <4>2. job'[u] = job[u] /\ manifest'[u] = manifest[u]
        BY <1>0, <3>0, <3>2, RequestOwn DEF KeptInv
      <4>3. CASE b = h BY <1>1, <3>2, <4>1, <4>3
      <4>4. CASE b # h BY <1>0, <1>2, <4>1, <4>2, <4>4
      <4> QED BY <4>3, <4>4
    <3>3. ASSUME Call(t), u = t
          PROVE  doing'[h].at = doing[h].at /\ doing'[h].call = u
      BY <3>0, <3>3, LoopEffects DEF h
    <3>4. CASE CallFinalize(t)
      <4>1. Call(t) /\ StartFinalize(t) /\ Request(t) /\ doing[b].at = "prepare"
        BY <3>0, <3>4 DEF CallFinalize, Call, Request, Ready
      <4>2. CASE u = t
        <5>1. job'[u].at # "idle" /\ job'[u].op = "finalize"
          BY <1>0, <4>1, <4>2, CallAnswers
        <5> QED BY <3>0, <3>3, <4>1, <4>2, <5>1 DEF Waiting, h
      <4> QED BY <3>2, <4>1, <4>2
    <3>5. CASE CallDocumentSaved(t)
      <4>1. Call(t) /\ Request(t) /\ doing[b].at = "saved"
        BY <3>0, <3>5 DEF CallDocumentSaved, Call, Request, Ready
      <4>2. CASE u = t BY <3>0, <3>3, <4>1, <4>2 DEF Waiting, h
      <4> QED BY <3>2, <4>1, <4>2
    <3>6. CASE CallAbort(t)
      <4>1. Call(t) /\ Request(t) /\ u # t
        BY <3>6 DEF CallAbort, Call, Request
      <4> QED BY <3>2, <4>1
    <3>7. CASE CallReconcile(t) \/ CallCommit(t)
      <4>1. /\ Request(t) /\ UNCHANGED <<doing, manifest>>
            /\ doing[b].call = t /\ job[t].at = "idle"
        BY <3>0, <3>7 DEF CallReconcile, CallCommit, CallAgain, Request, emacsVars,
                      StartReconcile, StartCommit
      <4>2. CASE u # t
        <5>1. job'[u] = job[u] BY <1>0, <3>0, <4>1, <4>2, RequestOwn DEF KeptInv
        <5> QED BY <1>2, <4>1, <5>1
      <4>3. CASE u = t /\ CallReconcile(t)
        <5>1. doing[h].at = "reconcile" /\ StartReconcile(t)
          BY <3>0, <4>3 DEF CallReconcile, CallAgain, h
        <5>2. manifest[t].State = "NEEDS_RECONCILIATION"
          BY <1>0, <3>0, <4>1, <4>3, <5>1 DEF Waiting, h
        <5>3. /\ job'[t].at # "idle" /\ job'[t].op = "reconcile"
              /\ job'[t].ok => manifest'[t].Place = "final"
          BY <1>0, <3>0, <5>1, <5>2, CallAnswers
        <5> QED BY <4>1, <4>3, <5>1, <5>3 DEF Waiting, h
      <4>4. CASE u = t /\ CallCommit(t)
        <5>1. doing'[h].at = "commit" BY <3>0, <4>1, <4>4 DEF CallCommit, CallAgain, h
        <5> QED BY <5>1 DEF Waiting, h
      <4> QED BY <3>7, <4>2, <4>3, <4>4
    <3>8. CASE PrepareReply(t)
      <4>1. Dismiss(t) /\ doing[b].call = t BY <3>0, <3>8 DEF PrepareReply, Replied
      <4>2. manifest' = manifest /\ (t # u => job'[u] = job[u]) BY <1>4, <3>0, <4>1
      <4>3. CASE Rewrite(t)
        <5>1. /\ \A c \in Buffers \ {b} : doing'[c] = doing[c]
              /\ doing'[b].call = NoTx
          BY <3>0, <4>3, LoopEffects
        <5>2. CASE b = h BY <1>0, <1>1, <5>1, <5>2
        <5>3. CASE b # h
          <6>1. t # u BY <3>0, <5>3 DEF h
          <6> QED BY <1>0, <1>2, <4>2, <5>1, <5>3, <6>1
        <5> QED BY <5>2, <5>3
      <4>4. CASE SaveError(Home[t])
        <5>1. t = u => b = h BY <3>0 DEF h
        <5> QED BY <1>3, <3>0, <4>2, <4>4, <5>1 DEF SaveError
      <4>5. CASE /\ doing' = [doing EXCEPT ![Home[t]].at = "reconcile"]
                 /\ manifest[t].State = "NEEDS_RECONCILIATION"
        <5>1. /\ \A c \in Buffers \ {b} : doing'[c] = doing[c]
              /\ doing'[b].at = "reconcile" /\ doing'[b].call = t
          <6>1. doing' = [doing EXCEPT ![b].at = "reconcile"] BY <3>0, <4>5
          <6> QED BY <1>0, <4>1, <6>1, PhaseEffect
        <5>2. CASE u = t
          <6>1. job'[t].at = "idle" BY <1>0, <3>0, <4>1 DEF Dismiss, NoJob
          <6> QED BY <3>0, <4>2, <4>5, <5>1, <5>2, <6>1 DEF Waiting, h
        <5>3. CASE u # t /\ b = h BY <1>1, <5>1, <5>3
        <5>4. CASE u # t /\ b # h BY <1>0, <1>2, <4>2, <5>1, <5>4
        <5> QED BY <5>2, <5>3, <5>4
      <4> QED BY <3>8, <4>3, <4>4, <4>5 DEF PrepareReply
    <3>9. CASE DropSettled(t) BY <3>1, <3>9 DEF DropSettled, vars
    <3>10. CASE DocumentSavedReply(t)
      <4>1. Dismiss(t) /\ doing[b].call = t BY <3>0, <3>10 DEF DocumentSavedReply, Replied
      <4>2. manifest' = manifest /\ (t # u => job'[u] = job[u]) BY <1>4, <3>0, <4>1
      <4>3. CASE doing' = [doing EXCEPT ![Home[t]].at = "commit"]
        <5>1. /\ \A c \in Buffers \ {b} : doing'[c] = doing[c]
              /\ doing'[b].at = "commit" /\ doing'[b].call = t
          <6>1. doing' = [doing EXCEPT ![b].at = "commit"] BY <3>0, <4>3
          <6> QED BY <1>0, <4>1, <6>1, PhaseEffect
        <5>2. CASE b = h BY <5>1, <5>2 DEF Waiting, h
        <5>3. CASE b # h
          <6>1. t # u BY <3>0, <5>3 DEF h
          <6> QED BY <1>0, <1>2, <4>2, <5>1, <5>3, <6>1
        <5> QED BY <5>2, <5>3
      <4> QED BY <3>1, <3>10, <4>2, <4>3 DEF DocumentSavedReply
    <3>11. CASE CommitReply(t) \/ AbortReply(t)
      <4>1. Dismiss(t) BY <3>11 DEF CommitReply, AbortReply, Replied
      <4>2. manifest' = manifest /\ (t # u => job'[u] = job[u]) BY <1>4, <3>0, <4>1
      <4> QED BY <3>1, <3>11, <4>2 DEF CommitReply, AbortReply
    <3> QED BY <2>5, <3>4, <3>5, <3>6, <3>7, <3>8, <3>9, <3>10, <3>11
  <2> QED BY <1>6, <2>1, <2>2, <2>3, <2>4, <2>5 DEF SaveStep, KillStep
<1>7. ASSUME NEW t \in Txs, Paste(t) \/ EditOut(t) \/ ImportReply(t) \/ HelperStep(t)
      PROVE  Waiting(u)'
  <2>0. doing' = doing
    BY <1>7 DEF Paste, EditOut, ImportReply, HelperStep, emacsVars
  (* An import under way is not recorded yet, so nothing waits for it. *)
  <2>1. import[u] # "done" => doing[h].call # u
    <3>1. Visited(h) BY <1>0
    <3> QED BY <1>0, <3>1 DEF Visited, Unborn
  <2>2. CASE Paste(t)
    <3>1. Request(t) /\ import[t] # "done" BY <2>2 DEF Paste, Request
    <3>2. CASE t = u BY <1>1, <2>0, <2>1, <3>1, <3>2
    <3>3. CASE t # u
      <4>1. job'[u] = job[u] /\ manifest'[u] = manifest[u]
        BY <1>0, <3>1, <3>3, RequestOwn DEF KeptInv
      <4> QED BY <1>2, <2>0, <4>1
    <3> QED BY <3>2, <3>3
  <2>3. CASE EditOut(t) BY <1>2, <2>0, <2>3 DEF EditOut, vars
  <2>4. CASE ImportReply(t)
    <3>1. Dismiss(t) /\ import[t] # "done" BY <2>4 DEF ImportReply
    <3>2. CASE t = u BY <1>1, <2>0, <2>1, <3>1, <3>2
    <3>3. CASE t # u BY <1>2, <1>4, <2>0, <3>1, <3>3
    <3> QED BY <3>2, <3>3
  <2>5. CASE HelperStep(t)
    <3>1. (Work(t) \/ Die(t)) /\ OwnPaths(t) /\ known' = known
      BY <2>5 DEF HelperStep, emacsVars, history, KeptInv
    <3>2. CASE t = u
      <4>1. /\ job[u].at # "idle" /\ job'[u].at # "idle" /\ job'[u].op = job[u].op
            /\ job[u].op = "reconcile" /\ (job[u].ok => manifest[u].Place = "final")
                 => (job'[u].ok => manifest'[u].Place = "final")
        BY <1>0, <3>1, <3>2, WorkAnswers
      <4> QED BY <1>0, <2>0, <4>1 DEF Waiting, h
    <3>3. CASE t # u
      <4>1. job'[u] = job[u] /\ manifest'[u] = manifest[u]
        BY <1>0, <3>1, <3>3, WorkKept, DieKept
      <4> QED BY <1>2, <2>0, <4>1
    <3> QED BY <3>2, <3>3
  <2> QED BY <1>7, <2>2, <2>3, <2>4, <2>5
<1> QED BY <1>5, <1>6, <1>7 DEF ENext

-----------------------------------------------------------------------------
(* The theorems *)

LEMMA KeptInitial == EInit => TextTypes /\ KeptInv
<1> SUFFICES ASSUME EInit PROVE TextTypes /\ KeptInv
  OBVIOUS
<1>1. TextTypes
  <2>1. /\ live \in [Buffers -> BOOLEAN] /\ named \in [Buffers -> BOOLEAN]
        /\ link \in [Txs -> Links] /\ disk \in [Txs -> Links] /\ before \in [Txs -> Links]
        /\ import \in [Txs -> {"new", "fresh", "stale", "done"}]
    BY DEF EInit, Links
  <2>2. /\ saveFaults \in 0..MaxSaveFaults /\ known \subseteq Txs /\ discarded \subseteq known
    BY EmacsAssumption DEF EInit
  <2>3. \A t \in Txs : mentioned[t] = FALSE /\ disk[t] = "none" BY DEF EInit, Init
  <2>4. \A t \in Txs : mentioned[t] = (disk[t] # "none") BY <2>3
  <2> QED BY <2>1, <2>2, <2>4 DEF TextTypes
<1>2. \A t \in Txs : OwnPaths(t) /\ Unborn(t)
  BY DEF EInit, Init, OwnPaths, Removable, Unborn, NoManifest, NoJob
<1>3. \A b \in Buffers : Visited(b) BY DEF EInit, Visited, Rest
<1>4. ASSUME NEW t \in Txs PROVE Kept(t) /\ Waiting(t) /\ Linked(t)
  <2>1. /\ manifest[t] = NoManifest /\ job[t] = NoJob /\ known = {} /\ doing[Home[t]] = Rest
        /\ NoTx \notin Txs
    BY ConstantsAssumption, EmacsAssumption DEF EInit, Init
  <2>2. Life(t) BY <2>1 DEF Life, NoManifest
  <2>3. Hired(t) BY <2>1 DEF Hired, Working, NoJob
  <2>4. Bytes(t) BY <2>1 DEF Bytes, NoManifest, NoJob
  <2>5. Waiting(t) BY <2>1 DEF Waiting, Rest
  <2> QED BY <2>1, <2>2, <2>3, <2>4, <2>5 DEF Kept, Linked
<1> QED BY <1>1, <1>2, <1>3, <1>4 DEF KeptInv

LEMMA KeptInvariant == ESpec => [](TextTypes /\ KeptInv)
<1>1. ClientInv /\ TextTypes /\ KeptInv /\ [ENext]_allVars => (TextTypes /\ KeptInv)'
  <2> SUFFICES ASSUME ClientInv, TextTypes, KeptInv, [ENext]_allVars
               PROVE  (TextTypes /\ KeptInv)'
    OBVIOUS
  <2>1. CASE UNCHANGED allVars
    <3>1. TextTypes'
      BY <2>1 DEF TextTypes, allVars, vars, emacsVars, bufferVars, textVars, saveVars, history
    <3>2. /\ UNCHANGED <<manifest, files, job, known, discarded, listed, doing, link, disk>>
          /\ UNCHANGED <<before, import>>
      BY <2>1 DEF allVars, vars, emacsVars, bufferVars, textVars, saveVars, history
    <3>3. \A t \in Txs : OwnPaths(t)' /\ Unborn(t)'
      BY <3>2, AllKept DEF KeptInv, Unborn
    <3>4. \A b \in Buffers : Visited(b)' BY <3>2 DEF KeptInv, Visited, Of
    <3>5. \A t \in Txs \ discarded' : Kept(t)' BY <3>2, AllKept DEF KeptInv
    <3>6. \A t \in Txs \ discarded' : Waiting(t)' /\ Linked(t)'
      BY <3>2 DEF KeptInv, Waiting, Linked
    <3> QED BY <3>1, <3>3, <3>4, <3>5, <3>6 DEF KeptInv
  <2>2. CASE ENext
    <3>0. /\ \A t \in Txs : Unborn(t)
          /\ \A b \in Buffers : Visited(b)
          /\ discarded \subseteq discarded'
      BY <2>2, HelperCases DEF KeptInv, Served, Still
    <3>1. TextTypes' BY <2>2, <3>0, TextTypesKept
    <3>2. \A t \in Txs : OwnPaths(t)' /\ Unborn(t)' BY <2>2, <3>0, AllKept, UnbornKept
    <3>3. \A b \in Buffers : Visited(b)' BY <2>2, <3>0, VisitedKept
    <3>4. \A t \in Txs \ discarded' : Kept(t)' BY <3>0, AllKept DEF KeptInv
    <3>5. \A t \in Txs \ discarded' : Waiting(t)' /\ Linked(t)'
      BY <2>2, WaitingKept, LinkedKept
    <3> QED BY <3>1, <3>2, <3>3, <3>4, <3>5 DEF KeptInv
  <2> QED BY <2>1, <2>2
<1> QED BY <1>1, KeptInitial, ClientInvariant, PTL DEF ESpec

(* The Emacs variables have their types, and only transactions of a buffer are in
   its list, its loops and its call. *)
THEOREM EmacsTypeCorrect == ESpec => []EmacsTypeOK
<1>1. ClientInv /\ TextTypes /\ KeptInv => EmacsTypeOK BY TypeParts DEF KeptInv
<1> QED BY <1>1, KeptInvariant, ClientInvariant, PTL

(* The bytes of a recorded paste that shares its paths with no other are, until its
   buffer is killed, all staged or all final - whatever fails, dies, is quit or is
   tried again between two steps of finalize, commit and reconcile. *)
THEOREM PayloadSafe == ESpec => []PayloadKept
<1>1. ClientInv /\ TextTypes /\ KeptInv => PayloadKept
  <2> SUFFICES ASSUME ClientInv, TextTypes, KeptInv,
                      NEW t \in known \ discarded, Unshared(t)
               PROVE  StagedAssets(t) \subseteq files \/ FinalAssets(t) \subseteq files
    BY DEF PayloadKept
  <2>0. t \in Txs BY DEF TextTypes
  <2>1. Life(t) /\ Bytes(t) /\ manifest[t].Place \in {"staging", "final"}
    BY <2>0 DEF KeptInv, Kept, ClientInv, TypeOK, Manifests
  <2> QED BY <2>1 DEF Bytes
<1> QED BY <1>1, KeptInvariant, ClientInvariant, PTL

(* A link to a final asset in a document on disk never dangles while the buffer
   lives, whatever happens after the document was written. *)
THEOREM LinksSafe == ESpec => []SavedLinksKept
<1>1. TextTypes /\ KeptInv => SavedLinksKept
  <2> SUFFICES ASSUME TextTypes, KeptInv, NEW t \in known \ discarded, Unshared(t),
                      disk[t] = "final"
               PROVE  FinalAssets(t) \subseteq files
    BY DEF SavedLinksKept
  <2>1. t \in Txs /\ Linked(t) /\ Bytes(t) BY DEF TextTypes, KeptInv, Kept
  <2> QED BY <2>1 DEF Linked, Bytes
<1> QED BY <1>1, KeptInvariant, PTL
-----------------------------------------------------------------------------
(***************************************************************************)
(* Only saved documents are committed.  The helper has stopped once a      *)
(* transaction is committed (Over); a commit or a reconciliation goes on   *)
(* only while Emacs waits for it, or after Emacs died, so the document it  *)
(* has verified is not written again before it is done (Settling).         *)
(***************************************************************************)

Over(t) == manifest[t].State = "COMMITTED" => ~ Working(t)

(* No request wakes the helper of a committed transaction, and a helper that
   commits has answered. *)
LEMMA OverKept ==
  ASSUME ClientInv, NEW t \in Txs, Served(t), Over(t)
  PROVE  Over(t)'
<1>0. job \in [Txs -> Jobs] /\ manifest \in [Txs -> Manifests(Files)] BY DEF ClientInv, TypeOK
<1>1. ASSUME NEW op, NEW ok, Answer(t, op, ok) PROVE ~ Working(t)'
  BY <1>0, <1>1 DEF Answer, Working
<1>2. CASE manifest' = manifest /\ manifest[t].State = "COMMITTED"
  <2>1. CASE job[t].at = "idle" /\ Request(t)
    BY <1>1, <1>2, <2>1 DEF Request, StartImport, StartImportOwned, StartFinalize,
         StartDocumentSaved, StartCommit, StartReconcile, StartAbort, Prepared, Abortable,
         AllowedTransition, Over
  <2>2. CASE Dismiss(t) BY <1>0, <2>2 DEF Dismiss, Working, NoJob, Over
  <2>3. CASE Die(t) BY <1>1, <2>3 DEF Die, Reply, Over
  <2>4. CASE Work(t)
    BY <1>2, <2>4 DEF Over, Working, Work, PublishOne, PublishFails, PublishDone, WriteManifest,
         WriteFails, RemoveOne, RemoveFails, Compensated, Recover, Settle, Removing
  <2> QED BY <2>1, <2>2, <2>3, <2>4 DEF Served, Request
<1>3. CASE manifest' = manifest /\ manifest[t].State # "COMMITTED" BY <1>3 DEF Over
<1>4. CASE WriteManifest(t) \/ Recover(t) \/ Settle(t)
  BY <1>1, <1>4 DEF WriteManifest, Recover, Settle, Reply, Over
<1> QED
  BY <1>2, <1>3, <1>4 DEF Served, Dismiss, Die, StartImport, StartImportOwned, StartFinalize,
     StartDocumentSaved, StartCommit, StartReconcile, StartAbort, Work, PublishOne, PublishFails,
     PublishDone, WriteFails, RemoveOne, RemoveFails, Compensated

(* One transaction is served, and the others' helpers, manifests and files stay. *)
LEMMA ServedAlone ==
  ASSUME TypeOK, \A u \in Txs : OwnPaths(u), NEW t \in Txs, Served(t)
  PROVE  /\ \A u \in Txs \ {t} : job'[u] = job[u] /\ manifest'[u] = manifest[u]
         /\ files \ Own(t) \subseteq files'
         /\ ~ Work(t) => UNCHANGED <<manifest, files>>
<1>1. CASE Request(t)
  BY <1>1, RequestOwn
<1>2. CASE Dismiss(t) BY <1>2 DEF Dismiss, TypeOK
<1>3. CASE Die(t) BY <1>3 DEF Die, Reply, Answer, TypeOK
<1>4. CASE Work(t) /\ UNCHANGED <<known, discarded>> BY <1>4, WorkKept
<1> QED BY <1>1, <1>2, <1>3, <1>4 DEF Served, Request

LEMMA OverInvariant == ESpec => [](\A t \in Txs : Over(t))
<1>1. EInit => \A t \in Txs : Over(t) BY DEF EInit, Init, Over, NoManifest
<1>2. ClientInv /\ KeptInv /\ (\A t \in Txs : Over(t)) /\ [ENext]_allVars
        => (\A t \in Txs : Over(t))'
  <2> SUFFICES ASSUME ClientInv, KeptInv, \A t \in Txs : Over(t), [ENext]_allVars, NEW u \in Txs
               PROVE  Over(u)'
    OBVIOUS
  <2>0. TypeOK /\ \A t \in Txs : OwnPaths(t) /\ Unborn(t) BY DEF ClientInv, KeptInv
  <2>1. CASE UNCHANGED <<job, manifest>> BY <2>1 DEF Over, Working
  <2>2. ASSUME NEW t \in Txs, Served(t) PROVE Over(u)'
    <3>1. CASE t = u BY <2>2, <3>1, OverKept
    <3>2. CASE t # u
      <4>1. job'[u] = job[u] /\ manifest'[u] = manifest[u] BY <2>0, <2>2, <3>2, ServedAlone
      <4> QED BY <4>1 DEF Over, Working
    <3> QED BY <3>1, <3>2
  <2> QED BY <2>0, <2>1, <2>2, HelperCases DEF Still, allVars, vars
<1> QED BY <1>1, <1>2, KeptInvariant, ClientInvariant, PTL DEF ESpec

-----------------------------------------------------------------------------
(* Commits. *)

DeadRest(b) == ~ live[b] => doing[b].at = "rest"

(* A transaction Emacs discards is aborted, and nothing else is asked for it.  This is
   what the quit of a kill breaks: the buffer lives on with transactions half aborted. *)
Discarding(t) ==
  t \in discarded => /\ doing[Home[t]].at = "kill" \/ ~ live[Home[t]]
                     /\ Working(t) => job[t].op = "abort"

Settling(t) ==
  Working(t) /\ job[t].op \in {"commit", "reconcile"}
    => mentioned[t] /\ (doing[Home[t]].call = t \/ ~ live[Home[t]])

CommitInv ==
  /\ \A b \in Buffers : DeadRest(b)
  /\ \A t \in Txs : Discarding(t) /\ Settling(t)

(* What a step does not touch. *)
LEMMA CommitFrame ==
  ASSUME NEW u \in Txs, Discarding(u), Settling(u), job'[u] = job[u],
         mentioned'[u] = mentioned[u], u \in discarded' => u \in discarded,
         live'[Home[u]] = live[Home[u]], doing'[Home[u]].at = doing[Home[u]].at,
         doing'[Home[u]].call = doing[Home[u]].call
  PROVE  Discarding(u)' /\ Settling(u)'
BY DEF Discarding, Settling, Working

(* A buffer that does not wait for the helper of u, and is alive, has none that commits. *)
LEMMA NotSettling ==
  ASSUME NEW u \in Txs, Settling(u), live[Home[u]], doing[Home[u]].call # u, job'[u] = job[u]
  PROVE  Settling(u)'
BY DEF Settling, Working

LEMMA RequestEffect ==
  ASSUME TypeOK, NEW t \in Txs, job[t].at = "idle", mentioned' = mentioned
  PROVE  /\ StartImport(t) => job'[t].op = "import"
         /\ StartImportOwned(t) => job'[t].op = "import-owned"
         /\ StartFinalize(t) => job'[t].op = "finalize"
         /\ StartDocumentSaved(t) => job'[t].op = "document-saved"
         /\ StartAbort(t) => job'[t].op = "abort"
         /\ StartCommit(t) \/ StartReconcile(t) => (Working(t)' => mentioned'[t])
<1>0. job \in [Txs -> Jobs] BY DEF TypeOK
<1>1. ASSUME NEW op, NEW at, Begin(t, op, at) PROVE job'[t].op = op
  BY <1>0, <1>1 DEF Begin, NoJob
<1>2. ASSUME NEW op, NEW ok, Answer(t, op, ok) PROVE job'[t].op = op /\ job'[t].at = "replied"
  BY <1>0, <1>2 DEF Answer, NoJob
<1>3. ASSUME NEW op, NEW paths, BeginRemoval(t, op, paths) PROVE job'[t].op = op
  BY <1>0, <1>3 DEF BeginRemoval, NoJob
<1>4. ASSUME NEW op, job' = [job EXCEPT ![t] =
               [NoJob EXCEPT !.op = op, !.at = "publish", !.left = Payload[t]]]
      PROVE  job'[t].op = op
  BY <1>0, <1>4 DEF NoJob
<1>5. StartImport(t) => job'[t].op = "import" BY <1>4 DEF StartImport
<1>6. StartImportOwned(t) => job'[t].op = "import-owned" BY <1>4 DEF StartImportOwned
<1>7. StartFinalize(t) => job'[t].op = "finalize" BY <1>2, <1>4 DEF StartFinalize
<1>8. StartDocumentSaved(t) => job'[t].op = "document-saved"
  BY <1>1, <1>2 DEF StartDocumentSaved
<1>9. StartAbort(t) => job'[t].op = "abort" BY <1>2, <1>3 DEF StartAbort
<1>10. StartCommit(t) => (Working(t)' => mentioned'[t])
  BY <1>2 DEF StartCommit, Verified, Working
<1>11. StartReconcile(t) => (Working(t)' => mentioned'[t])
  BY <1>2 DEF StartReconcile, Verified, Working
<1> QED BY <1>5, <1>6, <1>7, <1>8, <1>9, <1>10, <1>11

(* A helper goes on with what it was asked for. *)
LEMMA WorkEffect ==
  ASSUME TypeOK, NEW t \in Txs, Work(t) \/ Die(t)
  PROVE  /\ job'[t].op = job[t].op /\ (Working(t)' => Working(t)) /\ mentioned' = mentioned
         /\ \A u \in Txs \ {t} : job'[u] = job[u]
<1>0. job \in [Txs -> Jobs] BY DEF TypeOK
<1>1. ASSUME NEW ok, Reply(t, ok)
      PROVE  /\ job'[t].op = job[t].op /\ ~ Working(t)'
             /\ \A u \in Txs \ {t} : job'[u] = job[u]
  BY <1>0, <1>1 DEF Reply, Answer, NoJob, Working
<1>2. ASSUME NEW at, GoTo(t, at)
      PROVE  job'[t].op = job[t].op /\ \A u \in Txs \ {t} : job'[u] = job[u]
  BY <1>0, <1>2 DEF GoTo, Jobs
<1>3. CASE Die(t) BY <1>1, <1>3 DEF Die
<1>4. CASE PublishOne(t) BY <1>0, <1>4 DEF PublishOne, Working, Jobs
<1>5. CASE PublishFails(t) BY <1>0, <1>5 DEF PublishFails, Working, Jobs
<1>6. CASE PublishDone(t) BY <1>1, <1>2, <1>6 DEF PublishDone, Working
<1>7. CASE WriteManifest(t) BY <1>1, <1>7 DEF WriteManifest, Working
<1>8. CASE WriteFails(t) BY <1>0, <1>1, <1>8 DEF WriteFails, Working, Jobs
<1>9. CASE RemoveOne(t) BY <1>0, <1>9 DEF RemoveOne, Working, Removing, Jobs
<1>10. CASE RemoveFails(t) BY <1>0, <1>10 DEF RemoveFails, Working, Removing, Jobs
<1>11. CASE Compensated(t) BY <1>1, <1>2, <1>11 DEF Compensated, Working
<1>12. CASE Recover(t) BY <1>1, <1>12 DEF Recover, Working
<1>13. CASE Settle(t) BY <1>1, <1>13 DEF Settle, Working
<1> QED
  BY <1>3, <1>4, <1>5, <1>6, <1>7, <1>8, <1>9, <1>10, <1>11, <1>12, <1>13 DEF Work
(* Emacs waits for the helper of one of b's transactions, and for none at rest. *)
LEMMA CallFacts ==
  ASSUME ClientInv, KeptInv, NEW b \in Buffers
  PROVE  /\ doing[b].call # NoTx => doing[b].call \in Txs /\ Home[doing[b].call] = b
         /\ doing[b].at = "rest" => doing[b].call = NoTx
         /\ NoTx \notin Txs
BY EmacsAssumption DEF KeptInv, Visited, Of

(* A deleted helper works no more. *)
LEMMA DismissEffect ==
  ASSUME TypeOK, NEW t \in Txs, Dismiss(t)
  PROVE  /\ ~ Working(t)' /\ mentioned' = mentioned
         /\ \A u \in Txs \ {t} : job'[u] = job[u]
BY DEF TypeOK, Dismiss, NoJob, Working

(* A buffer that is gone waits for nothing. *)
LEMMA LeaveCommits ==
  ASSUME ClientInv, TextTypes, CommitInv, NEW b \in Buffers, Leave(b)
  PROVE  CommitInv'
<1>0. live \in [Buffers -> BOOLEAN] BY DEF TextTypes
<1>1. \A u \in Txs : Discarding(u) /\ Settling(u) /\ Home[u] \in Buffers
  BY ConstantsAssumption DEF CommitInv
<1>2. \A c \in Buffers : DeadRest(c) BY DEF CommitInv
<1>3. /\ \A c \in Buffers \ {b} : doing'[c] = doing[c]
      /\ doing'[b].at = "rest" /\ doing'[b].call = NoTx
  BY RestEffect DEF Leave
<1>4. /\ UNCHANGED <<job, mentioned, discarded>> /\ ~ live'[b]
      /\ \A c \in Buffers \ {b} : live'[c] = live[c]
  BY <1>0 DEF Leave, vars, history
<1>5. ASSUME NEW u \in Txs PROVE Discarding(u)' /\ Settling(u)'
  <2>1. CASE Home[u] # b BY <1>1, <1>3, <1>4, <2>1, CommitFrame
  <2>2. CASE Home[u] = b BY <1>1, <1>4, <2>2 DEF Discarding, Settling, Working
  <2> QED BY <2>1, <2>2
<1>6. \A c \in Buffers : DeadRest(c)' BY <1>2, <1>3, <1>4 DEF DeadRest
<1> QED BY <1>5, <1>6 DEF CommitInv

LEMMA UserCommits ==
  ASSUME "quit-kill" \notin Ways, ClientInv, TextTypes, KeptInv, CommitInv,
         NEW b \in Buffers, User(b)
  PROVE  CommitInv'
<1>0. /\ doing \in [Buffers -> Doings] /\ job \in [Txs -> Jobs] /\ TypeOK
      /\ live \in [Buffers -> BOOLEAN]
  BY DEF ClientInv, TypeOK, TextTypes
<1>1. \A u \in Txs : Discarding(u) /\ Settling(u) /\ Home[u] \in Buffers
  BY ConstantsAssumption DEF CommitInv
<1>2. DeadRest(b) /\ \A c \in Buffers : DeadRest(c) BY DEF CommitInv
(* Writing the text of a buffer at rest, and other steps that leave the loops alone. *)
<1>3. ASSUME UNCHANGED <<doing, job, live, discarded>>,
             mentioned' = mentioned \/ (AtRest(b) /\ WriteBuffer(b))
      PROVE  CommitInv'
  <2>1. ASSUME NEW u \in Txs PROVE Discarding(u)' /\ Settling(u)'
    <3>1. CASE mentioned'[u] = mentioned[u] BY <1>1, <1>3, <3>1, CommitFrame
    <3>2. CASE AtRest(b) /\ WriteBuffer(b) /\ Home[u] = b
      <4>1. doing[b].call # u BY <3>2, CallFacts DEF AtRest
      <4>2. Settling(u)' BY <1>1, <1>3, <3>2, <4>1, NotSettling DEF AtRest
      <4> QED BY <1>1, <1>3, <4>2 DEF Discarding, Working
    <3> QED BY <1>3, <3>1, <3>2 DEF WriteBuffer
  <2> QED BY <1>2, <1>3, <2>1 DEF CommitInv, DeadRest
(* A save or a kill begins. *)
<1>4. ASSUME AtRest(b), UNCHANGED <<job, live, discarded, mentioned>>,
             \A c \in Buffers \ {b} : doing'[c] = doing[c],
             doing'[b].at \in {"prepare", "kill"}
      PROVE  CommitInv'
  <2>0. live[b] /\ doing[b].at = "rest" /\ doing[b].call = NoTx
    BY <1>4, CallFacts DEF AtRest
  <2>1. ASSUME NEW u \in Txs PROVE Discarding(u)' /\ Settling(u)'
    <3>1. CASE Home[u] # b BY <1>1, <1>4, <3>1, CommitFrame
    <3>2. CASE Home[u] = b
      <4>1. doing[b].call # u BY <2>0, EmacsAssumption
      <4>2. Settling(u)' BY <1>1, <1>4, <2>0, <3>2, <4>1, NotSettling
      <4>3. u \notin discarded' BY <1>1, <1>4, <2>0, <3>2 DEF Discarding
      <4> QED BY <4>2, <4>3 DEF Discarding
    <3> QED BY <3>1, <3>2
  <2>2. \A c \in Buffers : DeadRest(c)' BY <1>2, <1>4, <2>0 DEF DeadRest
  <2> QED BY <2>1, <2>2 DEF CommitInv
<1>5. CASE Type(b) \/ SetVisited(b)
  BY <1>3, <1>5 DEF Type, SetVisited, vars, bufferVars, saveVars, history
<1>6. CASE FirstSave(b) \/ PlainSave(b)
  <2>1. AtRest(b) /\ WriteBuffer(b) BY <1>6 DEF FirstSave, PlainSave, MayName
  <2>2. UNCHANGED <<doing, job, live, discarded>>
    BY <1>6, <2>1 DEF FirstSave, PlainSave, WriteBuffer, bufferVars, history
  <2> QED BY <1>3, <2>1, <2>2
<1>7. CASE BeginSave(b)
  <2>1. doing'[b].at = "prepare" /\ \A c \in Buffers \ {b} : doing'[c] = doing[c]
    BY <1>0, <1>7 DEF BeginSave, Rest
  <2> QED BY <1>4, <1>7, <2>1 DEF BeginSave, vars, bufferVars, history
<1>8. CASE BeginKill(b)
  <2>1. doing'[b].at = "kill" /\ \A c \in Buffers \ {b} : doing'[c] = doing[c]
    BY <1>0, <1>8 DEF BeginKill, Doings
  <2> QED BY <1>4, <1>8, <2>1 DEF BeginKill, vars, bufferVars, history
<1>9. CASE Quit(b)
  <2> PICK t \in Txs : t = doing[b].call
    BY <1>9, CallFacts DEF Quit
  <2>0. Home[t] = b /\ Dismiss(t) /\ doing[b].at \notin {"rest", "kill"}
    BY <1>9, CallFacts DEF Quit
  <2>1. ~ Working(t)' /\ mentioned' = mentioned /\ \A u \in Txs \ {t} : job'[u] = job[u]
    BY <1>0, <2>0, DismissEffect
  <2>2. /\ \A c \in Buffers \ {b} : doing'[c] = doing[c]
        /\ doing'[b].at = "rest" /\ doing'[b].call = NoTx
    BY <1>9, RestEffect DEF Quit
  <2>3. UNCHANGED <<live, discarded>> /\ live[b]
    BY <1>2, <1>9, <2>0 DEF Quit, bufferVars, history, DeadRest
  <2>4. ASSUME NEW u \in Txs PROVE Discarding(u)' /\ Settling(u)'
    <3>1. CASE Home[u] # b BY <1>1, <2>0, <2>1, <2>2, <2>3, <3>1, CommitFrame
    <3>2. CASE Home[u] = b
      <4>1. u \notin discarded' BY <1>1, <2>0, <2>3, <3>2 DEF Discarding
      <4>2. CASE u = t BY <2>1, <4>1, <4>2 DEF Discarding, Settling
      <4>3. CASE u # t
        <5>1. Settling(u)' BY <1>1, <2>1, <2>3, <3>2, <4>3, NotSettling
        <5> QED BY <4>1, <5>1 DEF Discarding
      <4> QED BY <4>2, <4>3
    <3> QED BY <3>1, <3>2
  <2>5. \A c \in Buffers : DeadRest(c)' BY <1>2, <2>2, <2>3 DEF DeadRest
  <2> QED BY <2>4, <2>5 DEF CommitInv
<1>10. CASE Crash(b) BY <1>10, LeaveCommits DEF Crash
<1> QED BY <1>5, <1>6, <1>7, <1>8, <1>9, <1>10 DEF User
(* Emacs goes on with a save or a kill of b, whose loop stays in its phases. *)
LEMMA LoopCommits ==
  ASSUME ClientInv, TextTypes, KeptInv, CommitInv, NEW b \in Buffers, SaveStep(b) \/ KillStep(b)
  PROVE  CommitInv'
<1>0. /\ doing \in [Buffers -> Doings] /\ TypeOK /\ NoTx \notin Txs
      /\ live \in [Buffers -> BOOLEAN]
  BY EmacsAssumption DEF ClientInv, TextTypes
<1>1. \A u \in Txs : Discarding(u) /\ Settling(u) /\ Home[u] \in Buffers
  BY ConstantsAssumption DEF CommitInv
<1>2. \A c \in Buffers : DeadRest(c) BY DEF CommitInv
(* It suffices that the helpers that do not stop are those Emacs waits for, and that
   only transactions of a kill are discarded. *)
<1>3. ASSUME doing[b].at # "rest", UNCHANGED live,
             \A c \in Buffers \ {b} : doing'[c] = doing[c],
             \A u \in Txs : Home[u] # b => /\ job'[u] = job[u] /\ mentioned'[u] = mentioned[u]
                                           /\ (u \in discarded' => u \in discarded),
             \A u \in Txs : Home[u] = b /\ u \in discarded'
                              => doing'[b].at = "kill" /\ (Working(u)' => job'[u].op = "abort"),
             \A u \in Txs : Home[u] = b =>
               \/ job'[u] = job[u] /\ doing[b].call # u
               \/ ~ Working(u)'
               \/ Working(u)' /\ job'[u].op \in {"commit", "reconcile"}
                    => mentioned'[u] /\ doing'[b].call = u
      PROVE  CommitInv'
  <2>1. live[b] BY <1>2, <1>3 DEF DeadRest
  <2>2. ASSUME NEW u \in Txs PROVE Discarding(u)' /\ Settling(u)'
    <3>1. CASE Home[u] # b BY <1>1, <1>3, <3>1, CommitFrame
    <3>2. CASE Home[u] = b
      <4>1. Discarding(u)' BY <1>3, <3>2 DEF Discarding
      <4>2. CASE job'[u] = job[u] /\ doing[b].call # u
        BY <1>1, <1>3, <2>1, <3>2, <4>1, <4>2, NotSettling
      <4>3. CASE ~ Working(u)' BY <4>1, <4>3 DEF Settling
      <4>4. CASE Working(u)' /\ job'[u].op \in {"commit", "reconcile"}
                   => mentioned'[u] /\ doing'[b].call = u
        BY <3>2, <4>1, <4>4 DEF Settling
      <4> QED BY <1>3, <3>2, <4>2, <4>3, <4>4
    <3> QED BY <3>1, <3>2
  <2>3. \A c \in Buffers : DeadRest(c)' BY <1>2, <1>3, <2>1 DEF DeadRest
  <2> QED BY <2>2, <2>3 DEF CommitInv
<1>4. ASSUME doing[b].at \notin {"rest", "kill"}, NEW u \in Txs, Home[u] = b
      PROVE  u \notin discarded
  BY <1>1, <1>2, <1>4 DEF Discarding, DeadRest
(* Steps without a call: no call is under way. *)
<1>5. ASSUME doing[b].at \notin {"rest", "kill"}, doing[b].call = NoTx,
             UNCHANGED <<live, discarded, job>>,
             \A c \in Buffers \ {b} : doing'[c] = doing[c],
             \A u \in Txs : Home[u] # b => mentioned'[u] = mentioned[u]
      PROVE  CommitInv'
  BY <1>0, <1>3, <1>4, <1>5
<1>6. CASE WriteDocument(b)
  <2>1. \A c \in Buffers \ {b} : doing'[c] = doing[c] BY <1>0, <1>6 DEF WriteDocument
  <2> QED BY <1>5, <1>6, <2>1 DEF WriteDocument, AllPrepared, WriteBuffer, bufferVars, history
<1>7. CASE WriteDocumentFails(b)
  <2>1. \A c \in Buffers \ {b} : doing'[c] = doing[c]
    BY <1>0, <1>7 DEF WriteDocumentFails, SaveError
  <2> QED BY <1>5, <1>7, <2>1 DEF WriteDocumentFails, AllPrepared, vars, bufferVars, history
<1>8. CASE EndSave(b)
  <2>1. \A c \in Buffers \ {b} : doing'[c] = doing[c] BY <1>0, <1>8 DEF EndSave
  <2> QED BY <1>5, <1>8, <2>1 DEF EndSave, vars, bufferVars, history
<1>9. CASE EndKill(b) BY <1>9, LeaveCommits DEF EndKill
<1>10. ASSUME NEW t \in Of(b),
               \/ CallFinalize(t) \/ PrepareReply(t) \/ CallReconcile(t)
               \/ DropSettled(t) \/ CallDocumentSaved(t) \/ DocumentSavedReply(t)
               \/ CallCommit(t) \/ CommitReply(t) \/ CallAbort(t) \/ AbortReply(t)
        PROVE  CommitInv'
  <2>0. t \in Txs /\ Home[t] = b BY DEF Of
  (* A request for t, when Emacs waits for nothing or for t. *)
  <2>1. ASSUME Request(t), doing[b].at # "rest", doing[b].call \in {NoTx, t},
               doing'[b].at = doing[b].at, doing'[b].call = t, UNCHANGED <<live, mentioned>>,
               \A c \in Buffers \ {b} : doing'[c] = doing[c],
               discarded' = discarded \/ discarded' = discarded \cup {t},
               t \in discarded' => doing[b].at = "kill" /\ job'[t].op = "abort",
               job'[t].op \in {"commit", "reconcile"} => (Working(t)' => mentioned'[t])
        PROVE  CommitInv'
    <3>1. \A u \in Txs \ {t} : job'[u] = job[u]
      BY <1>0, <2>0, <2>1, RequestOwn DEF KeptInv
    <3>2. live[b] BY <1>2, <2>1 DEF DeadRest
    <3>3. ASSUME NEW u \in Txs, Home[u] = b, u \in discarded'
          PROVE  doing'[b].at = "kill" /\ (Working(u)' => job'[u].op = "abort")
      <4>1. CASE u = t BY <2>1, <3>3, <4>1
      <4>2. CASE u # t
        <5>1. u \in discarded /\ job'[u] = job[u] BY <2>1, <3>1, <3>3, <4>2
        <5> QED BY <1>1, <2>1, <3>2, <3>3, <5>1 DEF Discarding, Working
      <4> QED BY <4>1, <4>2
    <3>4. ASSUME NEW u \in Txs, Home[u] = b, u # t
          PROVE  job'[u] = job[u] /\ doing[b].call # u
      BY <1>0, <2>1, <3>1, <3>4
    <3> QED BY <1>3, <2>0, <2>1, <3>1, <3>3, <3>4
  (* The answer to the call for t. *)
  <2>2. ASSUME doing[b].call = t, doing[b].at # "rest", Dismiss(t),
               UNCHANGED <<live, discarded>>,
               \A c \in Buffers \ {b} : doing'[c] = doing[c],
               doing[b].at = "kill" => doing'[b].at = "kill"
        PROVE  CommitInv'
    <3>1. ~ Working(t)' /\ mentioned' = mentioned /\ \A u \in Txs \ {t} : job'[u] = job[u]
      BY <1>0, <2>0, <2>2, DismissEffect
    <3>2. live[b] BY <1>2, <2>2 DEF DeadRest
    <3>3. ASSUME NEW u \in Txs, Home[u] = b, u \in discarded'
          PROVE  doing'[b].at = "kill" /\ (Working(u)' => job'[u].op = "abort")
      <4>1. doing[b].at = "kill" /\ (Working(u) => job[u].op = "abort")
        BY <1>1, <2>2, <3>2, <3>3 DEF Discarding
      <4>2. CASE u = t BY <2>2, <3>1, <4>1, <4>2
      <4>3. CASE u # t BY <2>2, <3>1, <4>1, <4>3 DEF Working
      <4> QED BY <4>2, <4>3
    <3> QED BY <1>3, <2>0, <2>2, <3>1, <3>3
  <2>3. CASE CallFinalize(t) \/ CallDocumentSaved(t) \/ CallAbort(t)
    <3>1. Call(t) /\ doing[b].call = NoTx /\ job[t].at = "idle"
      BY <2>0, <2>3 DEF CallFinalize, CallDocumentSaved, CallAbort, Ready, Call
    <3>2. /\ \A c \in Buffers \ {b} : doing'[c] = doing[c]
          /\ doing'[b].at = doing[b].at /\ doing'[b].call = t
      BY <2>0, <3>1, LoopEffects
    <3>3. UNCHANGED live /\ doing[b].at \in {"prepare", "saved", "kill"}
      BY <2>0, <2>3, <3>1 DEF CallFinalize, CallDocumentSaved, CallAbort, Ready, Call, bufferVars
    <3>4. Request(t) /\ mentioned' = mentioned
      BY <2>3, <3>1 DEF CallFinalize, CallDocumentSaved, CallAbort, Request, StartFinalize,
           StartDocumentSaved, StartAbort
    <3>5. CASE CallAbort(t)
      <4>1. job'[t].op = "abort" /\ doing[b].at = "kill" /\ discarded' = discarded \cup {t}
        BY <1>0, <2>0, <3>1, <3>4, <3>5, RequestEffect DEF CallAbort, Ready
      <4> QED BY <2>1, <3>1, <3>2, <3>3, <3>4, <4>1
    <3>6. CASE CallFinalize(t) \/ CallDocumentSaved(t)
      <4>1. /\ job'[t].op \in {"finalize", "document-saved"} /\ doing[b].at \in {"prepare", "saved"}
            /\ discarded' = discarded
        BY <1>0, <2>0, <3>1, <3>4, <3>6, RequestEffect
           DEF CallFinalize, CallDocumentSaved, Ready, history
      <4>2. t \notin discarded BY <1>4, <2>0, <4>1
      <4> QED BY <2>1, <3>1, <3>2, <3>3, <3>4, <4>1, <4>2
    <3> QED BY <2>3, <3>5, <3>6
  <2>4. CASE CallReconcile(t) \/ CallCommit(t)
    <3>1. /\ doing[b].call = t /\ job[t].at = "idle" /\ doing[b].at \in {"reconcile", "commit"}
          /\ UNCHANGED <<doing, live, discarded>>
      BY <2>0, <2>4 DEF CallReconcile, CallCommit, CallAgain, emacsVars, bufferVars, history
    <3>2. Request(t) /\ mentioned' = mentioned
      BY <2>4, <3>1 DEF CallReconcile, CallCommit, Request, StartReconcile, StartCommit
    <3>3. Working(t)' => mentioned'[t]
      BY <1>0, <2>0, <2>4, <3>1, <3>2, RequestEffect DEF CallReconcile, CallCommit
    <3>4. t \notin discarded BY <1>4, <2>0, <3>1
    <3> QED BY <2>1, <3>1, <3>2, <3>3, <3>4
  <2>5. CASE DropSettled(t)
    <3>1. \A c \in Buffers \ {b} : doing'[c] = doing[c] BY <2>0, <2>5, LoopEffects DEF DropSettled
    <3> QED BY <1>5, <2>0, <2>5, <3>1 DEF DropSettled, Ready, vars, history
  <2>6. CASE PrepareReply(t)
    <3>1. /\ doing[b].call = t /\ doing[b].at \in {"prepare", "reconcile"} /\ Dismiss(t)
          /\ UNCHANGED <<live, discarded>>
      BY <2>0, <2>6 DEF PrepareReply, Replied, bufferVars, history
    <3>2. \A c \in Buffers \ {b} : doing'[c] = doing[c]
      <4>1. CASE Rewrite(t) BY <2>0, <4>1, LoopEffects
      <4>2. CASE SaveError(b) BY <4>2, RestEffect DEF SaveError
      <4>3. CASE doing' = [doing EXCEPT ![b].at = "reconcile"] BY <4>3, PhaseEffect
      <4> QED BY <2>0, <2>6, <4>1, <4>2, <4>3 DEF PrepareReply
    <3> QED BY <2>2, <3>1, <3>2
  <2>7. CASE DocumentSavedReply(t)
    <3>1. /\ doing[b].call = t /\ doing[b].at = "saved" /\ Dismiss(t)
          /\ UNCHANGED <<live, discarded>>
      BY <2>0, <2>7 DEF DocumentSavedReply, Replied, bufferVars, history
    <3>2. \A c \in Buffers \ {b} : doing'[c] = doing[c]
      <4>1. CASE Advance(t, "saved") BY <2>0, <4>1, LoopEffects
      <4>2. CASE doing' = [doing EXCEPT ![b].at = "commit"] BY <4>2, PhaseEffect
      <4> QED BY <2>0, <2>7, <4>1, <4>2 DEF DocumentSavedReply
    <3> QED BY <2>2, <3>1, <3>2
  <2>8. CASE CommitReply(t) \/ AbortReply(t)
    <3>1. /\ doing[b].call = t /\ doing[b].at \in {"commit", "kill"} /\ Dismiss(t)
          /\ UNCHANGED <<live, discarded>>
      BY <2>0, <2>8 DEF CommitReply, AbortReply, Replied, bufferVars, history
    <3>2. /\ \A c \in Buffers \ {b} : doing'[c] = doing[c]
          /\ doing[b].at = "kill" => doing'[b].at = "kill"
      BY <2>0, <2>8, LoopEffects DEF CommitReply, AbortReply, Replied
    <3> QED BY <2>2, <3>1, <3>2
  <2> QED BY <1>10, <2>3, <2>4, <2>5, <2>6, <2>7, <2>8
<1> QED BY <1>6, <1>7, <1>8, <1>9, <1>10 DEF SaveStep, KillStep
(* Imports come and go and helpers work on. *)
LEMMA PasteCommits ==
  ASSUME ClientInv, TextTypes, KeptInv, CommitInv,
         NEW t \in Txs, Paste(t) \/ EditOut(t) \/ ImportReply(t) \/ HelperStep(t)
  PROVE  CommitInv'
<1>0. TypeOK /\ discarded \subseteq known BY DEF ClientInv, TextTypes
<1>1. \A u \in Txs : Discarding(u) /\ Settling(u) BY DEF CommitInv
<1>2. UNCHANGED <<doing, live, discarded>>
  BY DEF Paste, EditOut, ImportReply, HelperStep, emacsVars, bufferVars, history
<1>3. ASSUME mentioned' = mentioned, \A u \in Txs \ {t} : job'[u] = job[u],
             \/ job'[t] = job[t]
             \/ ~ Working(t)'
             \/ t \notin discarded /\ job'[t].op \in {"import", "import-owned"}
             \/ job'[t].op = job[t].op /\ (Working(t)' => Working(t))
      PROVE  CommitInv'
  <2>1. ASSUME NEW u \in Txs PROVE Discarding(u)' /\ Settling(u)'
    <3>1. CASE job'[u] = job[u] BY <1>1, <1>2, <1>3, <3>1, CommitFrame
    <3>2. CASE u = t
      <4>1. CASE ~ Working(t)' BY <1>1, <1>2, <3>2, <4>1 DEF Discarding, Settling
      <4>2. CASE t \notin discarded /\ job'[t].op \in {"import", "import-owned"}
        BY <1>2, <3>2, <4>2 DEF Discarding, Settling
      <4>3. CASE job'[t].op = job[t].op /\ (Working(t)' => Working(t))
        BY <1>1, <1>2, <1>3, <3>2, <4>3 DEF Discarding, Settling
      <4> QED BY <1>3, <3>1, <3>2, <4>1, <4>2, <4>3
    <3> QED BY <1>3, <3>1, <3>2
  <2>2. \A b \in Buffers : DeadRest(b)' BY <1>2 DEF CommitInv, DeadRest
  <2> QED BY <2>1, <2>2 DEF CommitInv
<1>4. CASE Paste(t)
  <2>1. t \notin discarded BY <1>0, <1>4 DEF Paste, KeptInv, Unborn
  <2>2. (StartImport(t) \/ StartImportOwned(t)) /\ job[t].at = "idle" BY <1>4 DEF Paste
  <2>3. Request(t) /\ mentioned' = mentioned
    BY <2>2 DEF Request, StartImport, StartImportOwned
  <2>4. job'[t].op \in {"import", "import-owned"} BY <1>0, <2>2, <2>3, RequestEffect
  <2>5. \A u \in Txs \ {t} : job'[u] = job[u] BY <1>0, <2>3, RequestOwn DEF KeptInv
  <2> QED BY <1>3, <2>1, <2>3, <2>4, <2>5
<1>5. CASE EditOut(t) BY <1>3, <1>5 DEF EditOut, vars
<1>6. CASE ImportReply(t)
  <2>1. Dismiss(t) BY <1>6 DEF ImportReply
  <2> QED BY <1>0, <1>3, <2>1, DismissEffect
<1>7. CASE HelperStep(t)
  <2>1. Work(t) \/ Die(t) BY <1>7 DEF HelperStep
  <2> QED BY <1>0, <1>3, <2>1, WorkEffect
<1> QED BY <1>4, <1>5, <1>6, <1>7

LEMMA CommitInvariant ==
  ASSUME "quit-kill" \notin Ways
  PROVE  ESpec => []CommitInv
<1>1. EInit => CommitInv
  <2> SUFFICES ASSUME EInit PROVE CommitInv
    OBVIOUS
  <2>1. \A b \in Buffers : DeadRest(b) BY DEF EInit, DeadRest
  <2>2. ASSUME NEW t \in Txs PROVE Discarding(t) /\ Settling(t)
    <3>1. discarded = {} /\ job[t] = NoJob BY DEF EInit, Init
    <3> QED BY <3>1 DEF Discarding, Settling, Working, NoJob
  <2> QED BY <2>1, <2>2 DEF CommitInv
<1>2. ClientInv /\ TextTypes /\ KeptInv /\ CommitInv /\ [ENext]_allVars => CommitInv'
  <2> SUFFICES ASSUME ClientInv, TextTypes, KeptInv, CommitInv, [ENext]_allVars
               PROVE  CommitInv'
    OBVIOUS
  <2>1. CASE UNCHANGED allVars
    BY <2>1 DEF allVars, vars, emacsVars, bufferVars, history, CommitInv, DeadRest, Discarding,
         Settling, Working
  <2>2. CASE ENext BY <2>2, UserCommits, LoopCommits, PasteCommits DEF ENext
  <2> QED BY <2>1, <2>2
<1> QED BY <1>1, <1>2, KeptInvariant, ClientInvariant, PTL DEF ESpec

(* A transaction is committed only when the document on disk mentions its assets and
   they are in place, even though the helper verified both some steps before: Emacs
   does not write the document again meanwhile.  The quit of a kill is left out,
   after which a reconciliation may remove final assets (see README). *)
THEOREM CommitsSound ==
  ASSUME "quit-kill" \notin Ways
  PROVE  ESpec => CommitsMentionedAssets
<1> DEFINE Sound == \A t \in Txs :
               manifest'[t].State = "COMMITTED" /\ manifest[t].State # "COMMITTED"
                 => mentioned[t] /\ (Unshared(t) => FinalAssets(t) \subseteq files)
<1>1. ASSUME ClientInv, KeptInv, CommitInv, NEW t \in Txs, NEW u \in Txs, Served(u),
             manifest'[t].State = "COMMITTED", manifest[t].State # "COMMITTED"
      PROVE  mentioned[t] /\ (Unshared(t) => FinalAssets(t) \subseteq files)
  <2>0. TypeOK /\ \A v \in Txs : OwnPaths(v) BY <1>1 DEF ClientInv, KeptInv
  <2>1. t = u /\ Work(t) BY <1>1, <2>0, ServedAlone
  <2>2. manifest \in [Txs -> Manifests(Files)] BY <2>0 DEF TypeOK
  <2>3. Settle(t)
    <3>1. CASE WriteManifest(t)
      <4>1. Wanted(t).State # "COMMITTED"
        BY <2>2 DEF Wanted, Create, Prepare, Transition, Manifests
      <4> QED BY <1>1, <2>2, <3>1, <4>1 DEF WriteManifest
    <3>2. CASE Recover(t)
      <4>1. Recovery(t).State # "COMMITTED"
        BY <2>2 DEF Recovery, RecordRecovery, Create, TransitionOrphans, Manifests
      <4> QED BY <1>1, <2>2, <3>2, <4>1 DEF Recover
    <3>3. CASE manifest' = manifest BY <1>1, <3>3
    <3> QED
      BY <2>1, <3>1, <3>2, <3>3 DEF Work, PublishOne, PublishFails, PublishDone, WriteFails,
         RemoveOne, RemoveFails, Compensated
  <2>4. Settled(t).State = "COMMITTED" BY <1>1, <2>2, <2>3 DEF Settle
  <2>5. job[t].op # "abort" /\ job[t].at = "remove" /\ Working(t)
    BY <2>2, <2>3, <2>4 DEF Settle, Settled, TransitionOrphans, Transition, Manifests, Working
  <2>6. t \notin discarded BY <1>1, <2>5 DEF CommitInv, Discarding
  <2>7. Kept(t) BY <1>1, <2>6 DEF KeptInv
  <2>8. job[t].op \in {"commit", "reconcile"} /\ manifest[t].Place = "final"
    BY <2>5, <2>7 DEF Kept, Hired
  <2>9. mentioned[t] BY <1>1, <2>5, <2>8 DEF CommitInv, Settling
  <2> QED BY <2>7, <2>8, <2>9 DEF Kept, Bytes
<1>2. ClientInv /\ KeptInv /\ CommitInv /\ [ENext]_allVars => Sound
  <2>1. ClientInv /\ KeptInv /\ [ENext]_allVars
          => manifest' = manifest \/ \E u \in Txs : Served(u)
    BY HelperCases DEF Still, allVars, vars, KeptInv
  <2> QED BY <1>1, <2>1
<1> HIDE DEF Sound
<1>3. ClientInv /\ KeptInv /\ CommitInv /\ [ENext]_allVars => [Sound]_allVars BY <1>2
<1>4. ESpec => [][Sound]_allVars
  BY <1>3, CommitInvariant, KeptInvariant, ClientInvariant, PTL DEF ESpec
<1> QED BY <1>4 DEF Sound, CommitsMentionedAssets

-----------------------------------------------------------------------------
(***************************************************************************)
(* What a transaction put on disk is on the lists of its manifest or of    *)
(* its helper, so an abort finds it (Traced, Accounted) - as long as no    *)
(* helper dies or is deleted while it publishes and every removal succeeds.*)
(***************************************************************************)

\* What is on the transaction's paths and was not there before.
Leftover(t) == (Own(t) \cap files) \ PreExisting

Recorded(t) == manifest[t].CreatedFiles \cup manifest[t].StagingFiles

\* What its helper still knows besides.
Held(t) ==
  IF job[t].at \in {"publish", "write"} THEN job[t].made
  ELSE IF job[t].at \in {"undo", "rollback"} THEN job[t].doomed ELSE {}

\* Which helper works on which manifest; nothing is ever left over by a removal.
Traced(t) ==
  LET j == job[t]
      m == manifest[t]
  IN  /\ m.State # "NEEDS_RECONCILIATION" /\ j.orphans = {} /\ j.at # "recover"
      /\ Working(t) /\ j.op = "abort" => m.State \in {"STAGED", "PREPARED"}
      /\ m.State = "STAGED" => m.CreatedFiles \subseteq m.StagingFiles
      /\ Working(t) /\ j.op \in {"import", "import-owned"} => m.State = "NONE"
      /\ Working(t) /\ j.op = "finalize" => m.State \in {"STAGED", "ABORTED"}
      /\ j.at \in {"publish", "undo", "rollback"} => j.op \in {"import", "import-owned", "finalize"}
      /\ j.at = "write" => /\ j.op \in {"import", "finalize", "document-saved"}
                           /\ j.op = "document-saved"
                                => j.made = {} /\ m.State \in {"PREPARED", "DOCUMENT_SAVED"}
      /\ j.at = "remove" => j.op \in {"commit", "reconcile", "abort"}

Accounted(t) ==
  LET m == manifest[t]
  IN  /\ m.State = "NONE" /\ Working(t) /\ job[t].op = "import" => Leftover(t) \subseteq Held(t)
      /\ m.State \notin {"NONE", "ABORTED"} => Leftover(t) \subseteq Recorded(t) \cup Held(t)
      /\ job[t].at = "remove" /\ job[t].op = "abort" => Leftover(t) \subseteq job[t].doomed
      /\ m.State = "ABORTED" => Leftover(t) = {}

\* Nothing happens before the paste.
Newborn(t) == import[t] = "new" => job[t].at = "idle" /\ (Unshared(t) => Leftover(t) = {})

\* What a quit deletes while a buffer is killed is an abort.
KillCall(b) ==
  doing[b].at = "kill" /\ doing[b].call # NoTx
    => job[doing[b].call].at # "idle" /\ job[doing[b].call].op = "abort"

AbortInv ==
  /\ \A t \in Txs : Traced(t) /\ Newborn(t) /\ (Unshared(t) => Accounted(t))
  /\ \A b \in Buffers : KillCall(b)

-----------------------------------------------------------------------------
(* What happens to a helper *)

Asked(t) ==
  /\ t \in known /\ job[t].at = "idle"
  /\ \/ StartFinalize(t) \/ StartDocumentSaved(t) \/ StartCommit(t)
     \/ StartReconcile(t) \/ (StartAbort(t) /\ Ready(t, "kill"))

Heard(t) ==
  /\ Dismiss(t)
  /\ \/ ImportReply(t)
     \/ doing[Home[t]].call = t /\ (job[t].at = "replied" \/ Quit(Home[t]))

Dealt(t) == Paste(t) \/ Asked(t) \/ Heard(t) \/ Work(t) \/ Die(t)

(* Every step deals with one transaction, or with no manifest, file or helper. *)
LEMMA Deals ==
  ASSUME ClientInv, KeptInv, [ENext]_allVars
  PROVE  UNCHANGED <<manifest, files, job>> \/ \E t \in Txs : Dealt(t)
<1> DEFINE Goal == UNCHANGED <<manifest, files, job>> \/ \E t \in Txs : Dealt(t)
<1>1. ASSUME NEW b \in Buffers, User(b) PROVE Goal
  <2>1. CASE Quit(b)
    <3>1. doing[b].call \in Txs /\ Home[doing[b].call] = b BY <2>1, CallFacts DEF Quit
    <3> QED BY <2>1, <3>1 DEF Quit, Dealt, Heard
  <2>2. CASE Type(b) \/ SetVisited(b) \/ FirstSave(b) \/ PlainSave(b) \/ BeginSave(b)
             \/ BeginKill(b) \/ Crash(b)
    BY <2>2 DEF Type, SetVisited, FirstSave, PlainSave, BeginSave, BeginKill, Crash, Leave,
                WriteBuffer, vars
  <2> QED BY <1>1, <2>1, <2>2 DEF User
<1>2. ASSUME NEW b \in Buffers, SaveStep(b) \/ KillStep(b) PROVE Goal
  <2>1. CASE WriteDocument(b) \/ WriteDocumentFails(b) \/ EndSave(b) \/ EndKill(b)
    BY <2>1 DEF WriteDocument, WriteDocumentFails, EndSave, EndKill, Leave, WriteBuffer, vars
  <2>2. ASSUME NEW t \in Of(b),
               \/ CallFinalize(t) \/ PrepareReply(t) \/ CallReconcile(t)
               \/ DropSettled(t) \/ CallDocumentSaved(t) \/ DocumentSavedReply(t)
               \/ CallCommit(t) \/ CommitReply(t) \/ CallAbort(t) \/ AbortReply(t)
        PROVE  Goal
    <3>0. t \in Txs /\ Home[t] = b BY DEF Of
    <3>1. CASE DropSettled(t) BY <3>1 DEF DropSettled, vars
    <3>2. CASE \/ PrepareReply(t) \/ DocumentSavedReply(t) \/ CommitReply(t) \/ AbortReply(t)
      BY <3>0, <3>2 DEF PrepareReply, DocumentSavedReply, CommitReply, AbortReply, Replied, Dealt, Heard
    <3>3. CASE CallFinalize(t) \/ CallDocumentSaved(t) \/ CallAbort(t)
      <4>1. t \in known
        BY <3>0, <3>3 DEF CallFinalize, CallDocumentSaved, CallAbort, Ready, KeptInv, Visited
      <4> QED BY <3>0, <3>3, <4>1 DEF CallFinalize, CallDocumentSaved, CallAbort, Call, Dealt, Asked
    <3>4. CASE CallReconcile(t) \/ CallCommit(t)
      <4>1. t \in known
        <5>1. doing[b].call = t BY <3>0, <3>4 DEF CallReconcile, CallCommit, CallAgain
        <5> QED BY <3>0, <5>1, EmacsAssumption DEF KeptInv, Visited
      <4> QED BY <3>0, <3>4, <4>1 DEF CallReconcile, CallCommit, CallAgain, Dealt, Asked
    <3> QED BY <2>2, <3>1, <3>2, <3>3, <3>4
  <2> QED BY <1>2, <2>1, <2>2 DEF SaveStep, KillStep
<1>3. ASSUME NEW t \in Txs, Paste(t) \/ EditOut(t) \/ ImportReply(t) \/ HelperStep(t)
      PROVE  Goal
  BY <1>3 DEF EditOut, ImportReply, HelperStep, Dealt, Heard, vars
<1>4. CASE UNCHANGED allVars BY <1>4 DEF allVars, vars
<1> QED BY <1>1, <1>2, <1>3, <1>4 DEF ENext

\* The helper has answered and knows of no file any more.
Ended(t) ==
  /\ job'[t].at = "replied" /\ job'[t].op = job[t].op
  /\ job'[t].left = {} /\ job'[t].made = {} /\ job'[t].doomed = {} /\ job'[t].orphans = {}

\* It goes on, with the same files made and left over.
Goes(t, at) ==
  /\ job'[t].at = at /\ job'[t].op = job[t].op /\ job'[t].left = job[t].left
  /\ job'[t].made = job[t].made /\ job'[t].orphans = job[t].orphans

(* What the steps of a helper write, field by field. *)
LEMMA WorkFields ==
  ASSUME TypeOK, NEW t \in Txs
  PROVE  /\ PublishOne(t) =>
              /\ job[t].at = "publish" /\ manifest' = manifest
              /\ \E c \in job[t].left :
                   /\ Readable(t, c) /\ files' = files \cup {Target(t, c)}
                   /\ job'[t].left = job[t].left \ {c}
                   /\ job'[t].made = IF Target(t, c) \in files THEN job[t].made
                                     ELSE job[t].made \cup {Target(t, c)}
              /\ job'[t].at = "publish" /\ job'[t].op = job[t].op
              /\ job'[t].orphans = job[t].orphans
         /\ PublishFails(t) =>
              /\ job[t].at = "publish" /\ UNCHANGED <<manifest, files>>
              /\ Goes(t, "undo") /\ job'[t].doomed = job[t].made
         /\ PublishDone(t) =>
              /\ job[t].at = "publish" /\ job[t].left = {} /\ UNCHANGED <<manifest, files>>
              /\ IF job[t].op = "import-owned" THEN Ended(t) ELSE Goes(t, "write")
         /\ WriteManifest(t) =>
              /\ job[t].at = "write" /\ Accepted(t) /\ files' = files
              /\ manifest'[t] = Wanted(t) /\ Ended(t)
         /\ WriteFails(t) =>
              /\ job[t].at = "write" /\ UNCHANGED <<manifest, files>>
              /\ ~ Accepted(t) \/ Fault(t, "write")
              /\ IF job[t].op = "document-saved" THEN Ended(t) /\ ~ job'[t].ok
                 ELSE Goes(t, "rollback") /\ job'[t].doomed = job[t].made
         /\ RemoveOne(t) =>
              /\ job[t].at \in Removing /\ manifest' = manifest /\ Goes(t, job[t].at)
              /\ \E f \in job[t].doomed :
                   files' = files \ {f} /\ job'[t].doomed = job[t].doomed \ {f}
         /\ RemoveFails(t) => "remove" \in Faults
         /\ Compensated(t) =>
              /\ job[t].at \in {"undo", "rollback"} /\ job[t].doomed = {}
              /\ UNCHANGED <<manifest, files>> /\ (job[t].orphans = {} => Ended(t) /\ ~ job'[t].ok)
         /\ Recover(t) => job[t].at = "recover"
         /\ Settle(t) =>
              /\ job[t].at = "remove" /\ job[t].doomed = {} /\ files' = files /\ Ended(t)
              /\ \/ manifest' = manifest /\ ~ job'[t].ok
                 \/ /\ AllowedTransition(manifest[t].State, Settled(t).State)
                    /\ manifest'[t] = Settled(t)
         /\ Die(t) => /\ "kill" \in Faults /\ UNCHANGED <<manifest, files>>
                      /\ Ended(t) /\ ~ job'[t].ok
                      /\ job[t].op = "document-saved" => "lost-ack" \in Faults
<1>0. /\ job \in [Txs -> Jobs] /\ job[t] \in Jobs /\ manifest \in [Txs -> Manifests(Files)]
  BY DEF TypeOK
<1>1. ASSUME NEW ok, Reply(t, ok) PROVE Ended(t) /\ job'[t].ok = ok
  BY <1>0, <1>1 DEF Reply, Answer, NoJob, Ended
<1>2. ASSUME NEW at, GoTo(t, at) PROVE Goes(t, at)
  BY <1>0, <1>2 DEF GoTo, Jobs, Goes
<1>3. ASSUME PublishOne(t)
      PROVE  /\ job[t].at = "publish" /\ manifest' = manifest
             /\ \E c \in job[t].left :
                  /\ Readable(t, c) /\ files' = files \cup {Target(t, c)}
                  /\ job'[t].left = job[t].left \ {c}
                  /\ job'[t].made = IF Target(t, c) \in files THEN job[t].made
                                    ELSE job[t].made \cup {Target(t, c)}
             /\ job'[t].at = "publish" /\ job'[t].op = job[t].op
             /\ job'[t].orphans = job[t].orphans
  <2>1. PICK c \in job[t].left :
          /\ Readable(t, c) /\ files' = files \cup {Target(t, c)}
          /\ job' = [job EXCEPT ![t].left = @ \ {c},
                                ![t].made = IF Target(t, c) \in files THEN @
                                            ELSE @ \cup {Target(t, c)}]
    BY <1>3 DEF PublishOne
  <2>2. /\ job'[t].left = job[t].left \ {c}
        /\ job'[t].made = IF Target(t, c) \in files THEN job[t].made
                          ELSE job[t].made \cup {Target(t, c)}
        /\ job'[t].at = job[t].at /\ job'[t].op = job[t].op
        /\ job'[t].orphans = job[t].orphans
    BY <1>0, <2>1 DEF Jobs
  <2>3. job[t].at = "publish" /\ manifest' = manifest BY <1>3 DEF PublishOne
  <2> QED BY <2>1, <2>2, <2>3
<1>4. ASSUME PublishFails(t)
      PROVE  /\ job[t].at = "publish" /\ UNCHANGED <<manifest, files>>
             /\ Goes(t, "undo") /\ job'[t].doomed = job[t].made
  BY <1>0, <1>4 DEF PublishFails, Jobs, Goes
<1>5. ASSUME PublishDone(t)
      PROVE  /\ job[t].at = "publish" /\ job[t].left = {} /\ UNCHANGED <<manifest, files>>
             /\ IF job[t].op = "import-owned" THEN Ended(t) ELSE Goes(t, "write")
  BY <1>1, <1>2, <1>5 DEF PublishDone
<1>6. ASSUME WriteManifest(t)
      PROVE  /\ job[t].at = "write" /\ Accepted(t) /\ files' = files
             /\ manifest'[t] = Wanted(t) /\ Ended(t)
  BY <1>0, <1>1, <1>6 DEF WriteManifest
<1>7. ASSUME WriteFails(t)
      PROVE  /\ job[t].at = "write" /\ UNCHANGED <<manifest, files>>
             /\ ~ Accepted(t) \/ Fault(t, "write")
             /\ IF job[t].op = "document-saved" THEN Ended(t) /\ ~ job'[t].ok
                ELSE Goes(t, "rollback") /\ job'[t].doomed = job[t].made
  <2>1. CASE job[t].op = "document-saved" BY <1>1, <1>7, <2>1 DEF WriteFails
  <2>2. CASE job[t].op # "document-saved"
    <3>1. Goes(t, "rollback") /\ job'[t].doomed = job[t].made
      BY <1>0, <1>7, <2>2 DEF WriteFails, Jobs, Goes
    <3> QED BY <1>7, <2>2, <3>1 DEF WriteFails
  <2> QED BY <2>1, <2>2
<1>8. ASSUME RemoveOne(t)
      PROVE  /\ job[t].at \in Removing /\ manifest' = manifest /\ Goes(t, job[t].at)
             /\ \E f \in job[t].doomed :
                  files' = files \ {f} /\ job'[t].doomed = job[t].doomed \ {f}
  <2>1. PICK f \in NextDoomed(t) :
          files' = files \ {f} /\ job' = [job EXCEPT ![t].doomed = @ \ {f}]
    BY <1>8 DEF RemoveOne
  <2>2. f \in job[t].doomed BY <2>1 DEF NextDoomed
  <2>3. Goes(t, job[t].at) /\ job'[t].doomed = job[t].doomed \ {f}
    BY <1>0, <2>1 DEF Jobs, Goes
  <2> QED BY <1>8, <2>1, <2>2, <2>3 DEF RemoveOne
<1>9. RemoveFails(t) => "remove" \in Faults BY DEF RemoveFails, Fault
<1>10. ASSUME Compensated(t)
       PROVE  /\ job[t].at \in {"undo", "rollback"} /\ job[t].doomed = {}
              /\ UNCHANGED <<manifest, files>> /\ (job[t].orphans = {} => Ended(t) /\ ~ job'[t].ok)
  BY <1>1, <1>10 DEF Compensated
<1>11. Recover(t) => job[t].at = "recover" BY DEF Recover
<1>12. ASSUME Settle(t)
       PROVE  /\ job[t].at = "remove" /\ job[t].doomed = {} /\ files' = files /\ Ended(t)
              /\ \/ manifest' = manifest /\ ~ job'[t].ok
                 \/ /\ AllowedTransition(manifest[t].State, Settled(t).State)
                    /\ manifest'[t] = Settled(t)
  BY <1>0, <1>1, <1>12 DEF Settle
<1>13. ASSUME Die(t)
       PROVE  /\ "kill" \in Faults /\ UNCHANGED <<manifest, files>> /\ Ended(t) /\ ~ job'[t].ok
              /\ job[t].op = "document-saved" => "lost-ack" \in Faults
  BY <1>1, <1>13 DEF Die, Fault
<1> QED
  BY <1>3, <1>4, <1>5, <1>6, <1>7, <1>8, <1>9, <1>10, <1>11, <1>12, <1>13


\* A helper that was just started, or is no more.
Clean(t) == job'[t].made = {} /\ job'[t].orphans = {} /\ job'[t].doomed = {}

(* What a request writes, and what of the manifest it relies on. *)
LEMMA RequestFields ==
  ASSUME TypeOK, NEW t \in Txs
  PROVE  /\ StartImport(t) =>
              /\ UNCHANGED <<manifest, files>> /\ manifest[t].State = "NONE" /\ Clean(t)
              /\ job'[t].op = "import" /\ job'[t].at = "publish" /\ job'[t].left = Payload[t]
         /\ StartImportOwned(t) =>
              /\ UNCHANGED <<manifest, files>> /\ manifest[t].State = "NONE" /\ Clean(t)
              /\ job'[t].op = "import-owned" /\ job'[t].at = "publish"
              /\ job'[t].left = Payload[t]
         /\ StartFinalize(t) =>
              /\ UNCHANGED <<manifest, files>> /\ job'[t].op = "finalize" /\ Clean(t)
              /\ \/ job'[t].at = "replied"
                 \/ job'[t].at = "publish" /\ manifest[t].State \notin Prepared \cup {"NONE"}
         /\ StartDocumentSaved(t) =>
              /\ UNCHANGED <<manifest, files>> /\ job'[t].op = "document-saved" /\ Clean(t)
              /\ IF AllowedTransition(manifest[t].State, "DOCUMENT_SAVED")
                 THEN job'[t].at = "write" ELSE job'[t].at = "replied"
         /\ StartCommit(t) =>
              /\ UNCHANGED <<manifest, files>> /\ job'[t].op = "commit"
              /\ job'[t].made = {} /\ job'[t].orphans = {}
              /\ \/ job'[t].at = "replied" /\ (job'[t].ok => manifest[t].State = "COMMITTED")
                 \/ job'[t].at = "remove" /\ manifest[t].State = "DOCUMENT_SAVED"
         /\ StartReconcile(t) =>
              /\ UNCHANGED <<manifest, files>> /\ job'[t].op = "reconcile"
              /\ job'[t].made = {} /\ job'[t].orphans = {}
              /\ \/ job'[t].at = "replied"
                 \/ job'[t].at = "remove" /\ manifest[t].State = "NEEDS_RECONCILIATION"
         /\ StartAbort(t) =>
              /\ UNCHANGED <<manifest, files>> /\ job'[t].op = "abort"
              /\ job'[t].made = {} /\ job'[t].orphans = {}
              /\ \/ job'[t].at = "replied"
                 \/ /\ job'[t].at = "remove" /\ manifest[t].State \in Abortable
                    /\ job'[t].doomed = Recorded(t)
         /\ Dismiss(t) =>
              /\ UNCHANGED <<manifest, files>> /\ Clean(t)
              /\ job'[t].op = "none" /\ job'[t].at = "idle" /\ ~ job'[t].ok
<1>0. job \in [Txs -> Jobs] BY DEF TypeOK
<1>1. ASSUME NEW op, NEW ok, Answer(t, op, ok)
      PROVE  job'[t].op = op /\ job'[t].at = "replied" /\ job'[t].ok = ok /\ Clean(t)
  BY <1>0, <1>1 DEF Answer, NoJob, Clean
<1>2. ASSUME NEW op, NEW paths, BeginRemoval(t, op, paths)
      PROVE  /\ job'[t].op = op /\ job'[t].at = "remove" /\ job'[t].doomed = paths
             /\ job'[t].made = {} /\ job'[t].orphans = {}
  BY <1>0, <1>2 DEF BeginRemoval, NoJob
<1>3. ASSUME NEW op, job' = [job EXCEPT ![t] =
               [NoJob EXCEPT !.op = op, !.at = "publish", !.left = Payload[t]]]
      PROVE  job'[t].op = op /\ job'[t].at = "publish" /\ job'[t].left = Payload[t] /\ Clean(t)
  BY <1>0, <1>3 DEF NoJob, Clean
<1>4. ASSUME NEW op, NEW at, Begin(t, op, at)
      PROVE  job'[t].op = op /\ job'[t].at = at /\ Clean(t)
  BY <1>0, <1>4 DEF Begin, NoJob, Clean
<1>5. ASSUME StartImport(t)
      PROVE  /\ UNCHANGED <<manifest, files>> /\ manifest[t].State = "NONE" /\ Clean(t)
             /\ job'[t].op = "import" /\ job'[t].at = "publish" /\ job'[t].left = Payload[t]
  BY <1>3, <1>5 DEF StartImport
<1>6. ASSUME StartImportOwned(t)
      PROVE  /\ UNCHANGED <<manifest, files>> /\ manifest[t].State = "NONE" /\ Clean(t)
             /\ job'[t].op = "import-owned" /\ job'[t].at = "publish"
             /\ job'[t].left = Payload[t]
  BY <1>3, <1>6 DEF StartImportOwned
<1>7. ASSUME StartFinalize(t)
      PROVE  /\ UNCHANGED <<manifest, files>> /\ job'[t].op = "finalize" /\ Clean(t)
             /\ \/ job'[t].at = "replied"
                \/ job'[t].at = "publish" /\ manifest[t].State \notin Prepared \cup {"NONE"}
  BY <1>1, <1>3, <1>7 DEF StartFinalize
<1>8. ASSUME StartDocumentSaved(t)
      PROVE  /\ UNCHANGED <<manifest, files>> /\ job'[t].op = "document-saved" /\ Clean(t)
             /\ IF AllowedTransition(manifest[t].State, "DOCUMENT_SAVED")
                THEN job'[t].at = "write" ELSE job'[t].at = "replied"
  BY <1>1, <1>4, <1>8 DEF StartDocumentSaved
<1>9. ASSUME StartCommit(t)
      PROVE  /\ UNCHANGED <<manifest, files>> /\ job'[t].op = "commit"
             /\ job'[t].made = {} /\ job'[t].orphans = {}
             /\ \/ job'[t].at = "replied" /\ (job'[t].ok => manifest[t].State = "COMMITTED")
                \/ job'[t].at = "remove" /\ manifest[t].State = "DOCUMENT_SAVED"
  BY <1>1, <1>2, <1>9 DEF StartCommit, Clean
<1>10. ASSUME StartReconcile(t)
       PROVE  /\ UNCHANGED <<manifest, files>> /\ job'[t].op = "reconcile"
              /\ job'[t].made = {} /\ job'[t].orphans = {}
              /\ \/ job'[t].at = "replied"
                 \/ job'[t].at = "remove" /\ manifest[t].State = "NEEDS_RECONCILIATION"
  BY <1>1, <1>2, <1>10 DEF StartReconcile, Clean
<1>11. ASSUME StartAbort(t)
       PROVE  /\ UNCHANGED <<manifest, files>> /\ job'[t].op = "abort"
              /\ job'[t].made = {} /\ job'[t].orphans = {}
              /\ \/ job'[t].at = "replied"
                 \/ /\ job'[t].at = "remove" /\ manifest[t].State \in Abortable
                    /\ job'[t].doomed = Recorded(t)
  BY <1>1, <1>2, <1>11 DEF StartAbort, Clean, Recorded
<1>12. ASSUME Dismiss(t)
       PROVE  /\ UNCHANGED <<manifest, files>> /\ Clean(t)
              /\ job'[t].op = "none" /\ job'[t].at = "idle" /\ ~ job'[t].ok
  BY <1>0, <1>12 DEF Dismiss, NoJob, Clean
<1> QED BY <1>5, <1>6, <1>7, <1>8, <1>9, <1>10, <1>11, <1>12

(* The manifests a helper writes, when no removal ever fails. *)
LEMMA ManifestFields ==
  ASSUME TypeOK, NEW t \in Txs, Traced(t)
  PROVE  /\ job[t].op = "import" => Wanted(t) = Create(job[t].made)
         /\ job[t].op = "finalize" => /\ Wanted(t).State = "PREPARED"
                                      /\ Wanted(t).CreatedFiles = job[t].made
                                      /\ Wanted(t).StagingFiles = manifest[t].StagingFiles
         /\ job[t].op = "document-saved" => /\ Wanted(t).State = "DOCUMENT_SAVED"
                                            /\ Wanted(t).CreatedFiles = manifest[t].CreatedFiles
                                            /\ Wanted(t).StagingFiles = manifest[t].StagingFiles
         /\ Settled(t).State = IF job[t].op = "abort" THEN "ABORTED" ELSE "COMMITTED"
         /\ Settled(t).CreatedFiles = manifest[t].CreatedFiles
         /\ Settled(t).StagingFiles = manifest[t].StagingFiles
<1>1. manifest[t] \in Manifests(Files) /\ job[t].orphans = {} BY DEF TypeOK, Traced
<1>2. job[t].op = "import" => Wanted(t) = Create(job[t].made) BY DEF Wanted
<1>3. job[t].op = "finalize" => /\ Wanted(t).State = "PREPARED"
                                /\ Wanted(t).CreatedFiles = job[t].made
                                /\ Wanted(t).StagingFiles = manifest[t].StagingFiles
  BY <1>1 DEF Wanted, Prepare, Manifests
<1>4. job[t].op = "document-saved" => /\ Wanted(t).State = "DOCUMENT_SAVED"
                                      /\ Wanted(t).CreatedFiles = manifest[t].CreatedFiles
                                      /\ Wanted(t).StagingFiles = manifest[t].StagingFiles
  BY <1>1 DEF Wanted, Transition, Manifests
<1>5. /\ Settled(t).State = IF job[t].op = "abort" THEN "ABORTED" ELSE "COMMITTED"
      /\ Settled(t).CreatedFiles = manifest[t].CreatedFiles
      /\ Settled(t).StagingFiles = manifest[t].StagingFiles
  BY <1>1 DEF Settled, Transition, TransitionOrphans, Manifests
<1> QED BY <1>2, <1>3, <1>4, <1>5


(* A step that deals with t keeps what helper and manifest are to each other. *)
LEMMA TracedKept ==
  ASSUME "remove" \notin Faults, TypeOK, NEW t \in Txs, Traced(t), Dealt(t)
  PROVE  Traced(t)'
<1>0. manifest[t] \in Manifests(Files) BY DEF TypeOK
<1>1. ASSUME manifest' = manifest, Ended(t) PROVE Traced(t)'
  BY <1>1 DEF Traced, Ended, Working
<1>2. ASSUME manifest' = manifest, job'[t].orphans = {}, job'[t].at = "replied" PROVE Traced(t)'
  BY <1>2 DEF Traced, Working
<1>3. CASE Paste(t)
  <2>1. /\ manifest' = manifest /\ manifest[t].State = "NONE" /\ Clean(t)
        /\ job'[t].op \in {"import", "import-owned"} /\ job'[t].at = "publish"
    BY <1>3, RequestFields DEF Paste
  <2> QED BY <2>1 DEF Traced, Working, Clean
<1>4. CASE StartFinalize(t)
  <2>1. /\ manifest' = manifest /\ job'[t].op = "finalize" /\ Clean(t)
        /\ \/ job'[t].at = "replied"
           \/ job'[t].at = "publish" /\ manifest[t].State \in {"STAGED", "ABORTED"}
    BY <1>0, <1>4, RequestFields DEF Prepared, Manifests, States
  <2> QED BY <2>1 DEF Traced, Working, Clean
<1>5. CASE StartDocumentSaved(t)
  <2>1. /\ manifest' = manifest /\ job'[t].op = "document-saved" /\ Clean(t)
        /\ \/ job'[t].at = "replied"
           \/ job'[t].at = "write" /\ manifest[t].State \in {"PREPARED", "DOCUMENT_SAVED"}
    BY <1>0, <1>5, RequestFields DEF AllowedTransition, Terminal
  <2> QED BY <2>1 DEF Traced, Working, Clean
<1>6. CASE StartCommit(t)
  <2>1. /\ manifest' = manifest /\ job'[t].op = "commit" /\ job'[t].orphans = {}
        /\ job'[t].at \in {"replied", "remove"}
    BY <1>6, RequestFields
  <2> QED BY <2>1 DEF Traced, Working
<1>7. CASE StartReconcile(t)
  <2>1. /\ manifest' = manifest /\ job'[t].op = "reconcile" /\ job'[t].orphans = {}
        /\ job'[t].at \in {"replied", "remove"}
    BY <1>7, RequestFields
  <2> QED BY <2>1 DEF Traced, Working
<1>8. CASE StartAbort(t)
  <2>1. /\ manifest' = manifest /\ job'[t].op = "abort" /\ job'[t].orphans = {}
        /\ \/ job'[t].at = "replied"
           \/ job'[t].at = "remove" /\ manifest[t].State \in Abortable
    BY <1>8, RequestFields
  <2> QED BY <2>1 DEF Traced, Working, Abortable
<1>9. CASE Dismiss(t)
  <2>1. manifest' = manifest /\ Clean(t) /\ job'[t].at = "idle" BY <1>9, RequestFields
  <2> QED BY <2>1 DEF Traced, Working, Clean
<1>10. CASE PublishOne(t)
  <2>1. /\ job[t].at = "publish" /\ manifest' = manifest
        /\ job'[t].at = "publish" /\ job'[t].op = job[t].op /\ job'[t].orphans = job[t].orphans
    BY <1>10, WorkFields
  <2> QED BY <2>1 DEF Traced, Working
<1>11. CASE PublishFails(t)
  <2>1. job[t].at = "publish" /\ manifest' = manifest /\ Goes(t, "undo")
    BY <1>11, WorkFields
  <2> QED BY <2>1 DEF Traced, Working, Goes
<1>12. CASE PublishDone(t)
  <2>1. /\ job[t].at = "publish" /\ manifest' = manifest
        /\ IF job[t].op = "import-owned" THEN Ended(t) ELSE Goes(t, "write")
    BY <1>12, WorkFields
  <2>2. CASE job[t].op = "import-owned" BY <1>1, <2>1, <2>2
  <2>3. CASE job[t].op # "import-owned" BY <2>1, <2>3 DEF Traced, Working, Goes
  <2> QED BY <2>2, <2>3
<1>13. CASE WriteManifest(t)
  <2>1. job[t].at = "write" /\ manifest'[t] = Wanted(t) /\ Ended(t) BY <1>13, WorkFields
  <2>2. job[t].op \in {"import", "finalize", "document-saved"} BY <2>1 DEF Traced
  <2>3. \/ manifest'[t].State = "STAGED" /\ manifest'[t].CreatedFiles = manifest'[t].StagingFiles
        \/ manifest'[t].State \in {"PREPARED", "DOCUMENT_SAVED"}
    BY <2>1, <2>2, ManifestFields DEF Create
  <2> QED BY <2>1, <2>3 DEF Traced, Working, Ended
<1>14. CASE WriteFails(t)
  <2>1. /\ job[t].at = "write" /\ manifest' = manifest
        /\ IF job[t].op = "document-saved" THEN Ended(t) ELSE Goes(t, "rollback")
    BY <1>14, WorkFields
  <2>2. CASE job[t].op = "document-saved" BY <1>1, <2>1, <2>2
  <2>3. CASE job[t].op # "document-saved" BY <2>1, <2>3 DEF Traced, Working, Goes
  <2> QED BY <2>2, <2>3
<1>15. CASE RemoveOne(t)
  <2>1. job[t].at \in Removing /\ manifest' = manifest /\ Goes(t, job[t].at)
    BY <1>15, WorkFields
  <2> QED BY <2>1 DEF Traced, Working, Goes, Removing
<1>16. CASE Compensated(t)
  <2>1. manifest' = manifest /\ Ended(t) BY <1>16, WorkFields DEF Traced
  <2> QED BY <1>1, <2>1
<1>17. CASE Settle(t)
  <2>1. /\ Ended(t)
        /\ manifest' = manifest \/ manifest'[t] = Settled(t)
    BY <1>17, WorkFields
  <2>2. CASE manifest'[t] = Settled(t)
    <3>1. manifest'[t].State \in {"ABORTED", "COMMITTED"} BY <2>2, ManifestFields
    <3> QED BY <2>1, <3>1 DEF Traced, Working, Ended
  <2> QED BY <1>1, <2>1, <2>2
<1>18. CASE Die(t)
  <2>1. manifest' = manifest /\ Ended(t) BY <1>18, WorkFields
  <2> QED BY <1>1, <2>1
<1>19. ~ Recover(t) /\ ~ RemoveFails(t) BY WorkFields DEF Traced
<1> QED
  BY <1>3, <1>4, <1>5, <1>6, <1>7, <1>8, <1>9, <1>10, <1>11, <1>12, <1>13, <1>14, <1>15, <1>16,
     <1>17, <1>18, <1>19 DEF Dealt, Asked, Heard, Work

(* Steps of one transaction leave the others' manifests and helpers alone, and their
   files too. *)
LEMMA DealtAlone ==
  ASSUME TypeOK, NEW t \in Txs, OwnPaths(t), Dealt(t)
  PROVE  /\ \A u \in Txs \ {t} : job'[u] = job[u] /\ manifest'[u] = manifest[u]
         /\ files' \ Own(t) = files \ Own(t)
<1>0. job \in [Txs -> Jobs] /\ manifest \in [Txs -> Manifests(Files)] BY DEF TypeOK
<1>1. CASE Request(t) BY <1>1, RequestOwn
<1>2. CASE Dismiss(t) BY <1>0, <1>2 DEF Dismiss
<1>3. CASE Die(t) BY <1>0, <1>3 DEF Die, Reply, Answer
<1>4. CASE Work(t)
  <2>1. \A u \in Txs \ {t} : job'[u] = job[u] /\ manifest'[u] = manifest[u]
    <3>1. \A u \in Txs \ {t} : job'[u] = job[u] BY <1>4, WorkEffect
    <3>2. CASE manifest' = manifest BY <3>1, <3>2
    <3>3. CASE WriteManifest(t) \/ Recover(t) \/ Settle(t)
      BY <1>0, <3>1, <3>3 DEF WriteManifest, Recover, Settle
    <3> QED BY <1>4, <3>2, <3>3 DEF Work, PublishOne, PublishFails, PublishDone, WriteFails,
                                    RemoveOne, RemoveFails, Compensated
  <2>2. CASE PublishOne(t)
    <3>1. \E c \in job[t].left : files' = files \cup {Target(t, c)} BY <2>2, WorkFields
    <3>2. \A c \in job[t].left : Target(t, c) \in Own(t) BY TargetOwn DEF OwnPaths
    <3> QED BY <2>1, <3>1, <3>2
  <2>3. CASE RemoveOne(t)
    <3>1. \E f \in job[t].doomed : files' = files \ {f} BY <2>3, WorkFields
    <3>2. job[t].doomed \subseteq Own(t) BY DEF OwnPaths, Removable
    <3> QED BY <2>1, <3>1, <3>2
  <2>4. CASE files' = files BY <2>1, <2>4
  <2> QED BY <1>4, <2>2, <2>3, <2>4 DEF Work, PublishFails, PublishDone, WriteManifest,
             WriteFails, RemoveFails, Compensated, Recover, Settle
<1> QED BY <1>1, <1>2, <1>3, <1>4 DEF Dealt, Asked, Heard, Request, Paste

(* Which helper works on which manifest, for every transaction. *)
LEMMA TracedInvariant ==
  ASSUME "remove" \notin Faults
  PROVE  ESpec => [](\A t \in Txs : Traced(t))
<1>1. EInit => \A t \in Txs : Traced(t)
  BY DEF EInit, Init, NoJob, NoManifest, Traced, Working
<1>2. ClientInv /\ KeptInv /\ (\A t \in Txs : Traced(t)) /\ [ENext]_allVars
        => (\A t \in Txs : Traced(t))'
  <2> SUFFICES ASSUME ClientInv, KeptInv, \A t \in Txs : Traced(t), [ENext]_allVars,
                      NEW u \in Txs
               PROVE  Traced(u)'
    OBVIOUS
  <2>0. TypeOK /\ \A t \in Txs : OwnPaths(t) BY DEF ClientInv, KeptInv
  <2>1. CASE job'[u] = job[u] /\ manifest'[u] = manifest[u] BY <2>1 DEF Traced, Working
  <2>2. ASSUME NEW t \in Txs, Dealt(t) PROVE Traced(u)'
    <3>1. CASE t = u BY <2>0, <2>2, <3>1, TracedKept
    <3>2. CASE t # u BY <2>0, <2>1, <2>2, <3>2, DealtAlone
    <3> QED BY <3>1, <3>2
  <2> QED BY <2>1, <2>2, Deals
<1> QED BY <1>1, <1>2, KeptInvariant, ClientInvariant, PTL DEF ESpec

-----------------------------------------------------------------------------
(* Aborts *)

(* What was put on disk is on a list: the helper's while it works, the manifest's
   when it has answered. *)
LEMMA AccountedKept ==
  ASSUME "remove" \notin Faults, "kill" \notin Faults, TypeOK, NEW t \in Txs,
         OwnPaths(t), Traced(t), Accounted(t), Dealt(t),
         Paste(t) => Leftover(t) = {},
         Quit(Home[t]) /\ doing[Home[t]].call = t => job[t].op = "abort"
  PROVE  Accounted(t)'
<1>0. /\ manifest[t] \in Manifests(Files)
      /\ Own(t)' = Own(t) /\ \A b \in Buffers : \A c : <<b, c>> \notin PreExisting
  BY ConstantsAssumption
     DEF TypeOK, Own, StagedAssets, FinalAssets, StagingPath, FinalPath
<1>1. ASSUME UNCHANGED <<manifest, files>>,
             Leftover(t) \subseteq Recorded(t) \/ manifest[t].State = "NONE",
             job'[t].at \in {"idle", "replied"}
      PROVE  Accounted(t)'
  BY <1>0, <1>1 DEF Accounted, Leftover, Recorded, Held, Working
(* At rest, all that is there is on the lists of the manifest. *)
<1>2. job[t].at \notin {"publish", "write", "undo", "rollback"}
        => /\ Leftover(t) \subseteq Recorded(t) \/ manifest[t].State = "NONE"
           /\ manifest[t].State = "ABORTED" => Leftover(t) = {}
  BY DEF Accounted, Held
<1>3. CASE Paste(t)
  <2>1. /\ UNCHANGED <<manifest, files>> /\ manifest[t].State = "NONE"
        /\ job'[t].at = "publish"
    BY <1>3, RequestFields DEF Paste
  <2> QED BY <1>0, <1>3, <2>1 DEF Accounted, Leftover
<1>4. CASE job[t].at = "idle" /\ StartFinalize(t)
  <2>1. /\ UNCHANGED <<manifest, files>> /\ job'[t].at \in {"replied", "publish"}
        /\ job'[t].op = "finalize"
    BY <1>4, RequestFields
  <2> QED BY <1>0, <1>2, <1>4, <2>1 DEF Accounted, Leftover, Recorded
<1>5. CASE job[t].at = "idle" /\ (StartDocumentSaved(t) \/ StartCommit(t) \/ StartReconcile(t))
  <2>1. /\ UNCHANGED <<manifest, files>> /\ job'[t].op \notin {"import", "abort"}
    BY <1>5, RequestFields
  <2> QED BY <1>0, <1>2, <1>5, <2>1 DEF Accounted, Leftover, Recorded
<1>6. CASE job[t].at = "idle" /\ StartAbort(t)
  <2>1. /\ UNCHANGED <<manifest, files>> /\ job'[t].op = "abort"
        /\ \/ job'[t].at = "replied"
           \/ /\ job'[t].at = "remove" /\ manifest[t].State \in Abortable
              /\ job'[t].doomed = Recorded(t)
    BY <1>6, RequestFields
  <2> QED BY <1>0, <1>2, <1>6, <2>1 DEF Accounted, Leftover, Recorded, Abortable
<1>7. CASE Heard(t)
  <2>1. UNCHANGED <<manifest, files>> /\ job'[t].at = "idle" BY <1>7, RequestFields DEF Heard
  <2>2. job[t].at \notin {"publish", "write", "undo", "rollback"}
    BY <1>7 DEF Traced, Heard, ImportReply
  <2> QED BY <1>1, <1>2, <2>1, <2>2
<1>8. CASE PublishOne(t)
  <2>1. /\ job[t].at = "publish" /\ manifest' = manifest
        /\ job'[t].at = "publish" /\ job'[t].op = job[t].op
    BY <1>8, WorkFields
  <2>2. PICK c \in job[t].left :
          /\ Readable(t, c) /\ files' = files \cup {Target(t, c)}
          /\ job'[t].made = IF Target(t, c) \in files THEN job[t].made
                            ELSE job[t].made \cup {Target(t, c)}
    BY <1>8, WorkFields
  <2>3. Leftover(t)' \subseteq Leftover(t) \cup Held(t)' /\ Held(t) \subseteq Held(t)'
    <3>1. Held(t) = job[t].made /\ Held(t)' = job'[t].made BY <2>1 DEF Held
    <3>2. Leftover(t)' \subseteq Leftover(t) \cup {Target(t, c)} BY <1>0, <2>2 DEF Leftover
    <3>3. Target(t, c) \in files => Leftover(t)' = Leftover(t) BY <1>0, <2>2 DEF Leftover
    <3> QED BY <2>2, <3>1, <3>2, <3>3
  <2>4. manifest[t].State = "ABORTED" => Target(t, c) \in files
    <3> SUFFICES ASSUME manifest[t].State = "ABORTED" PROVE Target(t, c) \in files
      OBVIOUS
    <3>1. job[t].op = "finalize" BY <2>1 DEF Traced, Working
    <3>2. c \in Payload[t] /\ Home[t] \in Buffers BY ConstantsAssumption DEF OwnPaths
    <3>3. StagingPath(t, c) \notin files
      <4>1. StagingPath(t, c) \in Own(t) BY <3>2 DEF Own, StagedAssets
      <4>2. StagingPath(t, c) \notin PreExisting BY <1>0, <3>2 DEF StagingPath
      <4>3. Leftover(t) = {} BY DEF Accounted
      <4> QED BY <4>1, <4>2, <4>3 DEF Leftover
    <3>4. FinalPath(t, c) \in files BY <2>2, <3>1, <3>3 DEF Readable
    <3> QED BY <3>1, <3>4 DEF Target
  <2>5. manifest[t].State = "ABORTED" => Leftover(t)' = Leftover(t)
    BY <1>0, <2>2, <2>4 DEF Leftover
  <2>6. Recorded(t)' = Recorded(t) BY <2>1 DEF Recorded
  <2> QED BY <2>1, <2>3, <2>5, <2>6 DEF Accounted, Working
<1>9. CASE PublishFails(t)
  <2>1. /\ job[t].at = "publish" /\ UNCHANGED <<manifest, files>>
        /\ Goes(t, "undo") /\ job'[t].doomed = job[t].made
    BY <1>9, WorkFields
  <2> QED BY <1>0, <2>1 DEF Accounted, Leftover, Recorded, Held, Goes, Working
<1>10. CASE PublishDone(t)
  <2>1. /\ job[t].at = "publish" /\ UNCHANGED <<manifest, files>>
        /\ IF job[t].op = "import-owned" THEN Ended(t) ELSE Goes(t, "write")
    BY <1>10, WorkFields
  <2>2. CASE job[t].op = "import-owned"
    <3>1. manifest[t].State = "NONE" BY <2>1, <2>2 DEF Traced, Working
    <3> QED BY <1>1, <2>1, <2>2, <3>1 DEF Ended
  <2>3. CASE job[t].op # "import-owned"
    BY <1>0, <2>1, <2>3 DEF Accounted, Leftover, Recorded, Held, Goes, Working
  <2> QED BY <2>2, <2>3
<1>11. CASE WriteManifest(t)
  <2>1. /\ job[t].at = "write" /\ Accepted(t) /\ files' = files /\ manifest'[t] = Wanted(t)
        /\ Ended(t)
    BY <1>11, WorkFields
  <2>2. job[t].op \in {"import", "finalize", "document-saved"} /\ Working(t)
    BY <2>1 DEF Traced, Working
  <2>3. Leftover(t)' = Leftover(t) /\ Held(t) = job[t].made
    BY <1>0, <2>1 DEF Leftover, Held
  <2>4. CASE job[t].op = "import"
    <3>1. manifest[t].State = "NONE" BY <2>2, <2>4 DEF Traced
    <3>2. Leftover(t) \subseteq job[t].made BY <2>2, <2>3, <2>4, <3>1 DEF Accounted
    <3>3. Recorded(t)' = job[t].made /\ manifest'[t].State = "STAGED"
      BY <2>1, <2>4, ManifestFields DEF Recorded, Create
    <3> QED BY <2>1, <2>3, <3>2, <3>3 DEF Accounted, Ended, Working
  <2>5. CASE job[t].op = "finalize"
    <3>1. Wanted(t).State = "PREPARED" BY <2>5, ManifestFields
    <3>2. manifest[t].State = "STAGED"
      BY <2>1, <2>2, <2>5, <3>1 DEF Traced, Accepted, AllowedTransition
    <3>3. /\ Leftover(t) \subseteq Recorded(t) \cup job[t].made
          /\ manifest[t].CreatedFiles \subseteq manifest[t].StagingFiles
      BY <2>3, <3>2 DEF Accounted, Traced
    <3>4. /\ Recorded(t)' = job[t].made \cup manifest[t].StagingFiles
          /\ manifest'[t].State = "PREPARED"
      BY <2>1, <2>5, ManifestFields DEF Recorded
    <3>5. Leftover(t)' \subseteq Recorded(t)' BY <2>3, <3>3, <3>4 DEF Recorded
    <3> QED BY <2>1, <3>4, <3>5 DEF Accounted, Ended, Working
  <2>6. CASE job[t].op = "document-saved"
    <3>1. job[t].made = {} /\ manifest[t].State \in {"PREPARED", "DOCUMENT_SAVED"}
      BY <2>1, <2>6 DEF Traced
    <3>2. Recorded(t)' = Recorded(t) /\ manifest'[t].State = "DOCUMENT_SAVED"
      BY <2>1, <2>6, ManifestFields DEF Recorded
    <3>3. Leftover(t)' \subseteq Recorded(t)' BY <2>3, <3>1, <3>2 DEF Accounted
    <3> QED BY <2>1, <3>2, <3>3 DEF Accounted, Ended, Working
  <2> QED BY <2>2, <2>4, <2>5, <2>6
<1>12. CASE WriteFails(t)
  <2>1. /\ job[t].at = "write" /\ UNCHANGED <<manifest, files>>
        /\ IF job[t].op = "document-saved" THEN Ended(t)
           ELSE Goes(t, "rollback") /\ job'[t].doomed = job[t].made
    BY <1>12, WorkFields
  <2>2. CASE job[t].op = "document-saved"
    <3>1. job[t].made = {} /\ manifest[t].State \in {"PREPARED", "DOCUMENT_SAVED"}
      BY <2>1, <2>2 DEF Traced
    <3>2. Leftover(t) \subseteq Recorded(t) BY <2>1, <3>1 DEF Accounted, Held
    <3> QED BY <1>1, <2>1, <2>2, <3>2 DEF Ended
  <2>3. CASE job[t].op # "document-saved"
    BY <1>0, <2>1, <2>3 DEF Accounted, Leftover, Recorded, Held, Goes, Working
  <2> QED BY <2>2, <2>3
<1>13. CASE RemoveOne(t)
  <2>1. job[t].at \in Removing /\ manifest' = manifest /\ Goes(t, job[t].at)
    BY <1>13, WorkFields
  <2>2. PICK f \in job[t].doomed : files' = files \ {f} /\ job'[t].doomed = job[t].doomed \ {f}
    BY <1>13, WorkFields
  <2>3. Leftover(t)' = Leftover(t) \ {f} /\ Recorded(t)' = Recorded(t)
    BY <1>0, <2>1, <2>2 DEF Leftover, Recorded
  <2>4. Held(t) \ {f} \subseteq Held(t)' BY <2>1, <2>2 DEF Held, Goes, Removing
  <2> QED BY <2>1, <2>2, <2>3, <2>4 DEF Accounted, Goes, Working
<1>14. CASE Compensated(t)
  <2>1. /\ job[t].at \in {"undo", "rollback"} /\ job[t].doomed = {}
        /\ UNCHANGED <<manifest, files>> /\ Ended(t)
    BY <1>14, WorkFields DEF Traced
  <2>2. Leftover(t) \subseteq Recorded(t) \/ manifest[t].State = "NONE"
    BY <2>1 DEF Accounted, Held
  <2> QED BY <1>1, <2>1, <2>2 DEF Ended
<1>15. CASE Settle(t)
  <2>1. /\ job[t].at = "remove" /\ job[t].doomed = {} /\ files' = files /\ Ended(t)
        /\ \/ manifest' = manifest
           \/ /\ AllowedTransition(manifest[t].State, Settled(t).State)
              /\ manifest'[t] = Settled(t)
    BY <1>15, WorkFields
  <2>2. CASE manifest' = manifest BY <1>1, <1>2, <2>1, <2>2 DEF Ended
  <2>3. CASE /\ AllowedTransition(manifest[t].State, Settled(t).State)
             /\ manifest'[t] = Settled(t)
    <3>1. /\ Leftover(t)' = Leftover(t) /\ Recorded(t)' = Recorded(t)
          /\ manifest'[t].State = IF job[t].op = "abort" THEN "ABORTED" ELSE "COMMITTED"
      BY <1>0, <2>1, <2>3, ManifestFields DEF Leftover, Recorded
    <3>2. job[t].op = "abort" => Leftover(t) = {} BY <2>1 DEF Accounted
    <3>3. Leftover(t) \subseteq Recorded(t)
      BY <1>2, <2>1, <2>3 DEF AllowedTransition
    <3> QED BY <2>1, <3>1, <3>2, <3>3 DEF Accounted, Ended, Working
  <2> QED BY <2>1, <2>2, <2>3
<1>16. ~ Die(t) /\ ~ Recover(t) /\ ~ RemoveFails(t) BY WorkFields DEF Traced
<1> QED
  BY <1>3, <1>4, <1>5, <1>6, <1>7, <1>8, <1>9, <1>10, <1>11, <1>12, <1>13, <1>14, <1>15, <1>16
     DEF Dealt, Asked, Work


(* An import begins with a paste and ends with its answer. *)
LEMMA ImportCases ==
  ASSUME TextTypes, [ENext]_allVars, NEW u \in Txs
  PROVE  \/ import'[u] = import[u]
         \/ import[u] = "fresh" /\ import'[u] = "stale"
         \/ Paste(u) /\ import'[u] = "fresh"
         \/ ImportReply(u) /\ import'[u] = "done"
<1>0. import \in [Txs -> {"new", "fresh", "stale", "done"}] BY DEF TextTypes
<1> DEFINE Stays == \/ import'[u] = import[u]
                    \/ import[u] = "fresh" /\ import'[u] = "stale"
<1>1. ASSUME NEW b, Touch(b) PROVE Stays BY <1>0, <1>1 DEF Touch
<1>2. ASSUME NEW t \in Txs, Paste(t) PROVE Stays \/ (Paste(u) /\ import'[u] = "fresh")
  BY <1>0, <1>2 DEF Paste
<1>3. ASSUME NEW t \in Txs, ImportReply(t)
      PROVE  Stays \/ (ImportReply(u) /\ import'[u] = "done")
  <2>1. CASE t = u BY <1>0, <1>3, <2>1 DEF ImportReply, FinishImport
  <2>2. CASE t # u BY <1>0, <1>3, <2>2 DEF ImportReply, FinishImport
  <2> QED BY <2>1, <2>2
<1> HIDE DEF Stays
<1>4. import' = import => Stays BY DEF Stays
<1>5. ASSUME NEW b \in Buffers, User(b) PROVE Stays
  BY <1>1, <1>4, <1>5 DEF User, Type, SetVisited, FirstSave, PlainSave, BeginSave, BeginKill, Quit,
                    Crash, Leave, textVars
<1>6. ASSUME NEW b \in Buffers, SaveStep(b) \/ KillStep(b) PROVE Stays
  BY <1>1, <1>4, <1>6 DEF SaveStep, KillStep, WriteDocument, WriteDocumentFails, EndSave, EndKill,
       Leave, CallFinalize, Call, PrepareReply, Rewrite, SaveError, CallReconcile, CallAgain,
       DropSettled, CallDocumentSaved, DocumentSavedReply, CallCommit, CommitReply, CallAbort,
       AbortReply, emacsVars, textVars
<1>7. ASSUME NEW t \in Txs, EditOut(t) \/ HelperStep(t) PROVE Stays
  BY <1>1, <1>4, <1>7 DEF EditOut, HelperStep, emacsVars, textVars
<1>8. CASE UNCHANGED allVars BY <1>8 DEF allVars, emacsVars, textVars
<1> QED BY <1>2, <1>3, <1>5, <1>6, <1>7, <1>8 DEF ENext, Stays

(* A helper at work stays until its answer is taken. *)
LEMMA WorkGoesOn ==
  ASSUME TypeOK, NEW t \in Txs, Work(t) \/ Die(t)
  PROVE  job'[t].at # "idle"
<1>1. CASE RemoveFails(t) BY <1>1 DEF RemoveFails, Removing, TypeOK, Jobs
<1>2. CASE Recover(t) BY <1>2 DEF Recover, Reply, Answer, TypeOK
<1>3. CASE Compensated(t)
  <2>1. CASE GoTo(t, "recover") BY <2>1 DEF GoTo, TypeOK, Jobs
  <2>2. CASE Reply(t, FALSE) BY <2>2 DEF Reply, Answer, TypeOK
  <2> QED BY <1>3, <2>1, <2>2 DEF Compensated
<1>4. CASE ~ RemoveFails(t) /\ ~ Recover(t) /\ ~ Compensated(t)
  <2>1. Ended(t) \/ \E at \in Stages \ {"idle"} : Goes(t, at) \/ job'[t].at = at
    BY <1>4, WorkFields DEF Work, Removing, Stages
  <2> QED BY <2>1 DEF Ended, Goes
<1> QED BY <1>1, <1>2, <1>3, <1>4

(* A helper that is not there does nothing. *)
LEMMA BusyWorks ==
  ASSUME NEW t, job[t].at = "idle"
  PROVE  ~ Work(t) /\ ~ Die(t)
BY DEF Work, Die, Working, PublishOne, PublishFails, PublishDone, WriteManifest, WriteFails,
       RemoveOne, RemoveFails, Compensated, Recover, Settle, Removing

(* The steps of the loops for t: they touch the helper of t and the progress of its
   buffer, and only a kill goes on killing. *)
LEMMA LoopTouches ==
  ASSUME ClientInv, NEW t \in Txs,
         \/ CallFinalize(t) \/ PrepareReply(t) \/ CallReconcile(t)
         \/ DropSettled(t) \/ CallDocumentSaved(t) \/ DocumentSavedReply(t)
         \/ CallCommit(t) \/ CommitReply(t) \/ CallAbort(t) \/ AbortReply(t)
  PROVE  /\ \A c \in Buffers \ {Home[t]} : doing'[c] = doing[c]
         /\ \A u \in Txs \ {t} : job'[u] = job[u]
         /\ doing'[Home[t]].at = "kill" => \/ CallAbort(t) /\ doing'[Home[t]].call = t
                                           \/ doing'[Home[t]].call = NoTx
<1>0. /\ job \in [Txs -> Jobs] /\ doing \in [Buffers -> Doings] /\ Home[t] \in Buffers
      /\ doing[Home[t]] \in Doings
  BY ConstantsAssumption DEF ClientInv, TypeOK
<1>1. \A u \in Txs \ {t} : job'[u] = job[u]
  <2>1. ASSUME NEW op, NEW ok, Answer(t, op, ok) PROVE \A u \in Txs \ {t} : job'[u] = job[u]
    BY <1>0, <2>1 DEF Answer
  <2>2. ASSUME NEW op, NEW x, Begin(t, op, x) \/ BeginRemoval(t, op, x)
        PROVE  \A u \in Txs \ {t} : job'[u] = job[u]
    BY <1>0, <2>2 DEF Begin, BeginRemoval
  <2>3. CASE CallFinalize(t) \/ CallDocumentSaved(t) \/ CallAbort(t)
    BY <1>0, <2>1, <2>2, <2>3 DEF CallFinalize, CallDocumentSaved, CallAbort, StartFinalize,
         StartDocumentSaved, StartAbort
  <2>4. CASE CallReconcile(t) \/ CallCommit(t)
    BY <2>1, <2>2, <2>4 DEF CallReconcile, CallCommit, StartReconcile, StartCommit
  <2>5. CASE PrepareReply(t) \/ DocumentSavedReply(t) \/ CommitReply(t) \/ AbortReply(t)
    BY <1>0, <2>5 DEF PrepareReply, DocumentSavedReply, CommitReply, AbortReply, Replied, Dismiss
  <2>6. CASE DropSettled(t) BY <2>6 DEF DropSettled, vars
  <2> QED BY <2>3, <2>4, <2>5, <2>6
<1>2. CASE CallFinalize(t) \/ CallDocumentSaved(t) \/ CallAbort(t)
  <2>1. Call(t) /\ (CallAbort(t) \/ doing[Home[t]].at # "kill")
    BY <1>2 DEF CallFinalize, CallDocumentSaved, CallAbort, Ready
  <2> QED BY <1>1, <2>1, LoopEffects
<1>3. CASE CallReconcile(t) \/ CallCommit(t)
  BY <1>1, <1>3 DEF CallReconcile, CallCommit, CallAgain, emacsVars
<1>4. CASE DropSettled(t) \/ CommitReply(t) \/ AbortReply(t)
  <2>1. \E at : Advance(t, at) BY <1>4 DEF DropSettled, CommitReply, AbortReply
  <2> QED BY <1>1, <2>1, LoopEffects
<1>5. CASE DocumentSavedReply(t)
  <2>1. CASE Advance(t, "saved") BY <1>1, <2>1, LoopEffects
  <2>2. CASE doing' = [doing EXCEPT ![Home[t]].at = "commit"] BY <1>0, <1>1, <2>2, PhaseEffect
  <2> QED BY <1>5, <2>1, <2>2 DEF DocumentSavedReply
<1>6. CASE PrepareReply(t)
  <2>1. CASE Rewrite(t) BY <1>1, <2>1, LoopEffects
  <2>2. CASE doing' = [doing EXCEPT ![Home[t]].at = "reconcile"] BY <1>0, <1>1, <2>2, PhaseEffect
  <2>3. CASE SaveError(Home[t]) BY <1>0, <1>1, <2>3, RestEffect DEF SaveError
  <2> QED BY <1>6, <2>1, <2>2, <2>3 DEF PrepareReply
<1> QED BY <1>2, <1>3, <1>4, <1>5, <1>6

(* The call a quit of a kill deletes stays an abort. *)
LEMMA KillCallKept ==
  ASSUME ClientInv, KeptInv, \A b \in Buffers : KillCall(b), [ENext]_allVars, NEW b \in Buffers
  PROVE  KillCall(b)'
<1>0. /\ TypeOK /\ KillCall(b)
      /\ doing[b].call # NoTx => doing[b].call \in Txs /\ Home[doing[b].call] = b
                                 /\ import[doing[b].call] = "done"
  BY CallFacts DEF ClientInv, KeptInv, Visited, Unborn
<1>1. ASSUME NEW t \in Txs, \A u \in Txs \ {t} : job'[u] = job[u], Home[t] # b,
             doing'[b] = doing[b]
      PROVE  KillCall(b)'
  BY <1>0, <1>1 DEF KillCall
<1>2. CASE UNCHANGED <<job, doing>> BY <1>0, <1>2 DEF KillCall
<1>3. CASE doing'[b].at # "kill" \/ doing'[b].call = NoTx BY <1>3 DEF KillCall
<1>4. ASSUME NEW c \in Buffers, User(c) PROVE KillCall(b)'
  <2>1. CASE Type(c) \/ SetVisited(c) \/ FirstSave(c) \/ PlainSave(c)
    BY <1>2, <2>1 DEF Type, SetVisited, FirstSave, PlainSave, WriteBuffer, vars
  <2>2. CASE BeginSave(c)
    <3>1. job' = job /\ (c = b \/ doing'[b] = doing[b]) BY <2>2 DEF BeginSave, vars, ClientInv
    <3>2. CASE c = b
      BY <1>3, <2>2, <3>2 DEF BeginSave, ClientInv
    <3> QED BY <1>0, <3>1, <3>2 DEF KillCall
  <2>3. CASE BeginKill(c)
    <3>1. job' = job /\ (c = b \/ doing'[b] = doing[b]) BY <2>3 DEF BeginKill, vars, ClientInv
    <3>2. CASE c = b
      <4>1. doing[b].call = NoTx BY <2>3, <3>2, CallFacts DEF BeginKill, AtRest
      <4>2. doing'[b].call = doing[b].call BY <2>3, <3>2 DEF BeginKill, ClientInv, Doings
      <4> QED BY <1>3, <4>1, <4>2
    <3> QED BY <1>0, <3>1, <3>2 DEF KillCall
  <2>4. CASE Crash(c) \/ Quit(c)
    <3>1. doing' = [doing EXCEPT ![c] = Rest] BY <2>4 DEF Crash, Leave, Quit
    <3>2. CASE c = b BY <1>3, <3>1, <3>2, RestEffect
    <3>3. CASE c # b /\ Crash(c) BY <1>0, <3>1, <3>3, RestEffect DEF Crash, Leave, vars, KillCall
    <3>4. CASE c # b /\ Quit(c)
      <4>1. doing[c].call \in Txs /\ Home[doing[c].call] = c BY <3>4, CallFacts DEF Quit
      <4>2. \A u \in Txs \ {doing[c].call} : job'[u] = job[u]
        BY <1>0, <3>4, <4>1, DismissEffect DEF Quit
      <4> QED BY <1>1, <3>1, <3>4, <4>1, <4>2, RestEffect
    <3> QED BY <2>4, <3>2, <3>3, <3>4
  <2> QED BY <1>4, <2>1, <2>2, <2>3, <2>4 DEF User
<1>5. ASSUME NEW c \in Buffers, SaveStep(c) \/ KillStep(c) PROVE KillCall(b)'
  <2>1. CASE WriteDocument(c)
    <3>1. /\ job' = job /\ (c = b \/ doing'[b] = doing[b])
          /\ c = b => doing'[b].at = "saved"
      BY <2>1 DEF WriteDocument, WriteBuffer, ClientInv, Doings
    <3> QED BY <1>0, <1>3, <3>1 DEF KillCall
  <2>2. CASE WriteDocumentFails(c) \/ EndSave(c) \/ EndKill(c)
    <3>1. doing' = [doing EXCEPT ![c] = Rest] /\ job' = job
      BY <2>2 DEF WriteDocumentFails, SaveError, EndSave, EndKill, Leave, vars
    <3>2. CASE c = b BY <1>3, <3>1, <3>2, RestEffect
    <3>3. CASE c # b BY <1>0, <3>1, <3>3, RestEffect DEF KillCall
    <3> QED BY <3>2, <3>3
  <2>3. ASSUME NEW t \in Of(c),
               \/ CallFinalize(t) \/ PrepareReply(t) \/ CallReconcile(t)
               \/ DropSettled(t) \/ CallDocumentSaved(t) \/ DocumentSavedReply(t)
               \/ CallCommit(t) \/ CommitReply(t) \/ CallAbort(t) \/ AbortReply(t)
        PROVE  KillCall(b)'
    <3>0. t \in Txs /\ Home[t] = c BY DEF Of
    <3>1. /\ \A d \in Buffers \ {c} : doing'[d] = doing[d]
          /\ \A u \in Txs \ {t} : job'[u] = job[u]
          /\ doing'[c].at = "kill" => \/ CallAbort(t) /\ doing'[c].call = t
                                      \/ doing'[c].call = NoTx
      BY <2>3, <3>0, LoopTouches
    <3>2. CASE c # b BY <1>1, <3>0, <3>1, <3>2
    <3>3. CASE c = b /\ CallAbort(t) /\ doing'[c].call = t
      <4>1. job'[t].op = "abort" /\ job'[t].at # "idle"
        BY <1>0, <3>0, <3>3, RequestFields DEF CallAbort
      <4> QED BY <3>3, <4>1 DEF KillCall
    <3> QED BY <1>3, <3>1, <3>2, <3>3
  <2> QED BY <1>5, <2>1, <2>2, <2>3 DEF SaveStep, KillStep
<1>6. ASSUME NEW t \in Txs, Paste(t) \/ EditOut(t) \/ ImportReply(t) \/ HelperStep(t)
      PROVE  KillCall(b)'
  <2>0. doing' = doing BY <1>6 DEF Paste, EditOut, ImportReply, HelperStep, emacsVars
  <2>1. CASE EditOut(t) BY <1>2, <2>0, <2>1 DEF EditOut, vars
  <2>2. CASE Paste(t) \/ ImportReply(t)
    <3>1. import[t] # "done" BY <2>2 DEF Paste, ImportReply
    <3>2. \A u \in Txs \ {t} : job'[u] = job[u]
      BY <1>0, <2>2, RequestOwn, DismissEffect
         DEF Paste, Request, ImportReply, KeptInv
    <3>3. doing[b].call # NoTx => doing[b].call # t BY <1>0, <3>1
    <3> QED BY <1>0, <2>0, <3>2, <3>3 DEF KillCall
  <2>3. CASE HelperStep(t)
    <3>1. /\ job'[t].op = job[t].op /\ \A u \in Txs \ {t} : job'[u] = job[u]
      BY <1>0, <2>3, WorkEffect DEF HelperStep
    <3>2. job'[t].at # "idle" BY <1>0, <2>3, WorkGoesOn DEF HelperStep
    <3> QED BY <1>0, <2>0, <3>1, <3>2 DEF KillCall
  <2> QED BY <1>6, <2>1, <2>2, <2>3
<1>7. CASE UNCHANGED allVars BY <1>2, <1>7 DEF allVars, vars, emacsVars
<1> QED BY <1>4, <1>5, <1>6, <1>7 DEF ENext


(* Lists, helpers and disk agree for every transaction. *)
LEMMA AbortInvariant ==
  ASSUME "remove" \notin Faults, "kill" \notin Faults, "quit" \notin Ways
  PROVE  ESpec => []AbortInv
<1>1. EInit => AbortInv
  <2> SUFFICES ASSUME EInit PROVE AbortInv
    OBVIOUS
  <2>1. ASSUME NEW t \in Txs PROVE Traced(t) /\ Newborn(t) /\ (Unshared(t) => Accounted(t))
    <3>1. job[t] = NoJob /\ manifest[t] = NoManifest /\ files = PreExisting
      BY DEF EInit, Init
    <3>2. Leftover(t) = {} BY <3>1 DEF Leftover
    <3> QED BY <3>1, <3>2 DEF Traced, Newborn, Accounted, NoJob, NoManifest, Working
  <2>2. \A b \in Buffers : KillCall(b) BY DEF EInit, KillCall, Rest
  <2> QED BY <2>1, <2>2 DEF AbortInv
<1>2. ClientInv /\ TextTypes /\ KeptInv /\ AbortInv /\ [ENext]_allVars => AbortInv'
  <2> SUFFICES ASSUME ClientInv, TextTypes, KeptInv, AbortInv, [ENext]_allVars PROVE AbortInv'
    OBVIOUS
  <2>0. /\ TypeOK /\ \A t \in Txs : OwnPaths(t) /\ Unborn(t) /\ Traced(t) /\ Newborn(t)
        /\ \A t \in Txs : Own(t)' = Own(t)
    BY DEF ClientInv, KeptInv, AbortInv, Own, StagedAssets, FinalAssets, StagingPath, FinalPath
  <2>1. \A b \in Buffers : KillCall(b)' BY KillCallKept DEF AbortInv
  <2>2. ASSUME NEW u \in Txs, import'[u] = "new" PROVE import[u] = "new" /\ ~ Paste(u)
    BY <2>2, ImportCases DEF TextTypes, Paste
  (* A transaction that nobody works for. *)
  <2>3. ASSUME NEW u \in Txs, job'[u] = job[u], manifest'[u] = manifest[u],
               Unshared(u) => files' \cap Own(u) = files \cap Own(u)
        PROVE  Traced(u)' /\ Newborn(u)' /\ (Unshared(u) => Accounted(u)')
    <3>1. Unshared(u) => Leftover(u)' = Leftover(u) BY <2>0, <2>3 DEF Leftover
    <3>2. Traced(u)' BY <2>0, <2>3 DEF Traced, Working
    <3>3. Newborn(u)' BY <2>0, <2>2, <2>3, <3>1 DEF Newborn, Unshared
    <3>4. Unshared(u) => Accounted(u)'
      BY <2>3, <3>1 DEF AbortInv, Accounted, Held, Recorded, Working
    <3> QED BY <3>2, <3>3, <3>4
  <2>4. ASSUME NEW t \in Txs, Dealt(t)
        PROVE  Traced(t)' /\ Newborn(t)' /\ (Unshared(t) => Accounted(t)')
    <3>1. Traced(t)' BY <2>0, <2>4, TracedKept
    <3>2. Newborn(t)'
      <4> SUFFICES ASSUME import'[t] = "new" PROVE FALSE
        BY DEF Newborn
      <4>1. import[t] = "new" /\ ~ Paste(t) BY <2>2
      <4>2. job[t].at = "idle" /\ t \notin known BY <2>0, <4>1 DEF Newborn, Unborn
      <4> QED BY <2>4, <4>1, <4>2, BusyWorks DEF Dealt, Asked, Heard, Dismiss
    <3>3. ASSUME Unshared(t) PROVE Accounted(t)'
      <4>1. Paste(t) => Leftover(t) = {} BY <2>0, <3>3 DEF Paste, Newborn
      <4>2. Quit(Home[t]) /\ doing[Home[t]].call = t => job[t].op = "abort"
        BY EmacsAssumption, ConstantsAssumption DEF Quit, AbortInv, KillCall
      <4> QED BY <2>0, <2>4, <3>3, <4>1, <4>2, AccountedKept DEF AbortInv
    <3> QED BY <3>1, <3>2, <3>3
  <2>5. ASSUME NEW u \in Txs
        PROVE  Traced(u)' /\ Newborn(u)' /\ (Unshared(u) => Accounted(u)')
    <3>1. CASE UNCHANGED <<manifest, files, job>> BY <2>3, <3>1
    <3>2. ASSUME NEW t \in Txs, Dealt(t), t # u
          PROVE  Traced(u)' /\ Newborn(u)' /\ (Unshared(u) => Accounted(u)')
      <4>1. /\ job'[u] = job[u] /\ manifest'[u] = manifest[u]
            /\ files' \ Own(t) = files \ Own(t)
        BY <2>0, <3>2, DealtAlone
      <4>2. Unshared(u) => Own(u) \cap Own(t) = {} BY <3>2, OwnAlone
      <4> QED BY <2>3, <4>1, <4>2
    <3> QED BY <2>4, <3>1, <3>2, Deals
  <2>6. \A u \in Txs : (Unshared(u) => Accounted(u))' BY <2>5 DEF Unshared
  <2> QED BY <2>1, <2>5, <2>6 DEF AbortInv
<1> QED BY <1>1, <1>2, KeptInvariant, ClientInvariant, PTL DEF ESpec

(* An aborted transaction leaves nothing behind, no matter how often its save failed
   and was tried again, or its kill was quit, before: provided that no helper dies or
   is deleted in the middle of a publication - what it copied is on no list then - and
   that every file can be removed (see README). *)
THEOREM AbortsLeaveNothing ==
  ASSUME "remove" \notin Faults, "kill" \notin Faults, "quit" \notin Ways
  PROVE  ESpec => []AbortLeavesNothing
<1>1. AbortInv => AbortLeavesNothing
  BY DEF AbortInv, Accounted, Leftover, Own, AbortLeavesNothing
<1> QED BY <1>1, AbortInvariant, PTL
-----------------------------------------------------------------------------
(***************************************************************************)
(* Whatever a document on disk links to is in its asset directory, also    *)
(* after its buffer or its Emacs is gone (SavedAssetsFinal).  What Emacs   *)
(* saves without recording it was imported to the final place (Owned);     *)
(* what it recorded is on its list until it is committed (Remembered), and *)
(* the document is only written when all of the list is prepared (Saving). *)
(* From then on nothing takes the final assets away (Secure): Emacs waits  *)
(* for the acknowledgement, after which the helper refuses to abort.       *)
(***************************************************************************)

(* Removals succeed, acknowledgements are not lost, the buffer has its name before it is
   saved and the kill of a buffer is not quit; no paste shares a path with another. *)
Orderly ==
  /\ {"remove", "lost-ack"} \cap Faults = {}
  /\ {"save-buffer", "name-while-pending", "quit-kill"} \cap Ways = {}
  /\ \A t \in Txs : Unshared(t)

\* An import under way has its helper, one that is done and not recorded has none.
Pending(t) ==
  /\ import[t] \in {"fresh", "stale"}
       => /\ job[t].at # "idle" /\ job[t].op \in {"import", "import-owned"}
          /\ named[Home[t]] => job[t].op = "import-owned"
  /\ import[t] = "done" /\ t \notin known => job[t].at = "idle"

\* An import into the document's own directory ends with all its files there.
Owned(t) ==
  /\ job[t].op = "import-owned" /\ job[t].at = "publish"
       => \A c \in Payload[t] \ job[t].left : FinalPath(t, c) \in files
  /\ job[t].op = "import-owned" /\ job[t].at = "replied" /\ job[t].ok
       => FinalAssets(t) \subseteq files
  /\ t \notin known /\ (link[t] # "none" \/ before[t] # "none" \/ disk[t] # "none")
       => FinalAssets(t) \subseteq files

\* A commit answers yes only when it is done.
Told(t) ==
  job[t].at = "replied" /\ job[t].op = "commit" /\ job[t].ok => manifest[t].State = "COMMITTED"

\* Emacs forgets a transaction of a living buffer only when it is committed.
Remembered(t) ==
  t \in known /\ live[Home[t]] /\ t \notin listed[Home[t]] => manifest[t].State = "COMMITTED"

\* What a save has reached: all of the batch is prepared, and the call under way.
Saving(b) ==
  LET d == doing[b]
      t == d.call
  IN  /\ d.at # "reconcile"
      /\ d.at \in {"prepare", "saved", "commit"} => named[b]
      /\ d.at = "prepare" => /\ listed[b] \subseteq d.batch
                             /\ \A u \in d.batch \ d.todo : manifest[u].State \in Prepared
      /\ d.at \in {"saved", "commit"} => \A u \in d.todo : manifest[u].State \in Prepared
      /\ \A u \in d.settled : manifest[u].State = "COMMITTED"
      /\ t # NoTx /\ d.at = "saved"
           => /\ job[t].at # "idle" /\ job[t].op = "document-saved"
              /\ job[t].at = "replied" => manifest[t].State # "PREPARED"
      /\ t # NoTx /\ d.at = "commit"
           => /\ manifest[t].State # "PREPARED"
              /\ job[t].at # "idle" => job[t].op = "commit"

Acknowledged == {"DOCUMENT_SAVED", "COMMITTED"}

\* No abort can take the assets away any more, or nobody is left to ask for it.
Secure(t) ==
  \/ manifest[t].State \in Acknowledged
  \/ /\ manifest[t].State = "PREPARED" /\ t \notin discarded
     /\ \/ ~ live[Home[t]]
        \/ doing[Home[t]].at \in {"saved", "commit"} /\ t \in doing[Home[t]].todo

Saved(t) ==
  disk[t] # "none" => FinalAssets(t) \subseteq files /\ (t \in known => Secure(t))

SavedInv ==
  /\ \A t \in Txs : Pending(t) /\ Owned(t) /\ Told(t) /\ Remembered(t) /\ Saved(t)
  /\ \A b \in Buffers : Saving(b)

\* The invariants it rests on.
Ground ==
  /\ ClientInv /\ TextTypes /\ KeptInv /\ CommitInv
  /\ \A t \in Txs : Traced(t) /\ Over(t)

LEMMA GroundInvariant ==
  ASSUME "remove" \notin Faults, "quit-kill" \notin Ways
  PROVE  ESpec => []Ground
<1>1. ESpec => [](\A t \in Txs : Traced(t)) BY TracedInvariant
<1>2. ESpec => []CommitInv BY CommitInvariant
<1>3. ClientInv /\ TextTypes /\ KeptInv /\ CommitInv /\ (\A t \in Txs : Traced(t))
        /\ (\A t \in Txs : Over(t)) => Ground
  BY DEF Ground
<1> QED BY <1>1, <1>2, <1>3, OverInvariant, KeptInvariant, ClientInvariant, PTL

(* What the helper's steps do to the state of its manifest. *)
LEMMA StateSteps ==
  ASSUME TypeOK, NEW t \in Txs, Traced(t), Dealt(t)
  PROVE  \/ manifest'[t].State = manifest[t].State
         \/ /\ Work(t) /\ Working(t)
            /\ AllowedTransition(manifest[t].State, manifest'[t].State)
            /\ \/ job[t].op = "finalize" /\ manifest'[t].State = "PREPARED"
               \/ job[t].op = "document-saved" /\ manifest'[t].State = "DOCUMENT_SAVED"
               \/ job[t].op = "abort" /\ manifest'[t].State = "ABORTED"
               \/ job[t].op # "abort" /\ manifest'[t].State = "COMMITTED"
         \/ Work(t) /\ manifest[t].State = "NONE"
<1>1. CASE WriteManifest(t)
  <2>1. /\ job[t].at = "write" /\ Accepted(t) /\ manifest'[t] = Wanted(t)
        /\ job[t].op \in {"import", "finalize", "document-saved"}
    BY <1>1, WorkFields DEF Traced
  <2>2. Work(t) /\ Working(t) BY <1>1, <2>1 DEF Work, Working
  <2>3. CASE job[t].op = "import" BY <2>1, <2>2, <2>3 DEF Traced
  <2>4. CASE job[t].op = "finalize" BY <2>1, <2>2, <2>4, ManifestFields DEF Accepted
  <2>5. CASE job[t].op = "document-saved" BY <2>1, <2>2, <2>5, ManifestFields DEF Accepted
  <2> QED BY <2>1, <2>3, <2>4, <2>5
<1>2. CASE Settle(t)
  <2>1. /\ job[t].at = "remove"
        /\ \/ manifest' = manifest
           \/ /\ AllowedTransition(manifest[t].State, Settled(t).State)
              /\ manifest'[t] = Settled(t)
    BY <1>2, WorkFields
  <2>2. Work(t) /\ Working(t) BY <1>2, <2>1 DEF Work, Working
  <2>3. Settled(t).State = IF job[t].op = "abort" THEN "ABORTED" ELSE "COMMITTED"
    BY ManifestFields
  <2> QED BY <2>1, <2>2, <2>3
<1>3. CASE manifest' = manifest BY <1>3
<1>4. ~ Recover(t) BY WorkFields DEF Traced
<1> QED
  BY <1>1, <1>2, <1>3, <1>4
     DEF Dealt, Asked, Heard, Paste, Dismiss, Die, StartImport, StartImportOwned, StartFinalize,
         StartDocumentSaved, StartCommit, StartReconcile, StartAbort, Work, PublishOne,
         PublishFails, PublishDone, WriteFails, RemoveOne, RemoveFails, Compensated

(* A transaction with no step of its own keeps all it has; without work it keeps its
   files and its manifest. *)
LEMMA Undisturbed ==
  ASSUME Orderly, Ground, ENext, NEW u \in Txs
  PROVE  /\ ~ Dealt(u) => job'[u] = job[u]
         /\ ~ Work(u) => /\ manifest'[u] = manifest[u]
                         /\ files' \cap Own(u) = files \cap Own(u)
         /\ Dealt(u) => \A t \in Txs \ {u} : job'[t] = job[t]
<1>0. TypeOK /\ Unshared(u) /\ \A t \in Txs : OwnPaths(t)
  BY DEF Orderly, Ground, ClientInv, KeptInv
<1>1. CASE UNCHANGED <<manifest, files, job>> BY <1>1
<1>2. ASSUME NEW t \in Txs, Dealt(t), t # u
      PROVE  /\ job'[u] = job[u] /\ manifest'[u] = manifest[u]
             /\ files' \cap Own(u) = files \cap Own(u)
  <2>1. Own(u) \cap Own(t) = {} BY <1>0, <1>2, OwnAlone
  <2> QED BY <1>0, <1>2, <2>1, DealtAlone
<1>3. ASSUME Dealt(u), ~ Work(u) PROVE UNCHANGED <<manifest, files>>
  BY <1>3 DEF Dealt, Asked, Heard, Paste, Dismiss, Die, StartImport, StartImportOwned,
     StartFinalize, StartDocumentSaved, StartCommit, StartReconcile, StartAbort
<1>4. Dealt(u) => \A t \in Txs \ {u} : job'[t] = job[t] BY <1>0, DealtAlone
<1> QED BY <1>1, <1>2, <1>3, <1>4, Deals DEF Ground

(* What is prepared stays prepared unless it is discarded, and what is acknowledged
   or committed stays so anyway. *)
LEMMA StatesKept ==
  ASSUME Orderly, Ground, ENext, NEW u \in Txs
  PROVE  /\ manifest[u].State = "COMMITTED" => manifest'[u].State = "COMMITTED"
         /\ manifest[u].State \in Acknowledged => manifest'[u].State \in Acknowledged
         /\ manifest[u].State \in Prepared /\ u \notin discarded
              => /\ manifest'[u].State \in Prepared
                 /\ manifest'[u].State = "PREPARED" => manifest[u].State = "PREPARED"
<1>0. TypeOK /\ Traced(u) /\ Over(u) BY DEF Ground, ClientInv
<1>1. CASE ~ Dealt(u) \/ ~ Work(u)
  <2>1. manifest'[u] = manifest[u] BY <1>1, Undisturbed DEF Dealt
  <2> QED BY <2>1
<1>2. CASE Dealt(u) /\ Work(u)
  <2>1. Working(u) => (u \notin discarded => job[u].op # "abort")
    BY DEF Ground, KeptInv, Kept, Hired
  <2>2. manifest[u].State = "COMMITTED" => ~ Working(u) BY <1>0 DEF Over
  <2>3. Working(u) /\ job[u].op = "abort" => manifest[u].State \in {"STAGED", "PREPARED"}
    BY <1>0 DEF Traced
  <2>4. Working(u) /\ job[u].op = "finalize" => manifest[u].State \in {"STAGED", "ABORTED"}
    BY <1>0 DEF Traced
  <2> QED BY <1>0, <1>2, <2>1, <2>2, <2>3, <2>4, StateSteps
         DEF AllowedTransition, Prepared, Acknowledged
<1> QED BY <1>1, <1>2

-----------------------------------------------------------------------------
(* Imports *)

(* Whose records change, and who is discarded. *)
LEMMA RecordsKept ==
  ASSUME Ground, ENext, NEW u \in Txs
  PROVE  /\ u \in known => u \in known'
         /\ u \in known' \ known => ImportReply(u) /\ FinishImport(u)
         /\ u \in discarded' \ discarded => job[u].at = "idle" /\ ~ Work(u)
<1>0. ClientInv /\ TextTypes /\ \A t \in Txs : Unborn(t) BY DEF Ground, KeptInv
<1>1. u \in known => u \in known' BY <1>0, HelperCases DEF Still, Served
<1>2. u \in discarded' \ discarded => job[u].at = "idle"
  BY <1>0, HelperCases DEF Still, Served
<1>3. u \in known' \ known => ImportReply(u) /\ FinishImport(u)
  <2>1. PrepareReply(u) => known' = known BY DEF PrepareReply, history
  <2> QED BY <1>0, <2>1, LinkCases DEF Copied
<1> QED BY <1>1, <1>2, <1>3, BusyWorks

(* A buffer gets its name when none of its imports is under way. *)
LEMMA NamedOnce ==
  ASSUME Orderly, TextTypes, ENext, NEW b \in Buffers
  PROVE  /\ named[b] => named'[b]
         /\ named'[b] /\ ~ named[b]
              => /\ UNCHANGED import
                 /\ \A t \in Of(b) : import[t] \notin {"fresh", "stale"}
<1>1. CASE named' = named BY <1>1
<1>2. ASSUME NEW c \in Buffers, SetVisited(c) \/ FirstSave(c)
      PROVE  /\ named[b] => named'[b]
             /\ named'[b] /\ ~ named[b]
                  => /\ UNCHANGED import
                     /\ \A t \in Of(b) : import[t] \notin {"fresh", "stale"}
  <2>1. MayName(c) /\ UNCHANGED import /\ named' = [named EXCEPT ![c] = TRUE]
    BY <1>2 DEF SetVisited, FirstSave, textVars
  <2>2. \A t \in Of(c) : import[t] \notin {"fresh", "stale"} BY <2>1 DEF MayName, Orderly
  <2> QED BY <2>1, <2>2 DEF TextTypes
<1>3. ASSUME NEW c \in Buffers, User(c), ~ SetVisited(c), ~ FirstSave(c) PROVE named' = named
  BY <1>3 DEF User, Type, PlainSave, BeginSave, BeginKill, Quit, Crash, Leave, bufferVars
<1>4. ASSUME NEW c \in Buffers, SaveStep(c) \/ KillStep(c) PROVE named' = named
  BY <1>4 DEF SaveStep, KillStep, WriteDocument, WriteDocumentFails, EndSave, EndKill, Leave,
       CallFinalize, Call, PrepareReply, CallReconcile, CallAgain, DropSettled,
       CallDocumentSaved, DocumentSavedReply, CallCommit, CommitReply, CallAbort, AbortReply,
       emacsVars, bufferVars
<1>5. ASSUME NEW t \in Txs, Paste(t) \/ EditOut(t) \/ ImportReply(t) \/ HelperStep(t)
      PROVE  named' = named
  BY <1>5 DEF Paste, EditOut, ImportReply, HelperStep, emacsVars, bufferVars
<1> QED BY <1>1, <1>2, <1>3, <1>4, <1>5 DEF ENext

(* Emacs waits only for transactions it has recorded. *)
LEMMA CallKnown ==
  ASSUME Ground, NEW u \in Txs, doing[Home[u]].call = u
  PROVE  u \in known /\ import[u] = "done"
<1>1. Visited(Home[u]) /\ Unborn(u) BY ConstantsAssumption DEF Ground, KeptInv
<1>2. u # NoTx BY EmacsAssumption
<1> QED BY <1>1, <1>2 DEF Visited, Unborn

(* A transaction that is not recorded has no helper once its import is done. *)
LEMMA Unasked ==
  ASSUME NEW u \in Txs, Pending(u), import[u] = "done", u \notin known, TextTypes
  PROVE  ~ Dealt(u)
<1>1. job[u].at = "idle" BY DEF Pending
<1>2. ~ Work(u) /\ ~ Die(u) BY <1>1, BusyWorks
<1> QED BY <1>1, <1>2 DEF Dealt, Paste, Asked, Heard, Dismiss

(* The helper of an import is there until its answer is taken. *)
LEMMA PendingKept ==
  ASSUME Orderly, Ground, ENext, NEW u \in Txs, Pending(u)
  PROVE  Pending(u)'
<1>0. /\ TypeOK /\ TextTypes /\ Unborn(u) /\ Home[u] \in Buffers
      /\ Visited(Home[u]) /\ import[u] \in {"new", "fresh", "stale", "done"}
  BY ConstantsAssumption DEF Ground, ClientInv, KeptInv, TextTypes
<1>1. CASE Paste(u) /\ import'[u] = "fresh"
  <2>1. job'[u].at = "publish" /\ named' = named
        /\ job'[u].op = IF named[Home[u]] THEN "import-owned" ELSE "import"
    BY <1>0, <1>1, RequestFields DEF Paste, bufferVars
  <2> QED BY <1>1, <2>1 DEF Pending
<1>2. CASE ImportReply(u) /\ import'[u] = "done"
  <2>1. job'[u].at = "idle" BY <1>0, <1>2, RequestFields DEF ImportReply
  <2> QED BY <1>2, <2>1 DEF Pending
<1>3. CASE import[u] \in {"fresh", "stale"} /\ import'[u] \in {"fresh", "stale"}
  <2>1. named'[Home[u]] => named[Home[u]]
    BY <1>0, <1>3, NamedOnce DEF Of
  <2>2. job'[u].at # "idle" /\ job'[u].op = job[u].op
    <3>1. CASE ~ Dealt(u) BY <1>3, <3>1, Undisturbed DEF Pending
    <3>2. CASE Work(u) \/ Die(u) BY <1>0, <3>2, WorkEffect, WorkGoesOn
    <3>3. ~ Paste(u) /\ ~ Asked(u) BY <1>0, <1>3 DEF Paste, Asked, Unborn
    <3>4. ~ ImportReply(u) BY <1>0, <1>3 DEF ImportReply, FinishImport, TextTypes
    <3>5. ~ Heard(u) BY <1>3, <3>4, CallKnown DEF Heard
    <3> QED BY <3>1, <3>2, <3>3, <3>5 DEF Dealt
  <2> QED BY <1>3, <2>1, <2>2 DEF Pending
<1>4. CASE import[u] = "done" /\ import'[u] = "done"
  <2> SUFFICES ASSUME u \notin known' PROVE job'[u].at = "idle"
    BY <1>4 DEF Pending
  <2>1. u \notin known BY RecordsKept
  <2> QED BY <1>0, <1>4, <2>1, Unasked, Undisturbed DEF Pending
<1>5. CASE import'[u] = "new" BY <1>5 DEF Pending
<1> QED BY <1>0, <1>1, <1>2, <1>3, <1>4, <1>5, ImportCases

(* Only a transaction that is committed answers yes to a commit. *)
LEMMA ToldKept ==
  ASSUME Orderly, Ground, ENext, NEW u \in Txs, Told(u)
  PROVE  Told(u)'
<1>0. TypeOK /\ Traced(u) BY DEF Ground, ClientInv
<1> SUFFICES ASSUME job'[u].at = "replied", job'[u].op = "commit", job'[u].ok
             PROVE  manifest'[u].State = "COMMITTED"
  BY DEF Told
<1>1. CASE ~ Dealt(u)
  <2>1. job'[u] = job[u] /\ manifest'[u] = manifest[u] BY <1>1, Undisturbed DEF Dealt
  <2> QED BY <2>1 DEF Told
<1>2. CASE Asked(u) \/ Paste(u) \/ Heard(u)
  BY <1>0, <1>2, RequestFields DEF Asked, Paste, Heard
<1>3. CASE Work(u) \/ Die(u)
  <2>1. job[u].op = "commit" BY <1>0, <1>3, WorkEffect
  <2>2. ~ Recover(u) /\ ~ RemoveFails(u) /\ ~ Die(u) /\ ~ WriteFails(u) /\ ~ Compensated(u)
    BY <1>0, <2>1, WorkFields DEF Traced, Orderly
  <2>3. ~ PublishOne(u) /\ ~ PublishFails(u) /\ ~ PublishDone(u) /\ ~ WriteManifest(u)
    BY <1>0, <2>1, WorkFields DEF Traced
  <2>4. ~ RemoveOne(u)
    <3>1. RemoveOne(u) => job'[u].at # "replied" BY <1>0, WorkFields DEF Goes, Removing
    <3> QED BY <3>1
  <2>5. Settle(u) => manifest'[u] = Settled(u) BY <1>0, WorkFields
  <2> QED BY <1>0, <1>3, <2>1, <2>2, <2>3, <2>4, <2>5, ManifestFields DEF Work
<1> QED BY <1>1, <1>2, <1>3 DEF Dealt

(* Files imported into the document's own directory stay there as long as Emacs links
   to them without a record. *)
LEMMA OwnedKept ==
  ASSUME Orderly, Ground, ENext, NEW u \in Txs, Pending(u), Owned(u)
  PROVE  Owned(u)'
<1>0. /\ TypeOK /\ TextTypes /\ Traced(u) /\ Unborn(u) /\ OwnPaths(u)
      /\ FinalAssets(u) \subseteq Own(u)
      /\ \A c \in Payload[u] : FinalPath(u, c) \in FinalAssets(u)
      /\ FinalAssets(u)' = FinalAssets(u) /\ \A c : FinalPath(u, c)' = FinalPath(u, c)
  BY DEF Ground, ClientInv, KeptInv, Own, FinalAssets, FinalPath
<1>1. ~ Work(u) => files' \cap Own(u) = files \cap Own(u) BY Undisturbed
<1>2. ASSUME job'[u].op = "import-owned", job'[u].at = "publish",
             NEW c \in Payload[u] \ job'[u].left
      PROVE  FinalPath(u, c) \in files'
  <2>1. CASE ~ Dealt(u)
    <3>1. job'[u] = job[u] BY <2>1, Undisturbed
    <3>2. ~ Work(u) BY <2>1 DEF Dealt
    <3> QED BY <1>0, <1>1, <1>2, <3>1, <3>2 DEF Owned
  <2>2. CASE Paste(u) \/ Asked(u) \/ Heard(u)
    <3>1. job'[u].left = Payload[u]
      BY <1>0, <1>2, <2>2, RequestFields DEF Paste, Asked, Heard
    <3> QED BY <3>1
  <2>3. CASE PublishOne(u)
    <3>1. job[u].op = "import-owned" /\ job[u].at = "publish" BY <1>0, <1>2, <2>3, WorkFields
    <3>2. PICK d \in job[u].left :
            files' = files \cup {Target(u, d)} /\ job'[u].left = job[u].left \ {d}
      BY <1>0, <2>3, WorkFields
    <3>3. Target(u, d) = FinalPath(u, d) BY <3>1 DEF Target
    <3> QED BY <3>1, <3>2, <3>3 DEF Owned
  <2>4. CASE (Work(u) /\ ~ PublishOne(u)) \/ Die(u)
    <3>1. ~ RemoveFails(u) /\ ~ Recover(u) BY <1>0, WorkFields DEF Traced, Orderly
    <3>2. job'[u].at # "publish"
      BY <1>0, <2>4, <3>1, WorkFields DEF Work, Ended, Goes, Removing, Traced
    <3> QED BY <1>2, <3>2
  <2> QED BY <2>1, <2>2, <2>3, <2>4 DEF Dealt
<1>3. ASSUME job'[u].op = "import-owned", job'[u].at = "replied", job'[u].ok
      PROVE  FinalAssets(u) \subseteq files'
  <2>1. CASE ~ Dealt(u)
    <3>1. job'[u] = job[u] /\ ~ Work(u) BY <2>1, Undisturbed DEF Dealt
    <3>2. FinalAssets(u) \subseteq files BY <1>3, <3>1 DEF Owned
    <3> QED BY <1>0, <1>1, <3>1, <3>2
  <2>2. CASE Paste(u) \/ Asked(u) \/ Heard(u)
    BY <1>0, <1>3, <2>2, RequestFields DEF Paste, Asked, Heard
  <2>3. CASE PublishDone(u)
    <3>1. job[u].at = "publish" /\ job[u].left = {} /\ files' = files /\ job[u].op = "import-owned"
      BY <1>0, <1>3, <2>3, WorkFields DEF Ended, Goes
    <3> QED BY <1>0, <3>1 DEF Owned, FinalAssets
  <2>4. CASE (Work(u) /\ ~ PublishDone(u)) \/ Die(u)
    <3>1. job[u].op = "import-owned" BY <1>0, <1>3, <2>4, WorkEffect
    <3>2. ~ RemoveFails(u) /\ ~ Recover(u) /\ ~ Die(u) /\ ~ Compensated(u)
      BY <1>0, <1>3, WorkFields DEF Traced, Orderly
    <3>3. ~ WriteManifest(u) /\ ~ WriteFails(u) /\ ~ Settle(u)
      BY <1>0, <3>1, WorkFields DEF Traced
    <3>4. ~ PublishOne(u) /\ ~ PublishFails(u) /\ ~ RemoveOne(u)
      BY <1>0, <1>3, WorkFields DEF Goes, Removing
    <3> QED BY <2>4, <3>2, <3>3, <3>4 DEF Work
  <2> QED BY <2>1, <2>2, <2>3, <2>4 DEF Dealt
<1>4. ASSUME u \notin known', link'[u] # "none" \/ before'[u] # "none" \/ disk'[u] # "none"
      PROVE  FinalAssets(u) \subseteq files'
  <2>0. u \notin known BY <1>4, RecordsKept
  <2>1. CASE Copied(u)
    <3>1. link[u] # "none" \/ before[u] # "none" \/ disk[u] # "none"
      BY <1>4, <2>1 DEF Copied
    <3>2. ~ Work(u) BY <1>0, <2>0, <3>1, Unasked DEF Unborn, Dealt
    <3> QED BY <1>0, <1>1, <2>0, <3>1, <3>2 DEF Owned
  <2>2. CASE PrepareReply(u) BY <2>0, <2>2, CallKnown DEF PrepareReply, Replied
  <2>3. CASE ImportReply(u) /\ FinishImport(u)
    <3>1. job[u].op # "import" /\ job[u].at = "replied" /\ files' = files
      BY <1>4, <2>3 DEF ImportReply, FinishImport, Dismiss
    <3>2. job[u].op = "import-owned" BY <2>3, <3>1 DEF Pending, ImportReply
    <3>3. link'[u] # link[u]
      BY <1>0, <2>3 DEF FinishImport, InsertedLink, TextTypes, Unborn, ImportReply
    <3>4. job[u].ok BY <2>3, <3>3 DEF ImportReply
    <3> QED BY <1>0, <3>1, <3>2, <3>4 DEF Owned
  <2> QED BY <1>0, <2>1, <2>2, <2>3, LinkCases
<1> QED BY <1>0, <1>2, <1>3, <1>4 DEF Owned

-----------------------------------------------------------------------------
(* Lists *)

(* Emacs takes a transaction from its list when it is committed or settled, or with
   the whole buffer. *)
LEMMA ListCases ==
  ASSUME ClientInv, TextTypes, ENext, NEW u \in Txs, live'[Home[u]]
  PROVE  /\ live[Home[u]]
         /\ u \in listed[Home[u]] \ listed'[Home[u]]
              => DropSettled(u) \/ (CommitReply(u) /\ job[u].ok)
         /\ u \in listed'[Home[u]] \ listed[Home[u]]
              => ImportReply(u) /\ job[u].op = "import" /\ FinishImport(u)
<1>0. /\ live \in [Buffers -> BOOLEAN] /\ listed \in [Buffers -> SUBSET Txs]
      /\ Home[u] \in Buffers
  BY ConstantsAssumption DEF TextTypes, ClientInv
<1>1. CASE live' = live /\ listed' = listed BY <1>1
<1>2. ASSUME NEW b, Leave(b) PROVE live[Home[u]] /\ listed'[Home[u]] = listed[Home[u]]
  BY <1>0, <1>2 DEF Leave
<1>3. ASSUME NEW t \in Txs, DropSettled(t)
      PROVE  /\ live[Home[u]]
             /\ t = u \/ listed'[Home[u]] = listed[Home[u]]
                \/ listed'[Home[u]] = listed[Home[u]] \ {t}
             /\ listed'[Home[u]] \subseteq listed[Home[u]]
  BY <1>0, <1>3 DEF DropSettled
<1>4. ASSUME NEW t \in Txs, CommitReply(t)
      PROVE  /\ live[Home[u]]
             /\ t = u \/ listed'[Home[u]] = listed[Home[u]]
                \/ listed'[Home[u]] = listed[Home[u]] \ {t}
             /\ listed'[Home[u]] \subseteq listed[Home[u]]
             /\ listed' = listed \/ job[t].ok
  <2>1. listed' = [listed EXCEPT ![Home[t]] = IF job[t].ok THEN @ \ {t} ELSE @]
    BY <1>4 DEF CommitReply
  <2>2. CASE job[t].ok BY <1>0, <1>4, <2>1, <2>2 DEF CommitReply
  <2>3. CASE ~ job[t].ok BY <1>0, <1>4, <2>1, <2>3 DEF CommitReply
  <2> QED BY <2>2, <2>3
<1>5. ASSUME NEW t \in Txs, ImportReply(t)
      PROVE  /\ live[Home[u]]
             /\ \/ listed' = listed
                \/ /\ listed'[Home[u]] = listed[Home[u]] \cup {t}
                   /\ job[t].op = "import" /\ FinishImport(t)
                \/ listed'[Home[u]] = listed[Home[u]]
  <2>1. live' = live BY <1>5 DEF ImportReply
  <2>2. CASE FinishImport(t) /\ job[t].op = "import"
    <3>1. listed' = [listed EXCEPT ![Home[t]] = @ \cup {t}] BY <2>2 DEF FinishImport
    <3> QED BY <1>0, <2>1, <2>2, <3>1
  <2>3. CASE ~ (FinishImport(t) /\ job[t].op = "import")
    <3>1. listed' = listed BY <1>5, <2>3 DEF ImportReply, FinishImport
    <3> QED BY <2>1, <3>1
  <2> QED BY <2>2, <2>3
<1>6. ASSUME NEW b \in Buffers, User(b), ~ Crash(b) PROVE live' = live /\ listed' = listed
  BY <1>6 DEF User, Type, SetVisited, FirstSave, PlainSave, BeginSave, BeginKill, Quit, bufferVars
<1>7. ASSUME NEW b \in Buffers, WriteDocument(b) \/ WriteDocumentFails(b) \/ EndSave(b)
      PROVE  live' = live /\ listed' = listed
  BY <1>7 DEF WriteDocument, WriteDocumentFails, EndSave, bufferVars
<1>8. ASSUME NEW t \in Txs,
             \/ CallFinalize(t) \/ PrepareReply(t) \/ CallReconcile(t) \/ CallDocumentSaved(t)
             \/ DocumentSavedReply(t) \/ CallCommit(t) \/ CallAbort(t) \/ AbortReply(t)
             \/ Paste(t) \/ EditOut(t) \/ HelperStep(t)
      PROVE  live' = live /\ listed' = listed
  BY <1>8 DEF CallFinalize, Call, PrepareReply, CallReconcile, CallAgain, CallDocumentSaved,
       DocumentSavedReply, CallCommit, CallAbort, AbortReply, Paste, EditOut, HelperStep,
       emacsVars, bufferVars
<1>9. \A b \in Buffers : Of(b) \subseteq Txs BY DEF Of
<1>10. CASE \E b \in Buffers : Crash(b) \/ EndKill(b) BY <1>2, <1>10 DEF Crash, EndKill
<1>11. CASE \E t \in Txs : DropSettled(t) BY <1>3, <1>11
<1>12. CASE \E t \in Txs : CommitReply(t) BY <1>4, <1>12
<1>13. CASE \E t \in Txs : ImportReply(t) BY <1>5, <1>13
<1> QED
  BY <1>1, <1>6, <1>7, <1>8, <1>9, <1>10, <1>11, <1>12, <1>13 DEF ENext, SaveStep, KillStep

(* What is on no list any more is committed. *)
LEMMA RememberedKept ==
  ASSUME Orderly, Ground, ENext, NEW u \in Txs, Remembered(u), Told(u), Saving(Home[u])
  PROVE  Remembered(u)'
<1>0. /\ ClientInv /\ TextTypes /\ TypeOK /\ doing[Home[u]].settled \subseteq Txs
      /\ u \in Txs /\ u # NoTx
  BY EmacsAssumption, ConstantsAssumption DEF Ground, ClientInv, Doings
<1> SUFFICES ASSUME u \in known', live'[Home[u]], u \notin listed'[Home[u]]
             PROVE  manifest'[u].State = "COMMITTED"
  BY DEF Remembered
<1> SUFFICES manifest[u].State = "COMMITTED"
  BY StatesKept
<1>1. live[Home[u]] BY <1>0, ListCases
<1>2. CASE u \notin known
  <2>1. ImportReply(u) /\ FinishImport(u) BY <1>2, RecordsKept
  <2>2. job[u].op = "import" BY <1>2, <2>1 DEF FinishImport
  <2>3. listed'[Home[u]] = listed[Home[u]] \cup {u}
    BY <1>0, <2>1, <2>2, ConstantsAssumption DEF FinishImport, ClientInv
  <2> QED BY <2>3
<1>3. CASE DropSettled(u)
  <2>1. u \in doing[Home[u]].settled BY <1>3 DEF DropSettled
  <2> QED BY <2>1 DEF Saving
<1>4. CASE CommitReply(u) /\ job[u].ok
  <2>1. /\ doing[Home[u]].at = "commit" /\ doing[Home[u]].call = u /\ job[u].at = "replied"
    BY <1>4 DEF CommitReply, Replied
  <2>2. job[u].op = "commit" BY <1>0, <2>1 DEF Saving
  <2> QED BY <1>4, <2>1, <2>2 DEF Told
<1>5. CASE u \in known /\ u \notin listed[Home[u]] BY <1>1, <1>5 DEF Remembered
<1> QED BY <1>0, <1>2, <1>3, <1>4, <1>5, ListCases

-----------------------------------------------------------------------------
(* Saves *)

(* What a save has prepared stays prepared, and what it found committed is so. *)
LEMMA BatchKept ==
  ASSUME Orderly, Ground, ENext, NEW b \in Buffers, Saving(b)
  PROVE  LET d == doing[b]
         IN  /\ \A u \in d.settled : manifest'[u].State = "COMMITTED"
             /\ d.at = "prepare"
                  => \A u \in d.batch \ d.todo : manifest'[u].State \in Prepared
             /\ d.at \in {"saved", "commit"}
                  => \A u \in d.todo : /\ manifest'[u].State \in Prepared
                                       /\ manifest'[u].State = "PREPARED"
                                            => manifest[u].State = "PREPARED"
<1>0. /\ \A u \in doing[b].todo \cup doing[b].batch \cup doing[b].settled :
           u \in Txs /\ Home[u] = b
  BY DEF Ground, KeptInv, Visited, Of
<1>1. \A u \in doing[b].settled : manifest'[u].State = "COMMITTED"
  BY <1>0, StatesKept DEF Saving
<1>2. doing[b].at \in {"prepare", "saved", "commit"}
        => \A u \in doing[b].todo \cup doing[b].batch : u \notin discarded
  BY <1>0 DEF Ground, CommitInv, DeadRest, Discarding
<1>3. ASSUME doing[b].at = "prepare", NEW u \in doing[b].batch \ doing[b].todo
      PROVE  manifest'[u].State \in Prepared
  BY <1>0, <1>2, <1>3, StatesKept DEF Saving
<1>4. ASSUME doing[b].at \in {"saved", "commit"}, NEW u \in doing[b].todo
      PROVE  /\ manifest'[u].State \in Prepared
             /\ manifest'[u].State = "PREPARED" => manifest[u].State = "PREPARED"
  BY <1>0, <1>2, <1>4, StatesKept DEF Saving
<1> QED BY <1>1, <1>3, <1>4

(* Nothing gets on the list of a buffer with a file. *)
LEMMA ListShrinks ==
  ASSUME Orderly, Ground, ENext, NEW b \in Buffers, named[b], live'[b],
         \A t \in Txs : Pending(t)
  PROVE  listed'[b] \subseteq listed[b]
<1>0. ClientInv /\ TextTypes /\ (listed' \in [Buffers -> SUBSET Txs])
      /\ \A c \in Buffers : Visited(c)'
  <2>1. ClientInv /\ TextTypes BY DEF Ground
  <2>2. listed' \in [Buffers -> SUBSET Txs] BY <2>1, UserTypes, LoopStepTypes, PasteTypes DEF ENext
  <2>3. \A c \in Buffers : Visited(c)' BY <2>1, VisitedKept DEF Ground, KeptInv
  <2> QED BY <2>1, <2>2, <2>3
<1>1. ASSUME NEW u \in listed'[b], u \notin listed[b] PROVE FALSE
  <2>1. u \in Txs /\ Home[u] = b BY <1>0 DEF Visited, Of
  <2>2. ImportReply(u) /\ job[u].op = "import" BY <1>0, <1>1, <2>1, ListCases
  <2> QED BY <2>1, <2>2 DEF Pending, ImportReply
<1> QED BY <1>1

(* Emacs waits, and the helper works, dies or waits too. *)
LEMMA SavingWaits ==
  ASSUME Orderly, Ground, ENext, NEW b \in Buffers, Saving(b), \A t \in Txs : Pending(t),
         DeadRest(b)', doing'[b] = doing[b],
         doing[b].call # NoTx => \/ job'[doing[b].call] = job[doing[b].call]
                                 \/ Work(doing[b].call) \/ Die(doing[b].call)
  PROVE  Saving(b)'
<1> DEFINE t == doing[b].call
<1>0. /\ TypeOK /\ TextTypes
      /\ t # NoTx => t \in Txs /\ t \in doing[b].todo /\ Traced(t)
  BY DEF Ground, ClientInv, KeptInv, Visited, Of
<1>1. doing[b].at \in {"prepare", "saved", "commit"} => named'[b]
  BY <1>0, NamedOnce DEF Saving
<1>2. doing[b].at = "prepare" => listed'[b] \subseteq doing[b].batch
  <2>1. doing[b].at = "prepare" => live'[b] BY DEF DeadRest
  <2> QED BY <2>1, ListShrinks DEF Saving
<1>3. ASSUME t # NoTx, doing[b].at = "saved"
      PROVE  /\ job'[t].at # "idle" /\ job'[t].op = "document-saved"
             /\ job'[t].at = "replied" => manifest'[t].State # "PREPARED"
  <2>0. /\ job[t].at # "idle" /\ job[t].op = "document-saved"
        /\ job[t].at = "replied" => manifest[t].State # "PREPARED"
    BY <1>3 DEF Saving
  <2>1. job'[t].at # "idle" /\ job'[t].op = "document-saved"
    BY <1>0, <1>3, <2>0, WorkEffect, WorkGoesOn
  <2>2. ASSUME job'[t].at = "replied", manifest'[t].State = "PREPARED" PROVE FALSE
    <3>1. manifest[t].State = "PREPARED" BY <1>0, <1>3, <2>2, BatchKept
    <3>2. job[t].at # "replied" BY <2>0, <3>1
    <3>3. Work(t) \/ Die(t) BY <1>3, <2>2, <3>2
    <3>4. ~ Die(t) BY <1>0, <1>3, <2>0, WorkFields DEF Orderly
    <3>5. ~ WriteManifest(t)
      BY <1>0, <1>3, <2>0, <2>2, WorkFields, ManifestFields
    <3>6. ~ WriteFails(t)
      <4>1. Wanted(t).State = "DOCUMENT_SAVED" BY <1>0, <1>3, <2>0, ManifestFields
      <4>2. Accepted(t) BY <3>1, <4>1 DEF Accepted, AllowedTransition
      <4>3. ~ Fault(t, "write") BY <2>0 DEF Fault, Orderly
      <4> QED BY <1>0, <1>3, <4>2, <4>3, WorkFields
    <3>7. ~ PublishOne(t) /\ ~ PublishFails(t) /\ ~ PublishDone(t) /\ ~ Compensated(t)
          /\ ~ RemoveFails(t) /\ ~ Recover(t) /\ ~ Settle(t)
      BY <1>0, <1>3, <2>0, WorkFields DEF Traced, Orderly
    <3>8. ~ RemoveOne(t)
      BY <1>0, <1>3, <2>0, WorkFields DEF Traced, Removing
    <3> QED BY <3>3, <3>4, <3>5, <3>6, <3>7, <3>8 DEF Work
  <2> QED BY <2>1, <2>2
<1>4. ASSUME t # NoTx, doing[b].at = "commit"
      PROVE  /\ manifest'[t].State # "PREPARED"
             /\ job'[t].at # "idle" => job'[t].op = "commit"
  <2>1. manifest'[t].State # "PREPARED" BY <1>0, <1>4, BatchKept DEF Saving
  <2>2. CASE job'[t] = job[t] BY <1>4, <2>1, <2>2 DEF Saving
  <2>3. CASE Work(t) \/ Die(t)
    <3>1. job[t].at # "idle" BY <2>3, BusyWorks
    <3>2. job'[t].op = job[t].op BY <1>0, <1>4, <2>3, WorkEffect
    <3> QED BY <1>4, <2>1, <3>1, <3>2 DEF Saving
  <2> QED BY <1>4, <2>2, <2>3
<1>5. doing[b].at # "reconcile" BY DEF Saving
<1> QED BY <1>1, <1>2, <1>3, <1>4, <1>5, BatchKept DEF Saving

(* The loop of a save: each of its steps leaves behind what is prepared. *)
LEMMA SaveLoop ==
  ASSUME Orderly, Ground, ENext, NEW b \in Buffers, Saving(b), \A u \in Txs : Pending(u),
         live'[b], NEW t \in Of(b),
         \/ CallFinalize(t) \/ PrepareReply(t) \/ CallReconcile(t)
         \/ DropSettled(t) \/ CallDocumentSaved(t) \/ DocumentSavedReply(t)
         \/ CallCommit(t) \/ CommitReply(t) \/ CallAbort(t) \/ AbortReply(t)
  PROVE  Saving(b)'
<1>0. /\ TypeOK /\ ClientInv /\ TextTypes /\ t \in Txs /\ Home[t] = b /\ Traced(t)
      /\ doing \in [Buffers -> Doings] /\ doing[b] \in Doings /\ t # NoTx
  BY EmacsAssumption DEF Ground, ClientInv, Of
<1>1. doing[b].at \in {"prepare", "saved", "commit"}
        => named'[b] /\ listed'[b] \subseteq listed[b]
  BY <1>0, NamedOnce, ListShrinks DEF Saving
<1>2. doing[b].at # "reconcile" BY DEF Saving
<1>3. CASE CallFinalize(t)
  <2>1. /\ doing[b].at = "prepare" /\ doing'[b].at = "prepare" /\ doing'[b].batch = doing[b].batch
        /\ doing'[b].todo = doing[b].todo /\ doing'[b].settled = doing[b].settled
    BY <1>0, <1>3, LoopEffects DEF CallFinalize, Ready
  <2> QED BY <1>1, <2>1, BatchKept DEF Saving
<1>4. CASE PrepareReply(t)
  <2>0. /\ doing[b].at = "prepare" /\ doing[b].call = t /\ manifest' = manifest
        /\ job[t].at = "replied" /\ manifest[t].State # "NEEDS_RECONCILIATION"
    BY <1>0, <1>2, <1>4 DEF PrepareReply, Replied, Dismiss, Traced
  <2>1. CASE SaveError(b)
    <3>1. /\ doing'[b].at = "rest" /\ doing'[b].call = NoTx /\ doing'[b].settled = {}
      BY <1>0, <2>1, RestEffect DEF SaveError
    <3> QED BY <3>1 DEF Saving
  <2>2. CASE job[t].ok /\ Rewrite(t)
    <3>1. /\ doing'[b].at = "prepare" /\ doing'[b].call = NoTx
          /\ doing'[b].todo = doing[b].todo \ {t} /\ doing'[b].batch = doing[b].batch
          /\ doing'[b].settled = IF manifest[t].State = "COMMITTED"
                                 THEN doing[b].settled \cup {t} ELSE doing[b].settled
      BY <1>0, <2>2 DEF Rewrite, Doings
    <3>2. manifest[t].State \in Prepared
      <4>1. t \notin discarded BY <1>0, <2>0 DEF Ground, CommitInv, DeadRest, Discarding
      <4>2. job[t].op = "finalize" BY <1>0, <2>0, <4>1 DEF Ground, KeptInv, Waiting
      <4> QED BY <1>0, <2>0, <2>2, <4>1, <4>2 DEF Ground, KeptInv, Kept, Hired
    <3> QED BY <1>1, <2>0, <3>1, <3>2 DEF Saving
  <2> QED BY <1>0, <1>4, <2>0, <2>1, <2>2 DEF PrepareReply
<1>5. CASE CallReconcile(t) BY <1>0, <1>2, <1>5 DEF CallReconcile, CallAgain
<1>6. CASE CallDocumentSaved(t)
  <2>1. /\ doing[b].at = "saved" /\ doing'[b].at = "saved" /\ doing'[b].call = t
        /\ doing'[b].todo = doing[b].todo /\ doing'[b].settled = doing[b].settled
        /\ t \in doing[b].todo
    BY <1>0, <1>6, LoopEffects DEF CallDocumentSaved, Ready
  <2>2. /\ manifest' = manifest /\ job'[t].op = "document-saved"
        /\ IF AllowedTransition(manifest[t].State, "DOCUMENT_SAVED")
           THEN job'[t].at = "write" ELSE job'[t].at = "replied"
    BY <1>0, <1>6, RequestFields DEF CallDocumentSaved
  <2>3. job'[t].at = "replied" => manifest'[t].State # "PREPARED"
    BY <2>2 DEF AllowedTransition
  <2> QED BY <1>1, <2>1, <2>2, <2>3, BatchKept DEF Saving
<1>7. CASE DocumentSavedReply(t)
  <2>0. /\ doing[b].at = "saved" /\ doing[b].call = t /\ job[t].at = "replied"
        /\ manifest' = manifest /\ job'[t].at = "idle"
    BY <1>0, <1>7, RequestFields DEF DocumentSavedReply, Replied
  <2>1. CASE doing' = [doing EXCEPT ![b].at = "commit"]
    <3>1. /\ doing'[b].at = "commit" /\ doing'[b].call = t
          /\ doing'[b].todo = doing[b].todo /\ doing'[b].settled = doing[b].settled
      BY <1>0, <2>0, <2>1, PhaseEffect
    <3> QED BY <1>0, <1>1, <2>0, <3>1, BatchKept DEF Saving
  <2>2. CASE Advance(t, "saved")
    <3>1. /\ doing'[b].at = "saved" /\ doing'[b].call = NoTx
          /\ doing'[b].todo \subseteq doing[b].todo /\ doing'[b].settled = doing[b].settled
      BY <1>0, <2>2, LoopEffects
    <3> QED BY <1>1, <2>0, <3>1, BatchKept DEF Saving
  <2> QED BY <1>0, <1>7, <2>1, <2>2 DEF DocumentSavedReply
<1>8. CASE DropSettled(t) \/ CommitReply(t)
  <2>1. Advance(t, "saved") /\ doing[b].at \in {"saved", "commit"}
    BY <1>0, <1>8 DEF DropSettled, CommitReply, Ready, Replied
  <2>2. /\ doing'[b].at = "saved" /\ doing'[b].call = NoTx
        /\ doing'[b].todo \subseteq doing[b].todo /\ doing'[b].settled = doing[b].settled
    BY <1>0, <2>1, LoopEffects
  <2> QED BY <1>1, <2>1, <2>2, BatchKept DEF Saving
<1>9. CASE CallCommit(t)
  <2>1. doing' = doing /\ doing[b].at = "commit" /\ doing[b].call = t /\ job'[t].op = "commit"
    BY <1>0, <1>9, RequestFields DEF CallCommit, CallAgain, emacsVars
  <2>2. manifest' = manifest BY <1>9 DEF CallCommit, StartCommit
  <2> QED BY <1>1, <2>1, <2>2, BatchKept DEF Saving
<1>10. CASE CallAbort(t) \/ AbortReply(t)
  <2>1. doing[b].at = "kill" BY <1>0, <1>10 DEF CallAbort, AbortReply, Ready, Replied
  <2>2. doing'[b].at = "kill" /\ doing'[b].settled = doing[b].settled
    BY <1>0, <1>10, <2>1, LoopEffects DEF CallAbort, AbortReply
  <2> QED BY <2>2, BatchKept DEF Saving
<1> QED BY <1>3, <1>4, <1>5, <1>6, <1>7, <1>8, <1>9, <1>10

(* A save keeps what it has reached while others work, paste, crash or quit. *)
LEMMA SavingKept ==
  ASSUME Orderly, Ground, ENext, NEW b \in Buffers, Saving(b), \A t \in Txs : Pending(t),
         DeadRest(b)'
  PROVE  Saving(b)'
<1>0. /\ ClientInv /\ TypeOK /\ TextTypes /\ doing[b] \in Doings
      /\ doing[b].call # NoTx => /\ doing[b].call \in Txs /\ Home[doing[b].call] = b
                                 /\ import[doing[b].call] = "done"
  BY CallFacts DEF Ground, ClientInv, KeptInv, Visited, Unborn
<1>1. ASSUME doing'[b] = doing[b], doing[b].call # NoTx => job'[doing[b].call] = job[doing[b].call]
      PROVE  Saving(b)'
  BY <1>1, SavingWaits
<1>2. ASSUME doing'[b] = Rest PROVE Saving(b)'
  BY <1>2 DEF Saving, Rest
<1>3. ASSUME NEW t \in Txs, \A u \in Txs \ {t} : job'[u] = job[u], Home[t] # b,
             doing'[b] = doing[b]
      PROVE  Saving(b)'
  BY <1>0, <1>1, <1>3
<1>4. ASSUME NEW c \in Buffers, User(c) PROVE Saving(b)'
  <2>1. CASE Type(c) \/ SetVisited(c) \/ FirstSave(c) \/ PlainSave(c)
    BY <1>1, <2>1 DEF Type, SetVisited, FirstSave, PlainSave, WriteBuffer, vars
  <2>2. CASE BeginSave(c)
    <3>1. CASE c = b
      <4>1. /\ doing'[b].at = "prepare" /\ doing'[b].call = NoTx /\ doing'[b].settled = {}
            /\ doing'[b].todo = listed[b] /\ doing'[b].batch = listed[b]
            /\ listed' = listed /\ named' = named /\ named[b]
        BY <1>0, <2>2, <3>1 DEF BeginSave, Rest, bufferVars, ClientInv
      <4> QED BY <4>1 DEF Saving
    <3>2. CASE c # b BY <1>0, <1>1, <2>2, <3>2 DEF BeginSave, vars, ClientInv
    <3> QED BY <3>1, <3>2
  <2>3. CASE BeginKill(c)
    <3>1. CASE c = b
      <4>1. doing'[b].at = "kill" /\ doing'[b].settled = doing[b].settled
        BY <1>0, <2>3, <3>1 DEF BeginKill, ClientInv, Doings
      <4> QED BY <4>1, BatchKept DEF Saving
    <3>2. CASE c # b BY <1>0, <1>1, <2>3, <3>2 DEF BeginKill, vars, ClientInv
    <3> QED BY <3>1, <3>2
  <2>4. CASE Crash(c)
    <3>1. CASE c = b BY <1>0, <1>2, <2>4, <3>1 DEF Crash, Leave, ClientInv
    <3>2. CASE c # b BY <1>0, <1>1, <2>4, <3>2 DEF Crash, Leave, vars, ClientInv
    <3> QED BY <3>1, <3>2
  <2>5. CASE Quit(c)
    <3>1. CASE c = b BY <1>0, <1>2, <2>5, <3>1 DEF Quit, ClientInv
    <3>2. CASE c # b
      <4>1. doing[c].call \in Txs /\ Home[doing[c].call] = c
        BY <2>5, CallFacts DEF Quit, Ground
      <4>2. \A u \in Txs \ {doing[c].call} : job'[u] = job[u]
        BY <1>0, <2>5, <4>1, DismissEffect DEF Quit
      <4>3. doing'[b] = doing[b] BY <1>0, <2>5, <3>2 DEF Quit, ClientInv
      <4> QED BY <1>3, <3>2, <4>1, <4>2, <4>3
    <3> QED BY <3>1, <3>2
  <2> QED BY <1>4, <2>1, <2>2, <2>3, <2>4, <2>5 DEF User
<1>5. ASSUME NEW c \in Buffers, SaveStep(c) \/ KillStep(c) PROVE Saving(b)'
  <2>1. CASE WriteDocument(c)
    <3>1. CASE c = b
      <4>1. /\ doing[b].at = "prepare" /\ doing[b].todo = {}
            /\ doing'[b].at = "saved" /\ doing'[b].call = NoTx /\ manifest' = manifest
            /\ doing'[b].todo = doing[b].batch /\ doing'[b].settled = doing[b].settled
            /\ named' = named
        BY <1>0, <2>1, <3>1 DEF WriteDocument, AllPrepared, WriteBuffer, ClientInv, Doings,
             bufferVars
      <4> QED BY <4>1 DEF Saving
    <3>2. CASE c # b BY <1>0, <1>1, <2>1, <3>2 DEF WriteDocument, WriteBuffer, ClientInv
    <3> QED BY <3>1, <3>2
  <2>2. CASE WriteDocumentFails(c) \/ EndSave(c) \/ EndKill(c)
    <3>0. doing' = [doing EXCEPT ![c] = Rest] /\ job' = job
      BY <2>2 DEF WriteDocumentFails, SaveError, EndSave, EndKill, Leave, vars
    <3>1. CASE c = b BY <1>0, <1>2, <3>0, <3>1 DEF ClientInv
    <3>2. CASE c # b BY <1>0, <1>1, <3>0, <3>2 DEF ClientInv
    <3> QED BY <3>1, <3>2
  <2>3. ASSUME NEW t \in Of(c),
               \/ CallFinalize(t) \/ PrepareReply(t) \/ CallReconcile(t)
               \/ DropSettled(t) \/ CallDocumentSaved(t) \/ DocumentSavedReply(t)
               \/ CallCommit(t) \/ CommitReply(t) \/ CallAbort(t) \/ AbortReply(t)
        PROVE  Saving(b)'
    <3>0. t \in Txs /\ Home[t] = c BY DEF Of
    <3>1. CASE c = b
      <4>1. doing[b].at # "rest"
        BY <2>3, <3>0, <3>1 DEF CallFinalize, PrepareReply, CallReconcile, DropSettled,
             CallDocumentSaved, DocumentSavedReply, CallCommit, CommitReply, CallAbort,
             AbortReply, Ready, Replied, CallAgain
      <4>2. live' = live
        BY <2>3 DEF CallFinalize, PrepareReply, CallReconcile, DropSettled,
             CallDocumentSaved, DocumentSavedReply, CallCommit, CommitReply, CallAbort,
             AbortReply, Call, CallAgain, bufferVars, emacsVars
      <4>3. live'[b] BY <4>1, <4>2 DEF Ground, CommitInv, DeadRest
      <4> QED BY <2>3, <3>1, <4>3, SaveLoop
    <3>2. CASE c # b
      <4>1. doing'[b] = doing[b] /\ \A u \in Txs \ {t} : job'[u] = job[u]
        BY <1>0, <2>3, <3>0, <3>2, LoopTouches
      <4> QED BY <1>3, <3>0, <3>2, <4>1
    <3> QED BY <3>1, <3>2
  <2> QED BY <1>5, <2>1, <2>2, <2>3 DEF SaveStep, KillStep
<1>6. ASSUME NEW t \in Txs, Paste(t) \/ EditOut(t) \/ ImportReply(t) \/ HelperStep(t)
      PROVE  Saving(b)'
  <2>0. doing' = doing BY <1>6 DEF Paste, EditOut, ImportReply, HelperStep, emacsVars
  <2>1. CASE EditOut(t) BY <1>1, <2>0, <2>1 DEF EditOut, vars
  <2>2. CASE Paste(t) \/ ImportReply(t)
    <3>1. import[t] # "done" BY <2>2 DEF Paste, ImportReply
    <3>2. \A u \in Txs \ {t} : job'[u] = job[u]
      BY <1>0, <2>2, RequestOwn, DismissEffect DEF Paste, Request, ImportReply, Ground, KeptInv
    <3> QED BY <1>0, <1>1, <2>0, <3>1, <3>2
  <2>3. CASE HelperStep(t)
    <3>1. Work(t) \/ Die(t) BY <2>3 DEF HelperStep
    <3>2. \A u \in Txs \ {t} : job'[u] = job[u] BY <1>0, <3>1, WorkEffect
    <3> QED BY <1>0, <2>0, <3>1, <3>2, SavingWaits
  <2> QED BY <1>6, <2>1, <2>2, <2>3
<1> QED BY <1>4, <1>5, <1>6 DEF ENext

-----------------------------------------------------------------------------
(* Documents *)

(* A document changes when its buffer is saved, and only a kill discards. *)
LEMMA DiskCases ==
  ASSUME Orderly, TextTypes, ENext, NEW u \in Txs
  PROVE  /\ \/ disk'[u] = disk[u]
            \/ disk'[u] = link[u] /\ (PlainSave(Home[u]) \/ WriteDocument(Home[u]))
         /\ u \in discarded' \ discarded => CallAbort(u)
<1> DEFINE Goal == /\ \/ disk'[u] = disk[u]
                      \/ disk'[u] = link[u] /\ (PlainSave(Home[u]) \/ WriteDocument(Home[u]))
                   /\ u \in discarded' \ discarded => CallAbort(u)
<1>1. CASE UNCHANGED <<disk, discarded>> BY <1>1
<1>2. ASSUME NEW b \in Buffers, PlainSave(b) \/ WriteDocument(b) PROVE Goal
  BY <1>2 DEF PlainSave, WriteDocument, WriteBuffer, history
<1>3. ASSUME NEW t \in Txs, CallAbort(t) PROVE Goal
  BY <1>3 DEF CallAbort, Call
<1>4. ASSUME NEW b \in Buffers, User(b), ~ PlainSave(b) PROVE UNCHANGED <<disk, discarded>>
  BY <1>4 DEF Orderly, User, Type, SetVisited, FirstSave, BeginSave, BeginKill, Quit, Crash,
       Leave, history
<1>5. ASSUME NEW b \in Buffers, WriteDocumentFails(b) \/ EndSave(b) \/ EndKill(b)
      PROVE  UNCHANGED <<disk, discarded>>
  BY <1>5 DEF WriteDocumentFails, EndSave, EndKill, Leave, history
<1>6. ASSUME NEW t \in Txs,
             \/ CallFinalize(t) \/ PrepareReply(t) \/ CallReconcile(t) \/ CallDocumentSaved(t)
             \/ DropSettled(t) \/ DocumentSavedReply(t) \/ CallCommit(t) \/ CommitReply(t)
             \/ AbortReply(t) \/ Paste(t) \/ EditOut(t) \/ ImportReply(t) \/ HelperStep(t)
      PROVE  UNCHANGED <<disk, discarded>>
  BY <1>6 DEF CallFinalize, Call, PrepareReply, CallReconcile, CallAgain, CallDocumentSaved,
       DropSettled, DocumentSavedReply, CallCommit, CommitReply, AbortReply, Paste, EditOut,
       ImportReply, HelperStep, emacsVars, history
<1>7. \A b \in Buffers : Of(b) \subseteq Txs BY DEF Of
<1> HIDE DEF Goal
<1>8. UNCHANGED <<disk, discarded>> => Goal BY <1>1 DEF Goal
<1>9. Goal BY <1>2, <1>3, <1>4, <1>5, <1>6, <1>7, <1>8 DEF ENext, SaveStep, KillStep
<1> QED BY <1>9 DEF Goal

(* Until a saved transaction is acknowledged, the loop of its save still has it to visit. *)
LEMMA SaveHolds ==
  ASSUME Orderly, Ground, ENext, NEW u \in Txs, NEW b, b = Home[u], Saving(b),
         doing[b].at \in {"saved", "commit"}, u \in doing[b].todo,
         manifest[u].State = "PREPARED"
  PROVE  \/ ~ live'[b]
         \/ doing'[b].at \in {"saved", "commit"} /\ u \in doing'[b].todo
<1> DEFINE Holds == doing'[b].at \in {"saved", "commit"} /\ u \in doing'[b].todo
<1>0. /\ ClientInv /\ TextTypes /\ b \in Buffers /\ doing \in [Buffers -> Doings]
      /\ doing[b] \in Doings /\ live[b] /\ u # NoTx
  BY EmacsAssumption, ConstantsAssumption DEF Ground, ClientInv, CommitInv, DeadRest
<1>1. CASE doing'[b] = doing[b] BY <1>1
<1>2. ASSUME NEW c \in Buffers, doing' = [doing EXCEPT ![c] = Rest], c # b PROVE Holds
  BY <1>0, <1>2
<1>3. ASSUME NEW c \in Buffers, User(c) PROVE ~ live'[b] \/ Holds
  <2>1. CASE Type(c) \/ SetVisited(c) \/ FirstSave(c) \/ PlainSave(c)
    BY <1>1, <2>1 DEF Type, SetVisited, FirstSave, PlainSave
  <2>2. CASE BeginSave(c) \/ BeginKill(c)
    <3>1. c # b BY <2>2 DEF BeginSave, BeginKill, AtRest
    <3> QED BY <1>0, <1>1, <2>2, <3>1 DEF BeginSave, BeginKill
  <2>3. CASE Crash(c)
    BY <1>0, <1>2, <2>3 DEF Crash, Leave, TextTypes
  <2>4. CASE Quit(c)
    <3>1. c # b BY <2>4 DEF Quit, Orderly
    <3> QED BY <1>2, <2>4, <3>1 DEF Quit
  <2> QED BY <1>3, <2>1, <2>2, <2>3, <2>4 DEF User
<1>4. ASSUME NEW c \in Buffers, SaveStep(c) \/ KillStep(c) PROVE Holds
  <2>1. CASE WriteDocument(c)
    <3>1. c # b BY <2>1 DEF WriteDocument, AllPrepared
    <3> QED BY <1>0, <1>1, <2>1, <3>1 DEF WriteDocument
  <2>2. CASE WriteDocumentFails(c) \/ EndSave(c) \/ EndKill(c)
    <3>1. c # b BY <2>2 DEF WriteDocumentFails, AllPrepared, EndSave, EndKill
    <3> QED BY <1>2, <2>2, <3>1 DEF WriteDocumentFails, SaveError, EndSave, EndKill, Leave
  <2>3. ASSUME NEW t \in Of(c),
               \/ CallFinalize(t) \/ PrepareReply(t) \/ CallReconcile(t)
               \/ DropSettled(t) \/ CallDocumentSaved(t) \/ DocumentSavedReply(t)
               \/ CallCommit(t) \/ CommitReply(t) \/ CallAbort(t) \/ AbortReply(t)
        PROVE  Holds
    <3>0. t \in Txs /\ Home[t] = c BY DEF Of
    <3>1. CASE c # b
      <4>1. doing'[b] = doing[b] BY <1>0, <2>3, <3>0, <3>1, LoopTouches
      <4> QED BY <1>1, <4>1
    <3>2. CASE c = b
      <4>0. ~ CallFinalize(t) /\ ~ PrepareReply(t) /\ ~ CallReconcile(t)
            /\ ~ CallAbort(t) /\ ~ AbortReply(t)
        BY <3>0, <3>2 DEF CallFinalize, PrepareReply, CallReconcile, CallAgain, CallAbort,
             AbortReply, Ready, Replied
      <4>1. CASE CallDocumentSaved(t)
        BY <1>0, <3>0, <3>2, <4>1, LoopEffects DEF CallDocumentSaved
      <4>2. CASE CallCommit(t) BY <1>1, <4>2 DEF CallCommit, CallAgain, emacsVars
      <4>3. CASE doing' = [doing EXCEPT ![b].at = "commit"]
        BY <1>0, <4>3, PhaseEffect
      <4>4. CASE Advance(t, "saved") /\ t # u
        BY <1>0, <3>0, <3>2, <4>4 DEF Advance, Doings
      <4>5. DropSettled(t) => t # u
        BY <3>0, <3>2 DEF DropSettled, Saving
      <4>6. DocumentSavedReply(t) /\ Advance(t, "saved") => t # u
        BY <1>0, <3>0, <3>2 DEF DocumentSavedReply, Replied, Saving
      <4>7. CommitReply(t) => t # u
        BY <1>0, <3>0, <3>2 DEF CommitReply, Replied, Saving
      <4> QED BY <2>3, <3>0, <3>2, <4>0, <4>1, <4>2, <4>3, <4>4, <4>5, <4>6, <4>7
             DEF DropSettled, DocumentSavedReply, CommitReply
    <3> QED BY <3>1, <3>2
  <2> QED BY <1>4, <2>1, <2>2, <2>3 DEF SaveStep, KillStep
<1>5. ASSUME NEW t \in Txs, Paste(t) \/ EditOut(t) \/ ImportReply(t) \/ HelperStep(t)
      PROVE  Holds
  BY <1>1, <1>5 DEF Paste, EditOut, ImportReply, HelperStep, emacsVars
<1> QED BY <1>3, <1>4, <1>5 DEF ENext

(* What is secure stays so. *)
LEMMA SecureKept ==
  ASSUME Orderly, Ground, ENext, NEW u \in Txs, Saving(Home[u]), Secure(u)
  PROVE  Secure(u)'
<1>1. CASE manifest[u].State \in Acknowledged
  BY <1>1, StatesKept DEF Secure
<1>2. CASE manifest[u].State = "PREPARED" /\ u \notin discarded
  <2>1. manifest'[u].State \in Prepared /\ manifest'[u].State # "NEEDS_RECONCILIATION"
    <3>1. Traced(u) /\ TypeOK BY DEF Ground, ClientInv
    <3>2. ~ Dealt(u) => manifest'[u] = manifest[u] BY Undisturbed DEF Dealt
    <3>3. Dealt(u) => manifest'[u].State # "NEEDS_RECONCILIATION"
      BY <1>2, <3>1, StateSteps
    <3> QED BY <1>2, <3>2, <3>3, StatesKept DEF Prepared
  <2>2. doing[Home[u]].at \in {"saved", "commit"} \/ ~ live[Home[u]]
    BY <1>2 DEF Secure, Acknowledged
  <2>3. u \notin discarded'
    <3>1. doing[Home[u]].at # "kill" BY <2>2, ConstantsAssumption DEF Ground, CommitInv, DeadRest
    <3>2. ~ CallAbort(u) BY <3>1 DEF CallAbort, Ready
    <3> QED BY <1>2, <3>2, DiskCases DEF Ground
  <2>4. \/ ~ live'[Home[u]]
        \/ doing'[Home[u]].at \in {"saved", "commit"} /\ u \in doing'[Home[u]].todo
    <3>1. CASE ~ live[Home[u]] BY <3>1, ListCases DEF Ground
    <3>2. CASE live[Home[u]]
      <4>1. doing[Home[u]].at \in {"saved", "commit"} /\ u \in doing[Home[u]].todo
        BY <1>2, <3>2 DEF Secure, Acknowledged
      <4> QED BY <1>2, <4>1, SaveHolds
    <3> QED BY <3>1, <3>2
  <2> QED BY <2>1, <2>3, <2>4 DEF Secure, Acknowledged, Prepared
<1> QED BY <1>1, <1>2 DEF Secure

(* A document that links to assets has them: when it is written, and ever after. *)
LEMMA SavedKept ==
  ASSUME Orderly, Ground, Ground', ENext, NEW u \in Txs, Pending(u), Owned(u), Owned(u)',
         Remembered(u), Saving(Home[u]), Saved(u)
  PROVE  Saved(u)'
<1>0. /\ TypeOK /\ TextTypes /\ Unborn(u) /\ Unshared(u) /\ Home[u] \in Buffers
      /\ FinalAssets(u) \subseteq Own(u) /\ FinalAssets(u)' = FinalAssets(u)
      /\ manifest[u] \in Manifests(Files) /\ manifest'[u] \in Manifests(Files)
      /\ Traced(u) /\ Traced(u)'
  BY ConstantsAssumption
     DEF Orderly, Ground, ClientInv, TypeOK, KeptInv, Own, FinalAssets, FinalPath
(* Prepared means in place, if not discarded. *)
<1>1. /\ u \notin discarded /\ manifest[u].State \in Prepared => FinalAssets(u) \subseteq files
      /\ u \notin discarded' /\ manifest'[u].State \in Prepared
           => FinalAssets(u) \subseteq files'
  <2>1. ASSUME u \notin discarded, manifest[u].State \in Prepared
        PROVE  FinalAssets(u) \subseteq files
    <3>1. Life(u) /\ Bytes(u) BY <1>0, <2>1 DEF Ground, KeptInv, Kept
    <3>2. manifest[u].Place = "final" BY <1>0, <2>1, <3>1 DEF Life, Manifests, Prepared, Traced
    <3> QED BY <3>1, <3>2 DEF Bytes
  <2>2. ASSUME u \notin discarded', manifest'[u].State \in Prepared
        PROVE  FinalAssets(u) \subseteq files'
    <3>1. Life(u)' /\ Bytes(u)'
      BY <1>0, <2>2 DEF Ground, KeptInv, Kept, Unshared
    <3>2. manifest'[u].Place = "final" BY <1>0, <2>2, <3>1 DEF Life, Manifests, Prepared, Traced
    <3> QED BY <1>0, <3>1, <3>2 DEF Bytes
  <2> QED BY <2>1, <2>2
<1> SUFFICES ASSUME disk'[u] # "none"
             PROVE  FinalAssets(u) \subseteq files' /\ (u \in known' => Secure(u)')
  BY <1>0 DEF Saved
<1>2. CASE u \notin known' BY <1>0, <1>2 DEF Owned
<1>3. CASE u \in known' /\ disk'[u] = disk[u]
  <2>1. u \in known
    <3>1. ~ ImportReply(u) BY <1>0, <1>3 DEF Unborn, ImportReply
    <3> QED BY <1>3, <3>1, RecordsKept
  <2>2. FinalAssets(u) \subseteq files /\ Secure(u) BY <1>3, <2>1 DEF Saved
  <2>3. Secure(u)' BY <2>2, SecureKept
  <2>4. FinalAssets(u) \subseteq files'
    <3>1. CASE u \notin discarded'
      BY <1>1, <2>3, <3>1 DEF Secure, Acknowledged, Prepared
    <3>2. CASE u \in discarded'
      <4>1. ~ Work(u)
        <5>1. CASE u \notin discarded BY <3>2, <5>1, RecordsKept
        <5>2. CASE u \in discarded
          <6>1. Working(u) => job[u].op = "abort" BY <5>2 DEF Ground, CommitInv, Discarding
          <6>2. manifest[u].State \in Acknowledged BY <2>2, <5>2 DEF Secure
          <6>3. ~ Working(u) BY <1>0, <6>1, <6>2 DEF Traced, Acknowledged
          <6> QED BY <6>3 DEF Working, Work, PublishOne, PublishFails, PublishDone,
                 WriteManifest, WriteFails, RemoveOne, RemoveFails, Compensated, Recover, Settle,
                 Removing
        <5> QED BY <5>1, <5>2
      <4> QED BY <1>0, <2>2, <4>1, Undisturbed
    <3> QED BY <3>1, <3>2
  <2> QED BY <2>3, <2>4
<1>4. CASE u \in known' /\ disk'[u] = link[u] /\ (PlainSave(Home[u]) \/ WriteDocument(Home[u]))
  <2>1. UNCHANGED <<manifest, files, known, discarded, live>>
    BY <1>4 DEF PlainSave, WriteDocument, WriteBuffer, history, bufferVars
  <2>2. doing[Home[u]].at \in {"rest", "prepare"} /\ live[Home[u]]
    BY <1>0, <1>4 DEF PlainSave, AtRest, WriteDocument, AllPrepared, Ground, CommitInv, DeadRest
  <2>3. u \notin discarded BY <2>2 DEF Ground, CommitInv, Discarding
  <2>4. CASE u \notin listed[Home[u]]
    <3>1. manifest[u].State = "COMMITTED" BY <1>4, <2>1, <2>2, <2>4 DEF Remembered
    <3> QED BY <1>1, <2>1, <2>3, <3>1 DEF Secure, Acknowledged, Prepared
  <2>5. CASE u \in listed[Home[u]]
    <3>1. WriteDocument(Home[u]) BY <1>4, <2>5 DEF PlainSave
    <3>2. /\ u \in doing[Home[u]].batch /\ doing[Home[u]].todo = {}
          /\ manifest[u].State \in Prepared
      BY <2>5, <3>1 DEF Saving, WriteDocument, AllPrepared
    <3>3. doing'[Home[u]].at = "saved" /\ doing'[Home[u]].todo = doing[Home[u]].batch
      BY <1>0, <3>1 DEF WriteDocument, Ground, ClientInv, Doings
    <3> QED BY <1>0, <1>1, <2>1, <2>3, <3>2, <3>3 DEF Secure, Acknowledged, Prepared, Traced
  <2> QED BY <2>4, <2>5
<1> QED BY <1>0, <1>2, <1>3, <1>4, DiskCases

(* All of it together. *)
LEMMA SavedInvariant ==
  ASSUME Orderly
  PROVE  ESpec => []SavedInv
<1>0. "remove" \notin Faults /\ "quit-kill" \notin Ways BY DEF Orderly
<1>1. EInit => SavedInv
  <2> SUFFICES ASSUME EInit PROVE SavedInv
    OBVIOUS
  <2>1. ASSUME NEW t \in Txs
        PROVE  Pending(t) /\ Owned(t) /\ Told(t) /\ Remembered(t) /\ Saved(t)
    <3>1. /\ job[t] = NoJob /\ link[t] = "none" /\ before[t] = "none" /\ disk[t] = "none"
          /\ import[t] = "new" /\ known = {}
      BY DEF EInit, Init
    <3> QED BY <3>1 DEF Pending, Owned, Told, Remembered, Saved, NoJob
  <2>2. ASSUME NEW b \in Buffers PROVE Saving(b)
    <3>1. doing[b] = Rest BY DEF EInit
    <3> QED BY <3>1 DEF Saving, Rest
  <2> QED BY <2>1, <2>2 DEF SavedInv
<1>2. Ground /\ Ground' /\ SavedInv /\ [ENext]_allVars => SavedInv'
  <2> SUFFICES ASSUME Ground, Ground', SavedInv, [ENext]_allVars PROVE SavedInv'
    OBVIOUS
  <2>1. CASE UNCHANGED allVars
    <3>1. ASSUME NEW t \in Txs
          PROVE  (Pending(t) /\ Owned(t) /\ Told(t) /\ Remembered(t) /\ Saved(t))'
      BY <2>1 DEF allVars, vars, emacsVars, bufferVars, textVars, saveVars, history, SavedInv,
           Pending, Owned, Told, Remembered, Saved, Secure, FinalAssets, FinalPath
    <3>2. ASSUME NEW b \in Buffers PROVE Saving(b)'
      BY <2>1 DEF allVars, vars, emacsVars, bufferVars, SavedInv, Saving
    <3> QED BY <3>1, <3>2 DEF SavedInv
  <2>2. CASE ENext
    <3>1. ASSUME NEW t \in Txs
          PROVE  (Pending(t) /\ Owned(t) /\ Told(t) /\ Remembered(t) /\ Saved(t))'
      <4>1. /\ Pending(t) /\ Owned(t) /\ Told(t) /\ Remembered(t) /\ Saved(t)
            /\ Saving(Home[t])
        BY ConstantsAssumption DEF SavedInv
      <4>2. Pending(t)' BY <2>2, <4>1, PendingKept
      <4>3. Owned(t)' BY <2>2, <4>1, OwnedKept
      <4>4. Told(t)' BY <2>2, <4>1, ToldKept
      <4>5. Remembered(t)' BY <2>2, <4>1, RememberedKept
      <4>6. Saved(t)' BY <2>2, <4>1, <4>3, SavedKept
      <4> QED BY <4>2, <4>3, <4>4, <4>5, <4>6
    <3>2. ASSUME NEW b \in Buffers PROVE Saving(b)'
      <4>1. Saving(b) /\ \A t \in Txs : Pending(t) BY DEF SavedInv
      <4>2. DeadRest(b)' BY DEF Ground, CommitInv
      <4> QED BY <2>2, <4>1, <4>2, SavingKept
    <3> QED BY <3>1, <3>2 DEF SavedInv
  <2> QED BY <2>1, <2>2
<1>3. ESpec => []Ground BY <1>0, GroundInvariant
<1> QED BY <1>1, <1>2, <1>3, PTL DEF ESpec

(* Whatever a document on disk links to is in its asset directory: the first save that
   writes it finds all it pasted moved there, whichever publication or manifest write
   fails, whichever helper dies and however often the save is quit before; and it stays
   there when the buffer is killed or Emacs crashes in the middle of the acknowledgements. *)
THEOREM SavedAssetsStay ==
  ASSUME Orderly
  PROVE  ESpec => []SavedAssetsFinal
<1>1. SavedInv => SavedAssetsFinal BY DEF SavedInv, Saved, SavedAssetsFinal
<1> QED BY <1>1, SavedInvariant, PTL
-----------------------------------------------------------------------------
(***************************************************************************)
(* What a committed transaction created stays.  Documents of one directory *)
(* share its files; every file there that a transaction may still remove,  *)
(* or has committed, has one transaction that created it (Claim): what is  *)
(* published anew was nobody's, because no claimed file is missing.  That  *)
(* breaks when a file is removed and stays on a list: when a removal that  *)
(* was to be undone failed, or the kill that aborted was quit.             *)
(***************************************************************************)

AssetFiles == Roots \X Contents

\* Emacs has not asked for its abort, or can no longer get it.
Counts(t) == t \notin discarded \/ manifest[t].State \in Acknowledged

\* What its helper created and has not written down, or is about to remove.
Busy(t) ==
  IF job[t].at \in {"publish", "write"} THEN job[t].made
  ELSE IF job[t].at \in Removing THEN job[t].doomed ELSE {}

Claim(t) ==
  AssetFiles \cap ((IF Counts(t) THEN manifest[t].CreatedFiles ELSE {}) \cup Busy(t))

\* Staging files are staged ones, and what is removed was created by the transaction.
Lists(t) ==
  /\ manifest[t].StagingFiles \subseteq StagedAssets(t)
  /\ manifest[t].State \in {"NONE", "STAGED"} => manifest[t].CreatedFiles \subseteq StagedAssets(t)
  /\ job[t].at \in {"undo", "rollback"} => job[t].doomed \subseteq job[t].made
  /\ job[t].at = "remove" /\ job[t].op = "abort" => job[t].doomed \subseteq Recorded(t)

\* A transaction is aborted once: the one whose abort was sent is the one at hand.
Once(t) == t \in discarded /\ t \in doing[Home[t]].todo => doing[Home[t]].call = t

OwnerInv ==
  /\ \A t \in Txs : Lists(t) /\ Once(t) /\ Claim(t) \subseteq files
  /\ \A t, u \in Txs : t # u => Claim(t) \cap Claim(u) = {}

LEMMA AssetPaths ==
  ASSUME NEW t \in Txs
  PROVE  StagedAssets(t) \cap AssetFiles = {} /\ FinalAssets(t) \subseteq AssetFiles
<1>1. /\ Home[t] \in Buffers /\ Root[Home[t]] \in Roots /\ Buffers \cap Roots = {}
      /\ Payload[t] \subseteq Contents
  BY ConstantsAssumption
<1> QED BY <1>1 DEF StagedAssets, FinalAssets, StagingPath, FinalPath, AssetFiles

(* A helper at work on a discarded transaction aborts it. *)
LEMMA Discards ==
  ASSUME Ground, NEW t \in Txs
  PROVE  /\ t \in discarded => /\ doing[Home[t]].at = "kill" \/ doing[Home[t]].at = "rest"
                               /\ ~ AtRest(Home[t])
                               /\ Working(t) => job[t].op = "abort"
         /\ t \notin discarded => Hired(t) /\ Life(t)
<1>1. Home[t] \in Buffers BY ConstantsAssumption
<1>2. DeadRest(Home[t]) /\ Discarding(t) BY <1>1 DEF Ground, CommitInv
<1> QED BY <1>2 DEF Discarding, DeadRest, AtRest, Ground, KeptInv, Kept

(* No transaction is asked to abort again: the loop of a kill visits it once, and
   nothing else begins in its buffer. *)
LEMMA OnceKept ==
  ASSUME Ground, ENext, NEW t \in Txs, Once(t)
  PROVE  Once(t)'
<1> DEFINE b == Home[t]
<1>0. /\ b \in Buffers /\ ClientInv /\ doing \in [Buffers -> Doings] /\ t # NoTx
      /\ t \in discarded => doing[b].at \in {"kill", "rest"} /\ ~ AtRest(b)
  BY ConstantsAssumption, EmacsAssumption, Discards DEF Ground, ClientInv
<1> HIDE DEF b
<1>1. CASE doing'[b] = doing[b] /\ discarded' = discarded BY <1>1 DEF Once, b
<1>2. CASE doing'[b].todo = {} BY <1>2 DEF Once, b
<1>3. CASE t \notin discarded /\ discarded' = discarded BY <1>3 DEF Once
<1>4. ASSUME NEW c \in Buffers, User(c) PROVE Once(t)'
  <2>1. CASE BeginSave(c) \/ BeginKill(c)
    <3>1. discarded' = discarded /\ AtRest(c) /\ \A x \in Buffers \ {c} : doing'[x] = doing[x]
      BY <1>0, <2>1 DEF BeginSave, BeginKill, history
    <3> QED BY <1>0, <1>1, <1>3, <3>1
  <2>2. CASE Quit(c) \/ Crash(c)
    <3>1. discarded' = discarded /\ doing' = [doing EXCEPT ![c] = Rest]
      BY <2>2 DEF Quit, Crash, Leave, history
    <3> QED BY <1>0, <1>1, <1>2, <3>1, RestEffect
  <2>3. CASE Type(c) \/ SetVisited(c) \/ FirstSave(c) \/ PlainSave(c)
    <3>1. UNCHANGED <<doing, discarded>>
      BY <2>3 DEF Type, SetVisited, FirstSave, PlainSave, history
    <3> QED BY <1>1, <3>1
  <2> QED BY <1>4, <2>1, <2>2, <2>3 DEF User
<1>5. ASSUME NEW c \in Buffers, SaveStep(c) \/ KillStep(c) PROVE Once(t)'
  <2>1. CASE WriteDocument(c)
    <3>1. /\ discarded' = discarded /\ doing[c].at = "prepare"
          /\ \A x \in Buffers \ {c} : doing'[x] = doing[x]
      BY <1>0, <2>1 DEF WriteDocument, AllPrepared, history
    <3> QED BY <1>0, <1>1, <1>3, <3>1
  <2>2. CASE WriteDocumentFails(c) \/ EndSave(c) \/ EndKill(c)
    <3>1. discarded' = discarded /\ doing' = [doing EXCEPT ![c] = Rest]
      BY <2>2 DEF WriteDocumentFails, SaveError, EndSave, EndKill, Leave, history
    <3> QED BY <1>0, <1>1, <1>2, <3>1, RestEffect
  <2>3. ASSUME NEW u \in Of(c),
               \/ CallFinalize(u) \/ PrepareReply(u) \/ CallReconcile(u)
               \/ DropSettled(u) \/ CallDocumentSaved(u) \/ DocumentSavedReply(u)
               \/ CallCommit(u) \/ CommitReply(u) \/ CallAbort(u) \/ AbortReply(u)
        PROVE  Once(t)'
    <3>0. u \in Txs /\ Home[u] = c BY DEF Of
    <3>1. \A x \in Buffers \ {c} : doing'[x] = doing[x] BY <1>0, <2>3, <3>0, LoopTouches
    <3>2. CASE CallAbort(u)
      <4>1. /\ doing[c].call = NoTx /\ discarded' = discarded \cup {u}
            /\ doing'[c].call = u /\ doing'[c].todo = doing[c].todo
        BY <1>0, <3>0, <3>2, LoopEffects DEF CallAbort, Ready
      <4>2. CASE b = c BY <1>0, <4>1, <4>2 DEF Once, b
      <4>3. CASE b # c
        <5>1. t # u /\ doing'[b] = doing[b] BY <1>0, <3>0, <3>1, <4>3 DEF b
        <5> QED BY <4>1, <5>1 DEF Once, b
      <4> QED BY <4>2, <4>3
    <3>3. CASE AbortReply(u)
      <4>1. /\ discarded' = discarded /\ doing[c].call = u
            /\ doing' = [doing EXCEPT ![c].at = "kill", ![c].call = NoTx, ![c].todo = @ \ {u}]
        BY <3>0, <3>3 DEF AbortReply, Replied, Advance, history
      <4>2. doing'[c].todo = doing[c].todo \ {u} BY <1>0, <4>1 DEF Doings
      <4>3. CASE b = c BY <4>1, <4>2, <4>3 DEF Once, b
      <4>4. CASE b # c BY <1>0, <1>1, <3>1, <4>1, <4>4
      <4> QED BY <4>3, <4>4
    <3>4. CASE ~ CallAbort(u) /\ ~ AbortReply(u)
      <4>1. discarded' = discarded /\ doing[c].at \in {"prepare", "reconcile", "saved", "commit"}
        BY <2>3, <3>0, <3>4 DEF CallFinalize, PrepareReply, CallReconcile, DropSettled,
             CallDocumentSaved, DocumentSavedReply, CallCommit, CommitReply, Ready, CallAgain,
             Replied, emacsVars, history
      <4> QED BY <1>0, <1>1, <1>3, <3>1, <4>1
    <3> QED BY <3>2, <3>3, <3>4
  <2> QED BY <1>5, <2>1, <2>2, <2>3 DEF SaveStep, KillStep
<1>6. ASSUME NEW u \in Txs, Paste(u) \/ EditOut(u) \/ ImportReply(u) \/ HelperStep(u)
      PROVE  Once(t)'
  <2>1. UNCHANGED <<doing, discarded>>
    BY <1>6 DEF Paste, EditOut, ImportReply, HelperStep, emacsVars, history
  <2> QED BY <1>1, <2>1
<1> QED BY <1>4, <1>5, <1>6 DEF ENext

(* A step claims nothing but the files it creates, and removes nothing but claimed ones. *)
LEMMA ClaimSteps ==
  ASSUME "remove" \notin Faults, Ground, Ground', discarded \subseteq discarded',
         NEW t \in Txs, Lists(t), Once(t), Claim(t) \subseteq files, Dealt(t)
  PROVE  /\ Lists(t)'
         /\ Claim(t)' \subseteq Claim(t) \cup (files' \ files)
         /\ Claim(t)' \subseteq files'
         /\ (files \ files') \cap AssetFiles \subseteq Claim(t)
<1> DEFINE Goal == /\ Lists(t)'
                   /\ Claim(t)' \subseteq Claim(t) \cup (files' \ files)
                   /\ Claim(t)' \subseteq files'
                   /\ (files \ files') \cap AssetFiles \subseteq Claim(t)
<1>0. /\ TypeOK /\ Traced(t) /\ job[t] \in Jobs
      /\ StagedAssets(t) \cap AssetFiles = {} /\ StagedAssets(t)' = StagedAssets(t)
      /\ Working(t) /\ job[t].op # "abort" => t \notin discarded
      /\ t \notin discarded => Hired(t)
      /\ Working(t)' /\ job'[t].op # "abort" => Hired(t)'
  <2>1. TypeOK /\ Traced(t) BY DEF Ground, ClientInv
  <2>2. (t \notin discarded => Hired(t)) /\ (Working(t) /\ job[t].op # "abort" => t \notin discarded)
    BY Discards
  <2>3. (Discarding(t) /\ (t \notin discarded => Kept(t)))' BY DEF Ground, CommitInv, KeptInv
  <2>4. Working(t)' /\ job'[t].op # "abort" => Hired(t)' BY <2>3 DEF Discarding, Kept
  <2> QED BY <2>1, <2>2, <2>4, AssetPaths DEF TypeOK, StagedAssets, StagingPath
(* The manifest stays and no file changes. *)
<1>1. ASSUME UNCHANGED <<manifest, files>>, AssetFiles \cap Busy(t)' \subseteq Claim(t),
             job'[t].at \in {"undo", "rollback"} => job'[t].doomed \subseteq job'[t].made,
             job'[t].at = "remove" /\ job'[t].op = "abort" => job'[t].doomed \subseteq Recorded(t)
      PROVE  Goal
  <2>1. Lists(t)' BY <1>0, <1>1 DEF Lists, Recorded
  <2>2. Counts(t)' => Counts(t) BY <1>1 DEF Counts
  <2>3. Claim(t)' \subseteq Claim(t) BY <1>1, <2>2 DEF Claim, AssetFiles
  <2> QED BY <1>1, <2>1, <2>3
<1>2. ASSUME UNCHANGED <<manifest, files>>, job'[t].at \in {"idle", "replied"} PROVE Goal
  BY <1>1, <1>2 DEF Busy, Removing
<1>3. ASSUME UNCHANGED <<manifest, files>>, Clean(t), job'[t].at \in {"publish", "write"} PROVE Goal
  BY <1>1, <1>3 DEF Busy, Removing, Clean
<1>4. ASSUME UNCHANGED <<manifest, files>>, job'[t].at = "remove",
             job'[t].op \in {"commit", "reconcile"}
      PROVE  Goal
  <2>1. job'[t].doomed \subseteq StagedAssets(t) BY <1>0, <1>4 DEF Hired, Working
  <2> QED BY <1>0, <1>1, <1>4, <2>1 DEF Busy, Removing
<1>5. CASE Paste(t) BY <1>0, <1>3, <1>5, RequestFields DEF Paste
<1>6. CASE StartFinalize(t) BY <1>0, <1>2, <1>3, <1>6, RequestFields
<1>7. CASE StartDocumentSaved(t) BY <1>0, <1>2, <1>3, <1>7, RequestFields
<1>8. CASE StartCommit(t) \/ StartReconcile(t) BY <1>0, <1>2, <1>4, <1>8, RequestFields
<1>9. CASE StartAbort(t) /\ Ready(t, "kill")
  <2>1. /\ UNCHANGED <<manifest, files>> /\ job'[t].op = "abort"
        /\ \/ job'[t].at = "replied"
           \/ job'[t].at = "remove" /\ job'[t].doomed = Recorded(t)
    BY <1>0, <1>9, RequestFields
  <2>2. t \notin discarded BY <1>9, EmacsAssumption DEF Ready, Once
  <2>3. AssetFiles \cap Recorded(t) \subseteq Claim(t)
    BY <1>0, <2>2 DEF Recorded, Claim, Counts, Lists
  <2> QED BY <1>1, <1>2, <2>1, <2>3 DEF Busy, Removing
<1>10. CASE Dismiss(t) BY <1>0, <1>2, <1>10, RequestFields
<1>11. CASE PublishOne(t)
  <2>1. PICK c \in job[t].left :
          /\ job[t].at = "publish" /\ manifest' = manifest /\ files' = files \cup {Target(t, c)}
          /\ job'[t].made = IF Target(t, c) \in files THEN job[t].made
                            ELSE job[t].made \cup {Target(t, c)}
          /\ job'[t].at = "publish"
    BY <1>0, <1>11, WorkFields
  <2>2. Counts(t)' => Counts(t) BY <2>1 DEF Counts
  <2>3. Busy(t) = job[t].made /\ Busy(t)' = job'[t].made BY <2>1 DEF Busy
  <2>4. Claim(t)' \subseteq Claim(t) \cup (files' \ files)
    BY <2>1, <2>2, <2>3 DEF Claim, AssetFiles
  <2>5. Lists(t)' BY <1>0, <2>1 DEF Lists
  <2> QED BY <2>1, <2>4, <2>5
<1>12. CASE PublishFails(t)
  <2>1. /\ job[t].at = "publish" /\ UNCHANGED <<manifest, files>>
        /\ job'[t].at = "undo" /\ job'[t].doomed = job[t].made /\ job'[t].made = job[t].made
    BY <1>0, <1>12, WorkFields DEF Goes
  <2> QED BY <1>1, <2>1 DEF Busy, Removing, Claim
<1>13. CASE PublishDone(t)
  <2>1. /\ job[t].at = "publish" /\ UNCHANGED <<manifest, files>>
        /\ job'[t].at = "replied" \/ (job'[t].at = "write" /\ job'[t].made = job[t].made)
    BY <1>0, <1>13, WorkFields DEF Goes, Ended
  <2> QED BY <1>1, <1>2, <2>1 DEF Busy, Removing, Claim
<1>14. CASE WriteFails(t)
  <2>1. /\ job[t].at = "write" /\ UNCHANGED <<manifest, files>>
        /\ \/ job'[t].at = "replied"
           \/ /\ job'[t].at = "rollback" /\ job'[t].doomed = job[t].made
              /\ job'[t].made = job[t].made
    BY <1>0, <1>14, WorkFields DEF Goes, Ended
  <2> QED BY <1>1, <1>2, <2>1 DEF Busy, Removing, Claim
<1>15. CASE WriteManifest(t)
  <2>1. /\ job[t].at = "write" /\ files' = files /\ manifest'[t] = Wanted(t)
        /\ job'[t].at = "replied" /\ Working(t)
        /\ job[t].op \in {"import", "finalize", "document-saved"}
    BY <1>0, <1>15, WorkFields DEF Ended, Working, Traced
  <2>2. t \notin discarded /\ Hired(t) BY <1>0, <2>1
  <2>3. Busy(t)' = {} /\ Busy(t) = job[t].made BY <2>1 DEF Busy, Removing
  <2>4. CASE job[t].op = "import"
    <3>1. job[t].made \subseteq StagedAssets(t) BY <2>1, <2>2, <2>4 DEF Hired
    <3>2. manifest'[t].CreatedFiles = job[t].made /\ manifest'[t].StagingFiles = job[t].made
      BY <1>0, <2>1, <2>4, ManifestFields DEF Create
    <3>3. Claim(t)' = {} BY <1>0, <2>3, <3>1, <3>2 DEF Claim, AssetFiles
    <3>4. Lists(t)' BY <1>0, <2>1, <3>1, <3>2 DEF Lists
    <3> QED BY <2>1, <3>3, <3>4
  <2>5. CASE job[t].op = "finalize"
    <3>1. /\ manifest'[t].CreatedFiles = job[t].made /\ manifest'[t].State = "PREPARED"
          /\ manifest'[t].StagingFiles = manifest[t].StagingFiles
      BY <1>0, <2>1, <2>5, ManifestFields
    <3>2. Claim(t)' \subseteq Claim(t) BY <2>3, <3>1 DEF Claim, AssetFiles
    <3>3. Lists(t)' BY <1>0, <2>1, <3>1 DEF Lists
    <3> QED BY <2>1, <3>2, <3>3
  <2>6. CASE job[t].op = "document-saved"
    <3>1. /\ manifest'[t].CreatedFiles = manifest[t].CreatedFiles
          /\ manifest'[t].State = "DOCUMENT_SAVED"
          /\ manifest'[t].StagingFiles = manifest[t].StagingFiles
      BY <1>0, <2>1, <2>6, ManifestFields
    <3>2. Claim(t)' \subseteq Claim(t) BY <2>2, <2>3, <3>1 DEF Claim, AssetFiles, Counts
    <3>3. Lists(t)' BY <1>0, <2>1, <3>1 DEF Lists
    <3> QED BY <2>1, <3>2, <3>3
  <2> QED BY <2>1, <2>4, <2>5, <2>6
<1>16. CASE RemoveOne(t)
  <2>1. PICK f \in job[t].doomed :
          /\ files' = files \ {f} /\ job'[t].doomed = job[t].doomed \ {f}
          /\ job[t].at \in Removing /\ manifest' = manifest
          /\ job'[t].at = job[t].at /\ job'[t].op = job[t].op /\ job'[t].made = job[t].made
    BY <1>0, <1>16, WorkFields DEF Goes
  <2>2. Lists(t)' BY <1>0, <2>1 DEF Lists, Recorded
  <2>3. Busy(t) = job[t].doomed /\ Busy(t)' = job[t].doomed \ {f} BY <2>1 DEF Busy, Removing
  <2>4. Counts(t)' => Counts(t) BY <2>1 DEF Counts
  <2>5. f \in AssetFiles => ~ Counts(t) \/ f \notin manifest[t].CreatedFiles
    <3>1. Working(t) BY <2>1 DEF Working, Removing
    <3>2. CASE job[t].op = "abort"
      <4>1. t \in discarded BY <1>0, <3>2 DEF Hired
      <4>2. manifest[t].State \notin Acknowledged BY <1>0, <3>1, <3>2 DEF Traced, Acknowledged
      <4> QED BY <4>1, <4>2 DEF Counts
    <3>3. CASE job[t].op # "abort"
      <4>1. Hired(t) BY <1>0, <3>1, <3>3
      <4>2. CASE job[t].at = "remove" BY <1>0, <2>1, <4>1, <4>2 DEF Hired
      <4>3. CASE job[t].at \in {"undo", "rollback"}
        <5>1. manifest[t].State \in {"NONE", "STAGED"} BY <3>1, <4>1, <4>3 DEF Hired
        <5> QED BY <1>0, <5>1 DEF Lists
      <4> QED BY <2>1, <4>2, <4>3 DEF Removing
    <3> QED BY <3>2, <3>3
  <2>6. Claim(t)' \subseteq Claim(t) \ {f} BY <2>1, <2>3, <2>4, <2>5 DEF Claim, AssetFiles
  <2>7. (files \ files') \cap AssetFiles \subseteq Claim(t) BY <2>1, <2>3 DEF Claim
  <2> QED BY <2>1, <2>2, <2>6, <2>7
<1>17. CASE Compensated(t)
  <2>1. UNCHANGED <<manifest, files>> /\ job'[t].at = "replied"
    BY <1>0, <1>17, WorkFields DEF Ended, Traced
  <2> QED BY <1>2, <2>1
<1>18. CASE Settle(t)
  <2>1. /\ job[t].at = "remove" /\ files' = files /\ job'[t].at = "replied"
        /\ manifest' = manifest \/ manifest'[t] = Settled(t)
    BY <1>0, <1>18, WorkFields DEF Ended
  <2>2. CASE manifest' = manifest BY <1>2, <2>1, <2>2
  <2>3. CASE manifest'[t] = Settled(t)
    <3>1. /\ manifest'[t].CreatedFiles = manifest[t].CreatedFiles
          /\ manifest'[t].StagingFiles = manifest[t].StagingFiles
          /\ manifest'[t].State = IF job[t].op = "abort" THEN "ABORTED" ELSE "COMMITTED"
      BY <1>0, <2>3, ManifestFields
    <3>2. Lists(t)' BY <1>0, <2>1, <3>1 DEF Lists
    <3>3. Counts(t)' => Counts(t)
      <4>1. CASE job[t].op = "abort" BY <3>1, <4>1 DEF Counts, Acknowledged
      <4>2. CASE job[t].op # "abort" BY <1>0, <2>1, <4>2 DEF Counts, Working
      <4> QED BY <4>1, <4>2
    <3>4. Claim(t)' \subseteq Claim(t) BY <2>1, <3>1, <3>3 DEF Claim, AssetFiles, Busy, Removing
    <3> QED BY <2>1, <3>2, <3>4
  <2> QED BY <2>1, <2>2, <2>3
<1>19. CASE Die(t)
  <2>1. UNCHANGED <<manifest, files>> /\ job'[t].at = "replied"
    BY <1>0, <1>19, WorkFields DEF Ended
  <2> QED BY <1>2, <2>1
<1>20. ~ Recover(t) /\ ~ RemoveFails(t) BY <1>0, WorkFields DEF Traced
<1> QED
  BY <1>5, <1>6, <1>7, <1>8, <1>9, <1>10, <1>11, <1>12, <1>13, <1>14, <1>15, <1>16, <1>17,
     <1>18, <1>19, <1>20 DEF Dealt, Asked, Heard, Work

(* A transaction without a step of its own claims what it claimed. *)
LEMMA ClaimStays ==
  ASSUME NEW u \in Txs, job'[u] = job[u], manifest'[u] = manifest[u],
         discarded \subseteq discarded'
  PROVE  Claim(u)' \subseteq Claim(u) /\ (Lists(u) => Lists(u)')
<1>1. Counts(u)' => Counts(u) BY DEF Counts
<1>2. Busy(u)' = Busy(u) BY DEF Busy
<1>3. Claim(u)' \subseteq Claim(u) BY <1>1, <1>2 DEF Claim, AssetFiles
<1>4. Lists(u) => Lists(u)' BY DEF Lists, Recorded, StagedAssets, StagingPath
<1> QED BY <1>3, <1>4

LEMMA OwnerInvariant ==
  ASSUME "remove" \notin Faults, "quit-kill" \notin Ways
  PROVE  ESpec => []OwnerInv
<1>1. EInit => OwnerInv
  <2> SUFFICES ASSUME EInit PROVE OwnerInv
    OBVIOUS
  <2>1. ASSUME NEW t \in Txs PROVE Lists(t) /\ Once(t) /\ Claim(t) = {}
    <3>1. job[t] = NoJob /\ manifest[t] = NoManifest /\ discarded = {} BY DEF EInit, Init
    <3> QED BY <3>1 DEF Lists, Once, Claim, Busy, Removing, NoJob, NoManifest
  <2> QED BY <2>1 DEF OwnerInv
<1>2. Ground /\ Ground' /\ OwnerInv /\ [ENext]_allVars => OwnerInv'
  <2> SUFFICES ASSUME Ground, Ground', OwnerInv, [ENext]_allVars PROVE OwnerInv'
    OBVIOUS
  <2>0. /\ ClientInv /\ KeptInv /\ TypeOK /\ \A t \in Txs : OwnPaths(t) /\ Unborn(t)
        /\ discarded \subseteq discarded'
    <3>1. ClientInv /\ KeptInv /\ TypeOK /\ \A t \in Txs : OwnPaths(t) /\ Unborn(t)
      BY DEF Ground, ClientInv, KeptInv
    <3> QED BY <3>1, HelperCases DEF Still, Served, allVars, emacsVars, history
  <2>1. ASSUME NEW t \in Txs PROVE Once(t)'
    <3>1. UNCHANGED <<doing, discarded>> => Once(t)' BY DEF OwnerInv, Once
    <3> QED BY <3>1, OnceKept DEF OwnerInv, allVars, emacsVars, history
  <2>2. CASE UNCHANGED <<manifest, files, job>>
    <3>1. \A t \in Txs : Claim(t)' \subseteq Claim(t) /\ Lists(t)'
      BY <2>0, <2>2, ClaimStays DEF OwnerInv
    <3> QED BY <2>1, <2>2, <3>1 DEF OwnerInv
  <2>3. ASSUME NEW t \in Txs, Dealt(t) PROVE OwnerInv'
    <3>1. /\ Lists(t)' /\ Claim(t)' \subseteq Claim(t) \cup (files' \ files)
          /\ Claim(t)' \subseteq files' /\ (files \ files') \cap AssetFiles \subseteq Claim(t)
      BY <2>0, <2>3, ClaimSteps DEF OwnerInv
    <3>2. \A u \in Txs \ {t} : Claim(u)' \subseteq Claim(u) /\ Lists(u)'
      BY <2>0, <2>3, DealtAlone, ClaimStays DEF OwnerInv
    <3>3. \A u \in Txs \ {t} : /\ Claim(u) \cap Claim(t) = {} /\ Claim(u) \subseteq files
                               /\ Claim(u) \subseteq AssetFiles
      BY DEF OwnerInv, Claim
    <3>4. \A u \in Txs \ {t} : Claim(u)' \subseteq files' /\ Claim(u)' \cap Claim(t)' = {}
      BY <3>1, <3>2, <3>3
    <3>5. \A u, v \in Txs \ {t} : u # v => Claim(u)' \cap Claim(v)' = {}
      BY <3>2 DEF OwnerInv
    <3>6. \A u, v \in Txs : u # v => Claim(u)' \cap Claim(v)' = {} BY <3>4, <3>5
    <3>7. \A u \in Txs : Lists(u)' /\ Claim(u)' \subseteq files' BY <3>1, <3>2, <3>4
    <3> QED BY <2>1, <3>6, <3>7 DEF OwnerInv
  <2> QED BY <2>0, <2>2, <2>3, Deals
<1>3. ESpec => []Ground BY GroundInvariant
<1> QED BY <1>1, <1>2, <1>3, PTL DEF ESpec

(* What a committed transaction created in the asset directory stays there: no document
   of the same directory that pastes the same content, has its save fail or quit, is
   killed or crashes ever takes it for its own.  A committed transaction can lose a file
   it found there, and only to the transaction that created it, whose own document was
   not confirmed as saved.  Removals that fail and quits of a kill are left out: both
   leave a file on a list that is no longer there, and it may be created anew by another
   (see README). *)
THEOREM CommittedAssetsSafe ==
  ASSUME "remove" \notin Faults, "quit-kill" \notin Ways
  PROVE  ESpec => CommittedAssetsStay
<1> DEFINE Stays == \A t \in Txs : manifest[t].State = "COMMITTED" =>
              \A f \in (FinalAssets(t) \cap files) \ files' :
                /\ f \notin manifest[t].CreatedFiles
                /\ \E u \in Txs \ {t} :
                     /\ f \in manifest[u].CreatedFiles \cup job[u].made
                     /\ manifest[u].State \notin {"DOCUMENT_SAVED", "COMMITTED"}
<1>1. Ground /\ Ground' /\ OwnerInv /\ [ENext]_allVars => Stays
  <2> SUFFICES ASSUME Ground, Ground', OwnerInv, [ENext]_allVars,
                      NEW t \in Txs, manifest[t].State = "COMMITTED",
                      NEW f \in (FinalAssets(t) \cap files) \ files'
               PROVE  /\ f \notin manifest[t].CreatedFiles
                      /\ \E u \in Txs \ {t} :
                           /\ f \in manifest[u].CreatedFiles \cup job[u].made
                           /\ manifest[u].State \notin {"DOCUMENT_SAVED", "COMMITTED"}
    OBVIOUS
  <2>0. /\ ClientInv /\ KeptInv /\ TypeOK /\ \A u \in Txs : OwnPaths(u) /\ Unborn(u)
        /\ f \in AssetFiles /\ discarded \subseteq discarded' /\ ~ Working(t)
    <3>1. ClientInv /\ KeptInv /\ TypeOK /\ \A u \in Txs : OwnPaths(u) /\ Unborn(u)
      BY DEF Ground, ClientInv, KeptInv
    <3>2. ~ Working(t) BY DEF Ground, Over
    <3> QED BY <3>1, <3>2, AssetPaths, HelperCases DEF Still, Served, allVars, emacsVars, history
  <2>1. PICK u \in Txs : Dealt(u) BY <2>0, Deals
  <2>2. f \in Claim(u) BY <2>0, <2>1, ClaimSteps DEF OwnerInv
  <2>3. RemoveOne(u)
    <3>1. files' = files \/ PublishOne(u) \/ RemoveOne(u)
      BY <2>1 DEF Dealt, Asked, Heard, Paste, Dismiss, Die, StartImport, StartImportOwned,
         StartFinalize, StartDocumentSaved, StartCommit, StartReconcile, StartAbort, Work,
         PublishFails, PublishDone, WriteManifest, WriteFails, RemoveFails, Compensated, Recover,
         Settle
    <3> QED BY <3>1 DEF PublishOne
  <2>4. /\ job[u].at \in Removing /\ f \in job[u].doomed /\ Working(u)
        /\ Traced(u) /\ Lists(u) /\ StagedAssets(u) \cap AssetFiles = {}
    <3>1. job[u].at \in Removing /\ f \in job[u].doomed BY <2>0, <2>3, WorkFields
    <3> QED BY <3>1, AssetPaths DEF Working, Removing, Ground, OwnerInv
  <2>5. u # t BY <2>0, <2>4
  <2>6. f \notin manifest[t].CreatedFiles
    <3>1. Claim(t) \cap Claim(u) = {} BY <2>5 DEF OwnerInv
    <3> QED BY <2>0, <2>2, <3>1 DEF Claim, Counts, Acknowledged
  <2>7. /\ f \in manifest[u].CreatedFiles \cup job[u].made
        /\ manifest[u].State \notin {"DOCUMENT_SAVED", "COMMITTED"}
    <3>1. CASE job[u].at = "remove" /\ job[u].op = "abort"
      BY <2>0, <2>4, <3>1 DEF Lists, Recorded, Traced
    <3>2. CASE job[u].at = "remove" /\ job[u].op # "abort"
      <4>1. Hired(u) BY <2>4, <3>2, Discards
      <4> QED BY <2>0, <2>4, <3>2, <4>1 DEF Hired
    <3>3. CASE job[u].at \in {"undo", "rollback"}
      BY <2>4, <3>3 DEF Lists, Traced
    <3> QED BY <2>4, <3>1, <3>2, <3>3 DEF Removing
  <2> QED BY <2>5, <2>6, <2>7
<1> HIDE DEF Stays
<1>2. Ground /\ Ground' /\ OwnerInv /\ [ENext]_allVars => [Stays]_allVars BY <1>1
<1>3. ESpec => [][Stays]_allVars BY <1>2, OwnerInvariant, GroundInvariant, PTL DEF ESpec
<1> QED BY <1>3 DEF Stays, CommittedAssetsStay
=============================================================================
