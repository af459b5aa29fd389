----------------------------- MODULE TxLifecycle -----------------------------
(***************************************************************************)
(* What the clipboard helper promises its client about the life of an      *)
(* asset transaction, with no files, no manifests and no helper processes: *)
(* a transaction is staged, prepared for one document, confirmed saved and *)
(* committed, or it is aborted before the document was confirmed; a failed *)
(* removal parks it until it is recovered.  Protocol: the TransactionState *)
(* values of internal/clipboard/protocol.go.                               *)
(***************************************************************************)
CONSTANT Txs

VARIABLE state

Init == state = [t \in Txs |-> "NONE"]

Move(t, from, to) == state[t] \in from /\ state' = [state EXCEPT ![t] = to]

Stage(t) == Move(t, {"NONE"}, "STAGED")
PrepareFor(t) == Move(t, {"STAGED"}, "PREPARED")
ConfirmSaved(t) == Move(t, {"PREPARED"}, "DOCUMENT_SAVED")
Commit(t) == Move(t, {"DOCUMENT_SAVED", "NEEDS_RECONCILIATION"}, "COMMITTED")
Abort(t) == Move(t, {"STAGED", "PREPARED", "NEEDS_RECONCILIATION"}, "ABORTED")
Park(t) == Move(t, {"NONE", "STAGED", "PREPARED", "DOCUMENT_SAVED"}, "NEEDS_RECONCILIATION")

Next == \E t \in Txs : \/ Stage(t) \/ PrepareFor(t) \/ ConfirmSaved(t)
                       \/ Commit(t) \/ Abort(t) \/ Park(t)

Spec == Init /\ [][Next]_state
==============================================================================
