----------------------------- MODULE ClipEmacsMC -----------------------------
(***************************************************************************)
(* Small instances of ClipEmacs.  One buffer with two pastes, so that one  *)
(* save prepares and acknowledges a batch; two buffers whose documents     *)
(* share one asset directory, so that one document's paste may reuse the   *)
(* other's file; one paste of two contents, so that every loop over assets *)
(* can stop half way.                                                      *)
(***************************************************************************)
EXTENDS ClipEmacs, TLC

CONSTANTS t1, t2, b1, b2, r1, c1, c2

OneTx == {t1}
TwoTxs == {t1, t2}
OneBuffer == {b1}
TwoBuffers == {b1, b2}
OneRoot == {r1}
OneContent == {c1}
TwoContents == {c1, c2}

OneHome == t1 :> b1
SameHome == t1 :> b1 @@ t2 :> b1
OwnHomes == t1 :> b1 @@ t2 :> b2
OneBufferRoot == b1 :> r1
SharedRoot == b1 :> r1 @@ b2 :> r1

OnePayload == t1 :> {c1, c2}
OwnPayloads == t1 :> {c1} @@ t2 :> {c2}
CommonPayloads == t1 :> {c1, c2} @@ t2 :> {c1}
SamePayloads == t1 :> {c1} @@ t2 :> {c1}

NoFiles == {}
UserFile == {<<r1, c2>>}
==============================================================================
