---------------------------- MODULE ClipHelperMC ----------------------------
(***************************************************************************)
(* A small instance of ClipHelper with any client: one transaction of two  *)
(* contents, one of them already a file of the user, so that every loop    *)
(* over files can stop half way and a published content may be reused.     *)
(***************************************************************************)
EXTENDS ClipHelper, TLC

CONSTANTS t1, b1, r1, c1, c2

OneTx == {t1}
OneBuffer == {b1}
OneRoot == {r1}
TwoContents == {c1, c2}

OneHome == t1 :> b1
BufferRoot == b1 :> r1

BothContents == t1 :> {c1, c2}

UserFile == {<<r1, c2>>}
==============================================================================
