------------------------------ MODULE PreviewMC ------------------------------
(***************************************************************************)
(* Small instances of PreviewClient: one buffer and one page.               *)
(***************************************************************************)
EXTENDS PreviewClient, TLC

CONSTANTS b1, p1

OneBuffer == {b1}
OnePage == {p1}
==============================================================================
