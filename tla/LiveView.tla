------------------------------- MODULE LiveView -------------------------------
(***************************************************************************)
(* What the preview promises of its pages: of each buffer the server holds *)
(* one revision, which only gets newer, and a page shows revisions that    *)
(* the server committed, each at least as new as the one before.  Which    *)
(* requests, threads and queues bring that about is left to PreviewClient. *)
(***************************************************************************)
EXTENDS Naturals

CONSTANTS Buffers, Pages, MaxRevision

VARIABLES
    committed,  \* committed[b]: the revision the server holds of buffer b, 0 for none
    source,     \* source[p]: the buffer page p shows
    shown       \* shown[p]: the revision page p shows, 0 for none

vars == <<committed, source, shown>>

Init ==
    /\ committed = [b \in Buffers |-> 0]
    /\ source \in [Pages -> Buffers]
    /\ shown = [p \in Pages |-> 0]

Commit(b, r) ==
    /\ committed[b] <= r
    /\ committed' = [committed EXCEPT ![b] = r]
    /\ UNCHANGED <<source, shown>>

\* The page shows r; its buffer has at least reached r.
Show(p, r) ==
    /\ shown[p] <= r /\ r <= committed[source[p]]
    /\ shown' = [shown EXCEPT ![p] = r]
    /\ UNCHANGED <<committed, source>>

\* Page p is opened on a buffer.
Open(p, b) ==
    /\ shown[p] = 0
    /\ source' = [source EXCEPT ![p] = b]
    /\ UNCHANGED <<committed, shown>>

\* The server and with it its pages come to an end.
Restart ==
    /\ committed' = [b \in Buffers |-> 0]
    /\ source' \in [Pages -> Buffers]
    /\ shown' = [p \in Pages |-> 0]

Next ==
    \/ \E b \in Buffers, r \in 1 .. MaxRevision : Commit(b, r)
    \/ \E p \in Pages, r \in 1 .. MaxRevision : Show(p, r)
    \/ \E p \in Pages, b \in Buffers : Open(p, b)
    \/ Restart

Spec == Init /\ [][Next]_vars
=============================================================================
