----------------------------- MODULE UrlHandler -----------------------------
(***************************************************************************)
(* `imoogi-anki install-url-handler` (src/internal/anki/opener/install.go):*)
(* the app that receives the links is built in a staging directory beside  *)
(* its place and moved there with two renames, the second undone when it   *)
(* fails.  Several may run at once, and each may be killed.                *)
(***************************************************************************)
EXTENDS Naturals

CONSTANTS
    Installers,
    MaxDisturbances   \* bound: failures, kills, and apps the user puts or removes

None    == "none"
Foreign == "foreign"       \* an app that Install did not make
First   == "first"         \* a handler an earlier Install made
Handlers == Installers \cup {First}      \* a handler is named for who built it

VARIABLES
    app,        \* what is at ImoogiAnki.app
    installer,  \* i -> [pc, replacing, previous, built] with what its staging directory has
    meddled,    \* the user changed what is there while an installer was at work
    disturbances

vars == <<app, installer, meddled, disturbances>>

Init ==
    /\ app \in {None, Foreign, First}
    /\ installer = [i \in Installers |-> [pc |-> "idle", replacing |-> FALSE, previous |-> None, built |-> FALSE]]
    /\ meddled = FALSE
    /\ disturbances = 0

Disturb == disturbances < MaxDisturbances /\ disturbances' = disturbances + 1
Becomes(i, r) == installer' = [installer EXCEPT ![i] = r]
Goes(i, pc) == Becomes(i, [installer[i] EXCEPT !.pc = pc])

\* Stat: is there an app?
Look(i) ==
    /\ installer[i].pc = "idle"
    /\ Goes(i, IF app = None THEN "build" ELSE "read")
    /\ UNCHANGED <<app, meddled, disturbances>>

\* Its Info.plist: one that cannot be read or is not ours is left alone.
Read(i) ==
    /\ installer[i].pc = "read"
    /\ Becomes(i, [installer[i] EXCEPT !.pc = IF app \in Handlers THEN "build" ELSE "failed",
                                       !.replacing = app \in Handlers])
    /\ UNCHANGED <<app, meddled, disturbances>>

\* buildApp: compiled, signed, verified.
Build(i) ==
    /\ installer[i].pc = "build"
    /\ \/ /\ Becomes(i, [installer[i] EXCEPT !.built = TRUE,
                                             !.pc = IF installer[i].replacing THEN "aside" ELSE "place"])
          /\ UNCHANGED disturbances
       \/ Goes(i, "cleanup") /\ Disturb
    /\ UNCHANGED <<app, meddled>>

\* The first rename: whatever is there now.
SetAside(i) ==
    /\ installer[i].pc = "aside"
    /\ \/ /\ app # None
          /\ Becomes(i, [installer[i] EXCEPT !.pc = "place", !.previous = app])
          /\ app' = None
          /\ UNCHANGED disturbances
       \/ /\ app = None \/ disturbances < MaxDisturbances
          /\ IF app = None THEN UNCHANGED disturbances ELSE Disturb
          /\ Goes(i, "cleanup")
          /\ UNCHANGED app
    /\ UNCHANGED meddled

\* The second rename; it fails when another app has come in between.
Place(i) ==
    /\ installer[i].pc = "place"
    /\ \/ /\ app = None
          /\ app' = i
          /\ Becomes(i, [installer[i] EXCEPT !.pc = "cleanup", !.built = FALSE])
          /\ UNCHANGED disturbances
       \/ /\ IF app # None THEN UNCHANGED disturbances ELSE Disturb
          /\ Goes(i, IF installer[i].replacing THEN "restore" ELSE "cleanup")
          /\ UNCHANGED app
    /\ UNCHANGED meddled

\* Mutant: the staging directory is removed whatever became of the old app.
RestoreOrNot(i) ==
    /\ installer[i].pc = "restore"
    /\ \/ /\ app = None
          /\ app' = installer[i].previous
          /\ Becomes(i, [installer[i] EXCEPT !.pc = "cleanup", !.previous = None])
          /\ UNCHANGED disturbances
       \/ /\ IF app # None THEN UNCHANGED disturbances ELSE Disturb
          /\ Goes(i, "cleanup")
          /\ UNCHANGED app
    /\ UNCHANGED meddled

\* The old app is put back, or else kept in the staging directory.
Restore(i) ==
    /\ installer[i].pc = "restore"
    /\ \/ /\ app = None
          /\ app' = installer[i].previous
          /\ Becomes(i, [installer[i] EXCEPT !.pc = "cleanup", !.previous = None])
          /\ UNCHANGED disturbances
       \/ /\ IF app # None THEN UNCHANGED disturbances ELSE Disturb
          /\ Goes(i, "kept")
          /\ UNCHANGED app
    /\ UNCHANGED meddled

\* The deferred removal of the staging directory.
Cleanup(i) ==
    /\ installer[i].pc = "cleanup"
    /\ Becomes(i, [installer[i] EXCEPT !.pc = "done", !.previous = None, !.built = FALSE])
    /\ UNCHANGED <<app, meddled, disturbances>>

Kill(i) ==
    /\ installer[i].pc \in {"build", "aside", "place", "restore", "cleanup"}
    /\ Disturb
    /\ Goes(i, "killed")
    /\ UNCHANGED <<app, meddled>>

\* Who ran it runs it again.
Again(i) ==
    /\ installer[i].pc \in {"done", "failed"} /\ installer[i].previous = None
    /\ Disturb
    /\ Becomes(i, [installer[i] EXCEPT !.pc = "idle", !.replacing = FALSE])
    /\ UNCHANGED <<app, meddled>>

AtWork(i) == installer[i].pc \notin {"idle", "done", "failed", "killed", "kept"}

\* The user replaces or removes the app by hand.
Move(a) ==
    /\ a \in {None, Foreign} /\ app # a /\ Disturb
    /\ app' = a
    /\ meddled' = (meddled \/ \E i \in Installers : AtWork(i))
    /\ UNCHANGED installer

Step(i) == Look(i) \/ Read(i) \/ Build(i) \/ SetAside(i) \/ Place(i) \/ Restore(i) \/ Cleanup(i)
Installing == \E i \in Installers : Step(i)
Next == Installing \/ (\E i \in Installers : Kill(i) \/ Again(i)) \/ (\E a \in {None, Foreign} : Move(a))
Spec == Init /\ [][Next]_vars
----------------------------------------------------------------------------
Apps == {app} \cup {installer[i].previous : i \in Installers}

\* Install leaves alone what it did not make, and gives up a handler of its own
\* only for another (install.go:140-145): through failures, kills, restores and
\* other installs at the same time there remains one, at its place or in a
\* staging directory.  The exception is a user who changes the app while it is
\* being replaced.
NothingLost ==
    [][Installing =>
          \/ meddled
          \/ /\ Foreign \in Apps => Foreign \in Apps'
             /\ Apps \cap Handlers # {} => Apps' \cap Handlers # {}]_vars
=============================================================================
