------------------------------- MODULE FilesMC -------------------------------
(***************************************************************************)
(* Three systems that read files others change, each by itself: the note   *)
(* cache beside a move, the link from an Anki card to its heading, and the *)
(* installer of the app that receives these links.                         *)
(***************************************************************************)
EXTENDS NoteCache

CONSTANTS MaxPolls, Headings, Elsewhere, Installers, MaxLinkDisturbances, MaxInstallDisturbances

VARIABLES
    part,       \* the system at work in this behaviour: the others stand still
    click, emacs, queue, reply, moved, disk, buffer, location, held,
    app, installer, meddled, disturbances

linkVars == <<click, emacs, queue, reply, moved, disk, buffer, location, held>>
appVars == <<app, installer, meddled>>

\* A click for each helper, so that one symmetry holds for both.
Link == INSTANCE SourceLink WITH
    Clicks <- Clients, Targets <- Headings, Others <- Elsewhere, MaxDisturbances <- MaxLinkDisturbances
App == INSTANCE UrlHandler WITH MaxDisturbances <- MaxInstallDisturbances

NotesStill == Init /\ db.meta = 0
LinkStill == Link!Init /\ emacs.at = "down" /\ location = Link!Nowhere /\ \A f \in Link!Files : disk[f] = 0
AppStill == App!Init /\ app = App!None

MCInit ==
    \/ part = "notes" /\ Init /\ LinkStill /\ AppStill
    \/ part = "link" /\ NotesStill /\ Link!Init /\ AppStill
    \/ part = "app" /\ NotesStill /\ LinkStill /\ App!Init

NotesStep == part = "notes" /\ Next /\ UNCHANGED <<part, linkVars, appVars, disturbances>>
LinkStep == part = "link" /\ Link!Next /\ UNCHANGED <<part, vars, appVars>>
AppStep == part = "app" /\ App!Next /\ UNCHANGED <<part, vars, linkVars>>
MCNext == NotesStep \/ LinkStep \/ AppStep
MCSpec == MCInit /\ [][MCNext]_<<part, vars, linkVars, appVars, disturbances>>

\* What the receiver of links answers was so while it worked.
AnswersTrue == Link!AnswersTrue
\* The exit codes of imoogi-anki open say what Emacs did.
ExitsTrue == Link!ExitsTrue
\* The installer loses neither a handler nor another app.
NothingLost == App!NothingLost
=============================================================================
