\* Two helpers and a move of the same directory; two clicks on a card's link; two
\* installers.
SPECIFICATION MCSpec
CONSTANTS
    N = 2
    Contents = {1, 2}
    Clients = {c1, c2}
    Overlays = {0, 2}
    c1 = c1
    c2 = c2
    MaxEdits = 1
    MaxDisturbances = 2
    Headings = {"target"}
    Elsewhere = {"other"}
    MaxPolls = 1
    MaxLinkDisturbances = 1
    Installers = {"i1", "i2"}
    MaxInstallDisturbances = 3
SYMMETRY Alike
INVARIANT KeptUnlessLate
INVARIANT OutcomeTrue
INVARIANT CacheSound
INVARIANT AnswersFresh
INVARIANT AnswersTrue
INVARIANT ExitsTrue
PROPERTY NothingLost
CHECK_DEADLOCK FALSE
