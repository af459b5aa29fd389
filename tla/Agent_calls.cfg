\* Two calls beside one Emacs, one of them with every command line; two disturbances.
SPECIFICATION Spec
CONSTANTS
    c1 = c1
    c2 = c2
    Calls <- TwoCalls
    Lines <- OneOfAll
    MaxDisturbances = 2
INVARIANT ExitCodesTrue
INVARIANT WireAgrees
PROPERTY NeverLate
PROPERTY Ends
CHECK_DEADLOCK FALSE
