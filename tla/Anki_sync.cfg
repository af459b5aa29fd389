\* One heading at first, three commands of the user and one fault.
CONSTANTS
    MaxNotes = 10
    Texts = {"t1", "t2", "bad"}
    Invalid = {"bad"}
    Decks = {"d1", "d2"}
    Faults = {"failed", "lost"}
    MaxNames = 2
    MaxHeadings = 2
    MaxEdits = 3
    MaxFaults = 1
    Edits = {"edit", "insert", "copy", "remove", "archive", "lose", "migrate", "note", "drop"}
    Careless = FALSE
SPECIFICATION Spec
INVARIANT Mirror
INVARIANT OrphansCollected
INVARIANT NoDuplicates
INVARIANT HeadingNamesItsNote
PROPERTY Idempotent
PROPERTY DeletesOnlyOrphans
PROPERTY Converges
