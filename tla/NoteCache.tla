------------------------------ MODULE NoteCache ------------------------------
(***************************************************************************)
(* `imoogi-notes` with a cache operation, beside moves of the directory it *)
(* scans: helpers of several Emacs processes share one SQLite file per     *)
(* scope.  A helper reads the recorded parser version, scans the notes,    *)
(* takes a row from the cache when path and hash agree, parses the others, *)
(* and saves what it parsed in one transaction.  Reads are not in a        *)
(* transaction: a row and its links are read one after the other.          *)
(***************************************************************************)
EXTENDS NoteMove, TLC

CONSTANTS
    Clients,
    Overlays   \* texts of the modified buffer, Absent when it is not modified

ASSUME OverlaysAssumption == Overlays \subseteq Nat

VARIABLES
    db,    \* parser version and rows of the cache of the source directory
    req    \* client -> its request

cacheVars == <<db, req>>
vars == <<moveVars, cacheVars>>

Current == 2                     \* ParserVersion; the file may be of version 1
Parse(v, c) == <<v, c>>          \* what parser v makes of contents c
Nothing == <<0, 0>>
NoRow == [doc |-> Nothing, parts |-> Nothing]
RowOf(p) == [doc |-> p, parts |-> p]
NoRequest == [pc |-> "idle"]

Init ==
    /\ MoveInit
    /\ db \in {[meta |-> 0, rows |-> [f \in Files |-> NoRow]],
               [meta |-> 1, rows |-> [f \in Files |-> RowOf(Parse(1, 1))]]}
    /\ req = [c \in Clients |-> NoRequest]

ReqAt(c, pc) == req[c].pc = pc
Goes(c, r) == req' = [req EXCEPT ![c] = r]
Ends(c) == Goes(c, NoRequest)

Present == IF "source" \in dirs THEN {f \in Files : tree["source"][f] # Absent} ELSE {}

\* normalizeScope, openStore, parserVersionMatches, and the names WalkDir reads
\* first (a root that goes away in between only makes the scan fail).  The
\* buffer of the first note may be modified: its text goes along as an overlay.
Request(c, text) ==
    /\ ReqAt(c, "idle")
    /\ Present # {}
    /\ req' = [req EXCEPT ![c] = [pc |-> "scan", matches |-> db.meta = Current,
                                  overlay |-> [NoFiles EXCEPT ![1] = text],
                                  todo |-> Present, scan |-> NoFiles,
                                  answer |-> [f \in Files |-> NoRow],
                                  changed |-> {}, invalidated |-> {}, raced |-> FALSE]]
    /\ UNCHANGED <<moveVars, db>>

First(S) == CHOOSE f \in S : \A g \in S : f <= g

\* A note that went away since then makes the scan incomplete: the helper will
\* answer with an error and leave the cache alone.
ScanRead(c) ==
    /\ ReqAt(c, "scan")
    /\ LET r == req[c]
           f == First(r.todo)
           scan == [r.scan EXCEPT ![f] = tree["source"][f]]
       IN IF f \notin Present THEN Ends(c)
          ELSE IF r.todo = {f}
          THEN Goes(c, [r EXCEPT !.scan = scan, !.pc = "rows", !.todo = {g \in Files : scan[g] # Absent}])
          ELSE Goes(c, [r EXCEPT !.scan = scan, !.todo = r.todo \ {f}])
    /\ UNCHANGED <<moveVars, db>>

Scanned(c) == {f \in Files : req[c].scan[f] # Absent}

Text(c, f) == IF req[c].overlay[f] # Absent THEN req[c].overlay[f] ELSE req[c].scan[f]
Overlaid(c, f) == req[c].overlay[f] # Absent
\* Mutant: the hash of the row is not compared.
HitByPath(c, f) == /\ ~Overlaid(c, f)
                   /\ req[c].matches
                   /\ db.rows[f] # NoRow

Hit(c, f) == /\ ~Overlaid(c, f)
             /\ req[c].matches
             /\ db.rows[f] # NoRow
             /\ db.rows[f].doc[2] = req[c].scan[f]

\* The row of `files` for the next note; a miss or an overlay is parsed.
LoadRow(c) ==
    /\ ReqAt(c, "rows")
    /\ req[c].todo # {}
    /\ LET r == req[c]
           f == First(r.todo)
           parsed == RowOf(Parse(Current, Text(c, f)))
       IN IF Hit(c, f)
          THEN Goes(c, [r EXCEPT !.pc = "parts", !.answer = [r.answer EXCEPT ![f].doc = db.rows[f].doc]])
          ELSE Goes(c, [r EXCEPT !.todo = r.todo \ {f},
                                 !.answer = [r.answer EXCEPT ![f] = parsed],
                                 !.changed = IF Overlaid(c, f) THEN r.changed ELSE r.changed \cup {f},
                                 !.invalidated = IF Overlaid(c, f) /\ ~r.matches
                                                 THEN r.invalidated \cup {f} ELSE r.invalidated])
    /\ UNCHANGED <<moveVars, db>>

\* Its `ids` and `links`, in queries of their own.
LoadParts(c) ==
    /\ ReqAt(c, "parts")
    /\ LET r == req[c]
           f == First(r.todo)
       IN Goes(c, [r EXCEPT !.pc = "rows", !.todo = r.todo \ {f},
                            !.answer = [r.answer EXCEPT ![f].parts = db.rows[f].parts]])
    /\ UNCHANGED <<moveVars, db>>

\* Another helper's save meets this one between its reads.
Raced(c, d) == d # c /\ req[d].pc \in {"rows", "parts"}

\* Mutant: rows of an older parser stay behind an overlay.
SavedRowsKeeping(c) ==
    [f \in Files |-> IF f \in req[c].changed THEN req[c].answer[f]
                     ELSE IF f \notin Scanned(c) THEN NoRow ELSE db.rows[f]]

SavedRows(c) ==
    [f \in Files |-> IF f \in req[c].changed THEN req[c].answer[f]
                     ELSE IF f \notin Scanned(c) \/ f \in req[c].invalidated THEN NoRow ELSE db.rows[f]]

Changes(c) == \/ db.meta # Current
              \/ req[c].invalidated # {}
              \/ req[c].changed # {}
              \/ \E f \in Files \ Scanned(c) : db.rows[f] # NoRow

\* store.save, one transaction, then the answer.
Save(c) ==
    /\ ReqAt(c, "rows")
    /\ req[c].todo = {}
    /\ db' = IF Changes(c) THEN [meta |-> Current, rows |-> SavedRows(c)] ELSE db
    /\ req' = [d \in Clients |-> IF d = c THEN NoRequest
                                 ELSE IF Raced(c, d) THEN [req[d] EXCEPT !.raced = TRUE]
                                 ELSE req[d]]
    /\ UNCHANGED moveVars

\* The pending process is killed by a new request or a cancel, or its save
\* finds the file locked for too long: nothing is committed.
Killed(c) ==
    /\ Fault
    /\ ~ReqAt(c, "idle")
    /\ Ends(c)
    /\ UNCHANGED <<dirs, tree, move, last, late, edits, db>>

CacheNext == \E c \in Clients :
    \/ \E text \in Overlays : Request(c, text)
    \/ ScanRead(c) \/ LoadRow(c) \/ LoadParts(c) \/ Save(c) \/ Killed(c)

Next == \/ MoveNext /\ UNCHANGED cacheVars
        \/ CacheNext

Spec == Init /\ [][Next]_vars

Alike == Permutations(Clients)

-----------------------------------------------------------------------------
(* Properties *)

\* Once the file carries the current parser version, every row in it is what
\* the current parser makes of the hashed contents, row and links alike: an
\* older row may not survive behind an overlay, a file that went away or a
\* second helper (save, invalidatedRows).
CacheSound ==
    db.meta = Current =>
        \A f \in Files : db.rows[f] # NoRow => /\ db.rows[f].doc[1] = Current
                                               /\ db.rows[f].parts = db.rows[f].doc

\* An answer describes the text read in this very request, overlay included;
\* only the links may be of other contents, and only when another helper saved
\* while this one was loading.
Answered(c) == IF req[c].pc = "rows" THEN Scanned(c) \ req[c].todo ELSE {}
AnswersFresh ==
    \A c \in Clients : \A f \in Answered(c) :
        /\ req[c].answer[f].doc = Parse(Current, Text(c, f))
        /\ req[c].answer[f].parts = req[c].answer[f].doc \/ req[c].raced
=============================================================================
