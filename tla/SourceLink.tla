----------------------------- MODULE SourceLink -----------------------------
(***************************************************************************)
(* The link "open the source in Emacs" on an Anki card: one process        *)
(* `imoogi-anki open` per click (src/internal/anki/opener/opener.go) and   *)
(* the receiver it calls in Emacs (src/modules/org/anki/imoogi-open.el),   *)
(* which looks for the heading with the link's identifier in the files of  *)
(* the sync targets.  All clicks are on cards of one heading.              *)
(***************************************************************************)
EXTENDS Integers

CONSTANTS
    Clicks,
    Targets,          \* the files of the sync targets
    Others,           \* files outside of them, which org-id may remember
    MaxPolls,         \* bound: probes within the waiting time for a launched Emacs
    MaxDisturbances   \* bound: changes of files, ends of Emacs, failing commands, kills

Files == Targets \cup Others

\* What a file has: so many headings with the identifier, or no contents.
Gone     == -1
Denied   == -2     \* it, or its directory, cannot be read
NoBuffer == -3
Shapes == {Gone, Denied, 0, 1, 2}
Nowhere  == "nowhere"

VARIABLES
    click,    \* click -> [pc, polls, code, late] of its process
    emacs,    \* [at, call, todo, hits, failed, cached, answer] of Emacs and its receiver
    queue,    \* the clicks whose request waits in Emacs
    reply,    \* click -> what emacsclient printed
    moved,    \* click -> the file point was moved to
    disk, buffer,
    location, \* the file org-id-locations names
    held,     \* file -> what it was found to be since the receiver began
    disturbances

vars == <<click, emacs, queue, reply, moved, disk, buffer, location, held, disturbances>>

Idle(at) == [at |-> at, call |-> Nowhere, todo |-> {}, hits |-> [f \in Files |-> 0], failed |-> {},
             cached |-> {}, answer |-> ""]

Init ==
    /\ click = [c \in Clicks |-> [pc |-> "idle", polls |-> 0, code |-> -1, late |-> FALSE]]
    /\ emacs \in {Idle("down"), Idle("free")}
    /\ queue = {}
    /\ reply = [c \in Clicks |-> ""]
    /\ moved = [c \in Clicks |-> Nowhere]
    /\ disk \in [Files -> {0, 1}]
    /\ buffer = [f \in Files |-> NoBuffer]
    /\ location \in {Nowhere} \cup Files
    /\ held = [f \in Files |-> {}]
    /\ disturbances = 0

Disturb == disturbances < MaxDisturbances /\ disturbances' = disturbances + 1
----------------------------------------------------------------------------
(* The process.  Every command it runs has a time limit of its own. *)

Goes(c, pc) == click' = [click EXCEPT ![c].pc = pc]
Ended(c, code) == click' = [click EXCEPT ![c].pc = "done", ![c].polls = 0, ![c].code = code]

\* ParseURL refuses the link, or there is no emacsclient.
Click(c) ==
    /\ click[c].pc = "idle"
    /\ \/ Goes(c, "probe")
       \/ Ended(c, 2)
       \/ Ended(c, 1)
    /\ UNCHANGED <<emacs, queue, reply, moved, disk, buffer, location, held, disturbances>>

NoServer == emacs.at \in {"down", "starting"}

\* A probe is answered when Emacs is not busy; Emacs may be busy for longer
\* than its limit.
Probe(c) ==
    /\ click[c].pc = "probe"
    /\ \/ emacs.at = "free" /\ Goes(c, "ask")
       \/ NoServer /\ Goes(c, "launch")
       \/ ~NoServer /\ Ended(c, 1)
    /\ UNCHANGED <<emacs, queue, reply, moved, disk, buffer, location, held, disturbances>>

Opened == emacs' = IF emacs.at = "down" THEN Idle("starting") ELSE emacs

\* launchAndWait: open -a starts Emacs unless it runs.  It may fail, with
\* Emacs started or not.
Launch(c) ==
    /\ click[c].pc = "launch"
    /\ \/ Opened /\ Goes(c, "poll") /\ UNCHANGED disturbances
       \/ (Opened \/ UNCHANGED emacs) /\ Disturb /\ Ended(c, 1)
    /\ UNCHANGED <<queue, reply, moved, disk, buffer, location, held>>

\* A probe that fails or times out is repeated until the deadline.
Poll(c) ==
    /\ click[c].pc = "poll"
    /\ \/ emacs.at = "free" /\ Goes(c, "ask")
       \/ click[c].polls < MaxPolls /\ click' = [click EXCEPT ![c].polls = @ + 1]
       \/ Ended(c, 1)
    /\ UNCHANGED <<emacs, queue, reply, moved, disk, buffer, location, held, disturbances>>

\* The receiver's expression goes to the server, if it is still there.
Ask(c) ==
    /\ click[c].pc = "ask"
    /\ IF NoServer THEN Ended(c, 1) /\ UNCHANGED queue
       ELSE Goes(c, "eval") /\ queue' = queue \cup {c}
    /\ UNCHANGED <<emacs, reply, moved, disk, buffer, location, held, disturbances>>

Normal == {"ok", "not-found", "duplicate", "incomplete"}

\* Mutant: the classifier of imoogi-agent.
OnlyOk == {"ok"}

(* classify; agentipc's own classifier would refuse all but "ok". *)
NormalResults == Normal
Classify(c) ==
    /\ click[c].pc = "eval" /\ reply[c] # ""
    /\ IF reply[c] \in NormalResults
       THEN Goes(c, "activate")
       ELSE Ended(c, 1)
    /\ UNCHANGED <<emacs, queue, reply, moved, disk, buffer, location, held, disturbances>>

\* The limit kills emacsclient; the request stays in Emacs, or goes if Emacs
\* has not read it; the error is shown.  An answer at the last moment does not
\* count.
Expire(c) ==
    /\ click[c].pc = "eval"
    /\ click' = [click EXCEPT ![c].pc = "done", ![c].code = 1, ![c].late = TRUE]
    /\ queue' \in {queue, queue \ {c}}
    /\ UNCHANGED <<emacs, reply, moved, disk, buffer, location, held, disturbances>>

\* open -a once more brings Emacs forward; what becomes of it changes nothing.
Activate(c) ==
    /\ click[c].pc = "activate"
    /\ Opened \/ UNCHANGED emacs
    /\ Ended(c, 0)
    /\ UNCHANGED <<queue, reply, moved, disk, buffer, location, held, disturbances>>

\* The process is killed: the app that started it shows the error itself.
Kill(c) ==
    /\ click[c].pc \notin {"idle", "done"}
    /\ Disturb
    /\ Ended(c, 137)
    /\ UNCHANGED <<emacs, queue, reply, moved, disk, buffer, location, held>>
----------------------------------------------------------------------------
(* The receiver: imoogi-anki-open-id. *)

Seen(f) == [disk |-> disk[f], buffer |-> buffer[f]]
View(seen) == IF seen.buffer # NoBuffer THEN seen.buffer ELSE seen.disk

\* --target-files and --cached-file: the files there are now.
Receive(c) ==
    /\ emacs.at = "free" /\ c \in queue
    /\ queue' = queue \ {c}
    /\ LET cached == {location} \ {Nowhere} IN
       emacs' = [Idle("scan") EXCEPT !.call = c, !.cached = cached,
                                     !.todo = {f \in Targets \cup cached : disk[f] # Gone}]
    /\ held' = [f \in Files |-> {Seen(f)}]
    /\ UNCHANGED <<click, reply, moved, disk, buffer, location, disturbances>>

\* --scan-file: the buffer that visits the file, or else the file.
Scan(f) ==
    /\ emacs.at = "scan" /\ f \in emacs.todo
    /\ LET v == View(Seen(f)) IN
       emacs' = [emacs EXCEPT !.todo = @ \ {f},
                              !.hits[f] = IF v > 0 THEN v ELSE 0,
                              !.failed = IF v = Denied THEN @ \cup {f} ELSE @]
    /\ UNCHANGED <<click, queue, reply, moved, disk, buffer, location, held, disturbances>>

Hits == {f \in Files : emacs.hits[f] > 0}
Several == \E f, g \in Hits : f # g \/ emacs.hits[f] > 1

\* Two headings or more, or a target that could not be read: nothing is moved.
Decide ==
    /\ emacs.at = "scan" /\ emacs.todo = {}
    /\ emacs' =
         CASE Several -> [emacs EXCEPT !.at = "answer", !.answer = "duplicate"]
           [] ~Several /\ emacs.failed # {} -> [emacs EXCEPT !.at = "answer", !.answer = "incomplete"]
           [] ~Several /\ emacs.failed = {} /\ Hits # {} -> [emacs EXCEPT !.at = "goto"]
           [] ~Several /\ emacs.failed = {} /\ Hits = {} -> [emacs EXCEPT !.at = "answer", !.answer = "not-found"]
    /\ UNCHANGED <<click, queue, reply, moved, disk, buffer, location, held, disturbances>>

\* Mutant: the heading is taken to be where the scan found it.
GotoUnchecked(f) ==
    /\ emacs.at = "goto" /\ f \in Hits
    /\ buffer' = [buffer EXCEPT ![f] = View(Seen(f))]
    /\ moved' = [moved EXCEPT ![emacs.call] = f]
    /\ location' = f
    /\ emacs' = [emacs EXCEPT !.at = "answer", !.answer = "ok"]
    /\ UNCHANGED <<click, queue, reply, disk, held, disturbances>>

\* --goto looks at the file again and visits it; --register records where the
\* heading is.
Goto(f) ==
    /\ emacs.at = "goto" /\ f \in Hits
    /\ IF View(Seen(f)) > 0
       THEN /\ buffer' = [buffer EXCEPT ![f] = View(Seen(f))]
            /\ moved' = [moved EXCEPT ![emacs.call] = f]
            /\ location' = f
            /\ emacs' = [emacs EXCEPT !.at = "answer", !.answer = "ok"]
       ELSE /\ emacs' = [emacs EXCEPT !.at = "answer", !.answer = "not-found"]
            /\ UNCHANGED <<buffer, moved, location>>
    /\ UNCHANGED <<click, queue, reply, disk, held, disturbances>>

\* The frame is raised and the outcome printed, or an error ends the call.
Respond ==
    /\ \/ emacs.at = "answer" /\ reply' = [reply EXCEPT ![emacs.call] = emacs.answer] /\ UNCHANGED disturbances
       \/ emacs.at \in {"scan", "goto", "answer"} /\ Disturb /\ reply' = [reply EXCEPT ![emacs.call] = "error"]
    /\ emacs' = Idle("free")
    /\ held' = [f \in Files |-> {}]
    /\ UNCHANGED <<click, queue, moved, disk, buffer, location>>
----------------------------------------------------------------------------
(* The world. *)

\* The server is there once the init files are loaded.
Ready ==
    /\ emacs.at = "starting"
    /\ emacs' = Idle("free")
    /\ UNCHANGED <<click, queue, reply, moved, disk, buffer, location, held, disturbances>>

\* Emacs ends, and what waits for it learns of it.
Quit ==
    /\ emacs.at # "down" /\ Disturb
    /\ emacs' = Idle("down")
    /\ reply' = [c \in Clicks |-> IF c \in queue \cup {emacs.call} THEN "gone" ELSE reply[c]]
    /\ queue' = {}
    /\ buffer' = [f \in Files |-> NoBuffer]
    /\ held' = [f \in Files |-> {}]
    /\ UNCHANGED <<click, moved, disk, location>>

Noticed == held' = IF emacs.at \in {"scan", "goto", "answer"}
                   THEN [f \in Files |-> held[f] \cup {Seen(f)'}] ELSE held

\* Another program writes, removes or locks a file at any time.
Change(f, v) ==
    /\ Disturb /\ disk[f] # v
    /\ disk' = [disk EXCEPT ![f] = v]
    /\ UNCHANGED <<click, emacs, queue, reply, moved, buffer, location>>
    /\ Noticed

\* The user visits a file, edits it without saving or kills its buffer, when
\* Emacs is not busy.
Edit(f, v) ==
    /\ emacs.at = "free" /\ Disturb /\ buffer[f] # v
    /\ buffer[f] = NoBuffer => disk[f] >= 0
    /\ buffer' = [buffer EXCEPT ![f] = v]
    /\ UNCHANGED <<click, emacs, queue, reply, moved, disk, location, held>>

Process(c) == Probe(c) \/ Launch(c) \/ Poll(c) \/ Ask(c) \/ Classify(c) \/ Expire(c) \/ Activate(c)
Receiver == (\E c \in Clicks : Receive(c)) \/ (\E f \in Files : Scan(f) \/ Goto(f)) \/ Decide \/ Respond
World == \/ Ready \/ Quit
         \/ \E f \in Files, v \in Shapes : Change(f, v)
         \/ \E f \in Files, v \in {NoBuffer, 0, 1, 2} : Edit(f, v)
Next == (\E c \in Clicks : Click(c) \/ Process(c) \/ Kill(c)) \/ Receiver \/ World

Spec == Init /\ [][Next]_vars
----------------------------------------------------------------------------
Lacks(seen) == seen.disk = Gone \/ View(seen) = 0
Searched == Targets \cup emacs.cached

\* What the receiver answers was so while it worked: point is on a heading with
\* the identifier, and every other file it had to search was at some moment
\* without one; nothing is called missing that could be seen all the time; two
\* headings were there, or a file could not be read.  (A file that becomes
\* unreadable between the scan and the visit is reported as not found.)
AnswersTrue ==
    emacs.at = "answer" =>
        CASE emacs.answer = "ok" ->
               LET f == moved[emacs.call]
               IN  /\ buffer[f] > 0
                   /\ \A g \in Searched \ {f} : \E seen \in held[g] : Lacks(seen)
          [] emacs.answer = "not-found" ->
               \A g \in Searched : \E seen \in held[g] : Lacks(seen) \/ View(seen) = Denied
          [] emacs.answer = "duplicate" ->
               \/ \E f \in Searched : \E seen \in held[f] : View(seen) > 1
               \/ \E f, g \in Searched : /\ f # g
                                         /\ \E seen \in held[f] : View(seen) > 0
                                         /\ \E seen \in held[g] : View(seen) > 0
          [] emacs.answer = "incomplete" ->
               \E f \in Searched : \E seen \in held[f] : View(seen) = Denied

\* Exit code 0 says that the receiver put its outcome before the user, and 1
\* that it did not, unless the time was up (opener.go:29-30); a rejected link
\* never reaches Emacs.
ExitsTrue ==
    \A c \in Clicks : click[c].pc = "done" =>
        /\ click[c].code = 0 => reply[c] \in Normal /\ (reply[c] = "ok" => moved[c] # Nowhere)
        /\ click[c].code = 1 /\ ~click[c].late => reply[c] \notin Normal
        /\ click[c].code = 2 => reply[c] = "" /\ c \notin queue \cup {emacs.call}
=============================================================================
