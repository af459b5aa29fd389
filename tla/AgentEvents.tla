---------------------------- MODULE AgentEvents ----------------------------
(***************************************************************************)
(* imoogi-agent (src/internal/agentipc, src/cmd/imoogi-agent) and the      *)
(* receiver in Emacs (src/modules/development/30-agent.el).  One process   *)
(* per call turns its arguments into an event, writes the event to a file  *)
(* of its own, and has emacsclient ask the Emacs server to read that file. *)
(* The request names the file, not the event: what Emacs finds depends on  *)
(* when it comes to it.                                                    *)
(*                                                                         *)
(* Words of a command line stand for classes of strings: "empty", "big"    *)
(* (an event with it is over 1 MiB), "rel", "abs" and "remote" paths,      *)
(* "one", "zero" and "huge" numbers, options and subcommands by name.      *)
(***************************************************************************)
EXTENDS Integers, Sequences, SequencesExt

CONSTANTS
    Calls,              \* processes of imoogi-agent, one call each
    Lines,              \* for each call, the command lines it may be started with
    MaxDisturbances     \* kills, failing files and ends of Emacs, together

ASSUME DisturbancesAssumption == MaxDisturbances \in Nat
ASSUME CallsAssumption == "nothing" \notin Calls
ASSUME LinesAssumption == \A c \in Calls : Lines[c] \subseteq Seq(STRING \ {"nothing"})

VARIABLES
    call,           \* pc, event and, at the end, code of every process
    file,           \* what is in the event file of every call
    queue,          \* requests the Emacs server has not begun to evaluate
    emacs,          \* the server: at, and the request and event it works on
    reply,          \* what emacsclient got from the server for every call
    shown,          \* calls whose event Emacs has carried out
    disturbances

vars == <<call, file, queue, emacs, reply, shown, disturbances>>

Nothing == "nothing"

\* An event; Nothing is a field that is left out.
NoEvent ==
    [type |-> Nothing, project |-> Nothing, session |-> Nothing, text |-> Nothing, path |-> Nothing,
     line |-> Nothing, column |-> Nothing, artifactType |-> Nothing, title |-> Nothing,
     status |-> Nothing, summary |-> Nothing]
NoCode == -1
----------------------------------------------------------------------------
(* The command line. *)

Subcommands == {"message", "open-file", "goto", "artifact", "finish"}
Common == {"--project", "--session", "--timeout"}
Allowed(sub) ==
    CASE sub = "artifact" -> {"--type", "--title"}
      [] sub = "finish" -> {"--artifact"}
      [] OTHER -> {}
Options == Common \cup UNION {Allowed(sub) : sub \in Subcommands}
Dashed == Options \cup {"--frob"}

(* parseArgs: each option takes the next word, literally and once; after "--"
   every word is positional. *)
Scan0 == [words |-> <<>>, options |-> [o \in Options |-> Nothing], wants |-> Nothing,
          literal |-> FALSE, failed |-> FALSE]
ScanWord(s, w) ==
    IF s.failed THEN s
    ELSE IF s.wants # Nothing THEN [s EXCEPT !.options[s.wants] = w, !.wants = Nothing]
    ELSE IF s.literal THEN [s EXCEPT !.words = Append(@, w)]
    ELSE IF w = "--" THEN [s EXCEPT !.literal = TRUE]
    ELSE IF w \notin Dashed THEN [s EXCEPT !.words = Append(@, w)]
    ELSE IF w \notin Options THEN [s EXCEPT !.failed = TRUE]
    ELSE IF s.options[w] # Nothing THEN [s EXCEPT !.failed = TRUE]
    ELSE [s EXCEPT !.wants = w]
ParseArgs(line) == FoldLeft(ScanWord, Scan0, line)

(* What becomes of a line that is refused: a usage error, or the working
   directory a relative path needs is gone. *)
Refusal(why) == [NoEvent EXCEPT !.type = why]
Usage == Refusal("usage")
NoDirectory == Refusal("environment")
Failed(event) == event.type \in {"usage", "environment"}

\* Mutant: zero is let through.
PositiveIntOrZero(w) == w \in {"one", "zero"}
\* positiveInt
PositiveInt(w) == w = "one"

\* The event with the absolute form of the path w.
WithPath(event, w, cwd) ==
    IF w = "empty" THEN Usage
    ELSE IF w \in {"abs", "remote"} THEN [event EXCEPT !.path = w]
    ELSE IF cwd THEN [event EXCEPT !.path = "abs"]
    ELSE NoDirectory

(* The payloads. *)
MessageEvent(words) ==
    IF Len(words) # 1 \/ words[1] = "empty" THEN Usage
    ELSE [NoEvent EXCEPT !.type = "message", !.text = words[1]]
OpenEvent(words, cwd) ==
    IF Len(words) # 1 THEN Usage ELSE WithPath([NoEvent EXCEPT !.type = "open-file"], words[1], cwd)
GotoEvent(words, cwd) ==
    IF Len(words) \notin 2..3 \/ \E i \in 2..Len(words) : ~PositiveInt(words[i]) THEN Usage
    ELSE WithPath([NoEvent EXCEPT !.type = "goto-location", !.line = words[2],
                                  !.column = IF Len(words) = 3 THEN words[3] ELSE Nothing], words[1], cwd)
ArtifactEvent(words, options, cwd) ==
    IF Len(words) # 1 THEN Usage
    ELSE WithPath([NoEvent EXCEPT !.type = "artifact-created", !.artifactType = options["--type"],
                                  !.title = options["--title"]], words[1], cwd)
FinishEvent(words, options, cwd) ==
    LET event == [NoEvent EXCEPT !.type = "task-finished", !.status = words[1],
                                 !.summary = IF Len(words) = 2 THEN words[2] ELSE Nothing]
    IN  IF Len(words) \notin 1..2 \/ words[1] \notin {"success", "failed"} THEN Usage
        ELSE IF options["--artifact"] = Nothing THEN event
        ELSE WithPath(event, options["--artifact"], cwd)

Payload(sub, words, options, cwd) ==
    CASE sub = "message" -> MessageEvent(words)
      [] sub = "open-file" -> OpenEvent(words, cwd)
      [] sub = "goto" -> GotoEvent(words, cwd)
      [] sub = "artifact" -> ArtifactEvent(words, options, cwd)
      [] sub = "finish" -> FinishEvent(words, options, cwd)

(* resolveTimeout: the option hides the environment variable. *)
TimeoutOK(option, variable) ==
    IF option # Nothing THEN PositiveInt(option) ELSE variable = "empty" \/ PositiveInt(variable)

(* encodeEvent refuses what the receiver would find too large. *)
TooLarge(event) == "big" \in Range(event)

(* parseRequest *)
ParseRequest(line, cwd, variable) ==
    LET scanned == ParseArgs(line)
        options == scanned.options
        sub == Head(scanned.words)
        payload == Payload(sub, Tail(scanned.words), options, cwd)
        event == [payload EXCEPT !.project = options["--project"], !.session = options["--session"]]
    IN  IF scanned.failed \/ scanned.wants # Nothing \/ scanned.words = <<>> THEN Usage
        ELSE IF sub \notin Subcommands THEN Usage
        ELSE IF \E o \in Options \ (Common \cup Allowed(sub)) : options[o] # Nothing THEN Usage
        ELSE IF Failed(payload) THEN payload
        ELSE IF ~TimeoutOK(options["--timeout"], variable) \/ TooLarge(event) THEN Usage
        ELSE event
----------------------------------------------------------------------------
(* The receiver's own checks, in its order. *)

Types == {"message", "open-file", "goto-location", "artifact-created", "task-finished"}
Kind(value, kind) ==
    CASE kind = "string" -> value # Nothing
      [] kind = "text" -> value \notin {Nothing, "empty"}
      [] kind = "positive" -> value = "one"
Optional(value, kind) == value = Nothing \/ Kind(value, kind)

(* imoogi-agent--validate-payload *)
FieldsOK(e) ==
    /\ Optional(e.project, "string") /\ Optional(e.session, "string")
    /\ CASE e.type = "message" -> Kind(e.text, "text")
         [] e.type = "open-file" -> Kind(e.path, "string")
         [] e.type = "goto-location" ->
              Kind(e.path, "string") /\ Kind(e.line, "positive") /\ Optional(e.column, "positive")
         [] e.type = "artifact-created" ->
              Kind(e.path, "string") /\ Optional(e.artifactType, "string") /\ Optional(e.title, "string")
         [] e.type = "task-finished" ->
              /\ Kind(e.status, "string") /\ e.status \in {"success", "failed"}
              /\ Optional(e.summary, "string") /\ Optional(e.path, "string")

(* imoogi-agent--resolve-path: what a local path leads to is found on the disk. *)
PathVerdicts(e) ==
    CASE e.path = Nothing -> {"ok"}
      [] e.path = "abs" -> {"ok", "bad-path", "payload-too-large"}
      [] OTHER -> {"bad-path"}

(* imoogi-agent--validate *)
Verdicts(e) ==
    IF TooLarge(e) THEN {"too-large"}
    ELSE IF e.type \notin Types THEN {"unknown-type"}
    ELSE IF ~FieldsOK(e) THEN {"bad-field"}
    ELSE PathVerdicts(e)
----------------------------------------------------------------------------
(* One process of imoogi-agent. *)

Init ==
    /\ call = [c \in Calls |-> [pc |-> "idle", event |-> NoEvent, code |-> NoCode]]
    /\ file = [c \in Calls |-> NoEvent]
    /\ queue = <<>>
    /\ emacs \in {[at |-> at, loaded |-> loaded, call |-> Nothing, event |-> NoEvent] :
                    at \in {"free", "down"}, loaded \in BOOLEAN}
    /\ reply = [c \in Calls |-> Nothing]
    /\ shown = {}
    /\ disturbances = 0

Disturb == disturbances < MaxDisturbances /\ disturbances' = disturbances + 1

Ended(c, code) == call' = [call EXCEPT ![c].pc = "ended", ![c].code = code]

\* A line that is refused ends the call with 2, a missing directory with 1.
Requests ==
    [c \in Calls |-> {ParseRequest(line, cwd, variable) :
                        line \in Lines[c], cwd \in BOOLEAN, variable \in {"empty", "zero"}}]
Start(c) ==
    /\ call[c].pc = "idle"
    /\ \E r \in Requests[c] :
          call' = [call EXCEPT ![c] =
              IF Failed(r)
              THEN [pc |-> "done", event |-> NoEvent, code |-> IF r.type = "usage" THEN 2 ELSE 1]
              ELSE [pc |-> "ready", event |-> r, code |-> NoCode]]
    /\ UNCHANGED <<file, queue, emacs, reply, shown, disturbances>>

(* findEmacsclient: EMACSCLIENT is a name looked up in PATH, or a path, and is
   never replaced by another; without it PATH and then the bundles decide. *)
Discovered(env) ==
    CASE env.explicit = "name" -> env.path = "absolute"
      [] env.explicit = "path" -> env.executable
      [] env.explicit = "unset" -> env.path = "absolute" \/ env.bundle
Environments == [explicit : {"unset", "name", "path"}, path : {"absolute", "relative", "none"},
                 executable : BOOLEAN, bundle : BOOLEAN]

WriteEventFile(c) ==
    /\ call[c].pc = "ready"
    /\ \/ /\ \E env \in Environments : Discovered(env)
          /\ file' = [file EXCEPT ![c] = call[c].event]
          /\ call' = [call EXCEPT ![c].pc = "written"]
          /\ UNCHANGED disturbances
       \/ /\ \E env \in Environments : ~Discovered(env)
          /\ Ended(c, 1)
          /\ UNCHANGED <<file, disturbances>>
       \/ /\ Disturb
          /\ Ended(c, 1)
          /\ UNCHANGED file
    /\ UNCHANGED <<queue, emacs, reply, shown>>

\* emacsclient hands the request over, or finds no server.
Connect(c) ==
    /\ call[c].pc = "written"
    /\ IF emacs.at = "down"
       THEN Ended(c, 1) /\ UNCHANGED queue
       ELSE call' = [call EXCEPT ![c].pc = "waiting"] /\ queue' = Append(queue, c)
    /\ UNCHANGED <<file, emacs, reply, shown, disturbances>>

\* Mutant: an emacsclient that ends with 0 has delivered the event.
CodesByStatus(answer) == IF answer \in {"ok", "gone"} THEN {0} ELSE {3}

(* classify.  Which status emacsclient ends with when the server goes away
   without an answer is its own affair: 0 with no output, or a failure. *)
Codes(answer) ==
    CASE answer = "ok" -> {0}
      [] answer = "gone" -> {1, 3}
      [] OTHER -> {3}

Classify(c) ==
    /\ call[c].pc = "waiting" /\ reply[c] # Nothing
    /\ \E code \in Codes(reply[c]) : Ended(c, code)
    /\ UNCHANGED <<file, queue, emacs, reply, shown, disturbances>>

\* Mutant: the limit bounds only the time until the server has the request.
ExpireUnconnected(c) ==
    /\ call[c].pc = "written"
    /\ Ended(c, 1)
    /\ UNCHANGED <<file, queue, emacs, reply, shown, disturbances>>

\* The time limit kills emacsclient; an answer that came at the last moment
\* does not count.
Expire(c) ==
    /\ call[c].pc \in {"written", "waiting"}
    /\ Ended(c, 1)
    /\ UNCHANGED <<file, queue, emacs, reply, shown, disturbances>>

\* Mutant: the event file is left to the system's cleaning of /tmp.
FinishKeeping(c) ==
    /\ call[c].pc = "ended"
    /\ call' = [call EXCEPT ![c].pc = "done"]
    /\ UNCHANGED <<file, queue, emacs, reply, shown, disturbances>>

\* The deferred removal of the directory, on every path.  When it fails, nobody
\* is told ("left").
Finish(c) ==
    /\ call[c].pc = "ended"
    /\ \/ /\ call' = [call EXCEPT ![c].pc = "done", ![c].event = NoEvent]
          /\ file' = [file EXCEPT ![c] = NoEvent]
          /\ UNCHANGED disturbances
       \/ /\ Disturb
          /\ call' = [call EXCEPT ![c].pc = "left", ![c].event = NoEvent]
          /\ UNCHANGED file
    /\ UNCHANGED <<queue, emacs, reply, shown>>

\* The coding agent kills its own child: nothing is removed.
Kill(c) ==
    /\ call[c].pc \in {"written", "waiting", "ended"}
    /\ Disturb
    /\ call' = [call EXCEPT ![c].pc = "killed"]
    /\ UNCHANGED <<file, queue, emacs, reply, shown>>
----------------------------------------------------------------------------
(* The Emacs server evaluates one request at a time. *)

Serving == emacs.at \in {"look", "load", "dispatch", "shown"}

Answer(word) ==
    /\ reply' = [reply EXCEPT ![emacs.call] = word]
    /\ emacs' = [emacs EXCEPT !.at = "free", !.call = Nothing, !.event = NoEvent]

\* The expression calls the receiver when it is loaded.
Take ==
    /\ emacs.at = "free" /\ queue # <<>>
    /\ queue' = Tail(queue)
    /\ IF emacs.loaded
       THEN emacs' = [emacs EXCEPT !.at = "look", !.call = Head(queue)] /\ UNCHANGED reply
       ELSE reply' = [reply EXCEPT ![Head(queue)] = "not-loaded"] /\ UNCHANGED emacs
    /\ UNCHANGED <<call, file, shown, disturbances>>

\* imoogi-agent--read-file: the checks on the file, and then its contents, are
\* separate looks at the disk.
Look ==
    /\ emacs.at = "look"
    /\ IF file[emacs.call] = NoEvent
       THEN Answer("unreadable")
       ELSE emacs' = [emacs EXCEPT !.at = "load"] /\ UNCHANGED reply
    /\ UNCHANGED <<call, file, queue, shown, disturbances>>

Load ==
    /\ emacs.at = "load"
    /\ IF file[emacs.call] = NoEvent
       THEN Answer("untrusted") \/ Answer("handler")
       ELSE \E verdict \in Verdicts(file[emacs.call]) :
              IF verdict = "ok"
              THEN emacs' = [emacs EXCEPT !.at = "dispatch", !.event = file[emacs.call]] /\ UNCHANGED reply
              ELSE Answer(verdict)
    /\ UNCHANGED <<call, file, queue, shown, disturbances>>

\* imoogi-agent-dispatch: the file is displayed and the notice shown, or an
\* error on the way makes it "handler".
Dispatch ==
    /\ emacs.at = "dispatch"
    /\ \/ /\ shown' = shown \cup {emacs.call}
          /\ emacs' = [emacs EXCEPT !.at = "shown"]
          /\ UNCHANGED reply
       \/ Answer("handler") /\ UNCHANGED shown
    /\ UNCHANGED <<call, file, queue, disturbances>>

Respond ==
    /\ emacs.at = "shown"
    /\ Answer("ok")
    /\ UNCHANGED <<call, file, queue, shown, disturbances>>

\* Emacs ends, with the requests it has not answered.
Quit ==
    /\ emacs.at # "down"
    /\ Disturb
    /\ reply' = [c \in Calls |->
          IF call[c].pc = "waiting" /\ reply[c] = Nothing THEN "gone" ELSE reply[c]]
    /\ emacs' = [emacs EXCEPT !.at = "down", !.call = Nothing, !.event = NoEvent]
    /\ queue' = <<>>
    /\ UNCHANGED <<call, file, shown>>

Boot ==
    /\ emacs.at = "down"
    /\ Disturb
    /\ \E loaded \in BOOLEAN : emacs' = [emacs EXCEPT !.at = "free", !.loaded = loaded]
    /\ UNCHANGED <<call, file, queue, reply, shown>>
----------------------------------------------------------------------------
Process(c) == WriteEventFile(c) \/ Connect(c) \/ Classify(c) \/ Expire(c) \/ Finish(c)
Server == Take \/ Look \/ Load \/ Dispatch \/ Respond
Next == (\E c \in Calls : Start(c) \/ Process(c) \/ Kill(c)) \/ Server \/ Quit \/ Boot

(* The operating system runs the processes, and the clock does not wait for
   Emacs: nothing is assumed of the server. *)
Spec == Init /\ [][Next]_vars /\ \A c \in Calls : WF_vars(Process(c))
----------------------------------------------------------------------------
Over(c) == call[c].pc \in {"done", "left"}
Opened(c) == emacs.call = c /\ emacs.at \in {"dispatch", "shown"}

\* agentipc.go:15 and the table of README.md:94: what an exit code says
\* happened in Emacs, when Emacs lives on.
ExitCodesTrue ==
    \A c \in Calls : Over(c) =>
        /\ call[c].code = 0 => c \in shown
        /\ call[c].code = 2 => reply[c] = Nothing /\ c \notin shown /\ emacs.call # c
        /\ call[c].code = 3 => c \notin shown \/ reply[c] = "gone"

\* The same for what is still to come: when a call is over, Emacs never begins
\* with its event any more, although the request may be waiting: the event file
\* is gone.  Only where it could not be removed may it, and then only for a call
\* that was told 1.
NeverLate ==
    [][\A c \in Calls : Over(c) /\ Opened(c)' =>
            Opened(c) \/ (call[c].pc = "left" /\ call[c].code = 1)]_vars

\* What the process lets through is never refused for its form: the two
\* validators agree on the protocol.
WireAgrees ==
    \A c \in Calls : reply[c] \notin {"too-large", "unknown-type", "bad-field"}

\* A call that is not killed ends within its time limit and takes its file
\* with it unless the removal fails, even when Emacs never answers.
Ends ==
    \A c \in Calls :
        call[c].pc \notin {"idle", "killed"} ~>
            \/ call[c].pc = "done" /\ file[c] = NoEvent
            \/ call[c].pc \in {"left", "killed"}
=============================================================================
