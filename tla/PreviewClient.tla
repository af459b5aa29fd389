---------------------------- MODULE PreviewClient ----------------------------
(***************************************************************************)
(* The preview client in Emacs (src/modules/org/23-org-preview.el) with    *)
(* the server it starts.  Emacs runs one command, timer, process filter or *)
(* callback at a time; each is an action.  The server process may die, and *)
(* Emacs learns of it when it runs the sentinel.                           *)
(***************************************************************************)
EXTENDS PreviewServer

CONSTANTS
    MaxEdits,       \* bound: edits of a buffer
    MaxDisturbances,\* bound: faults, cursor movements, and times the mode is switched on again
    OnBlock,        \* whether the cursor may be on a block of the document: a set of BOOLEAN
    Others          \* whether previews outside the model may be on: a set of BOOLEAN

ASSUME ClientAssumption ==
    /\ MaxEdits \in Nat /\ MaxDisturbances \in Nat
    /\ OnBlock \subseteq BOOLEAN /\ Others \subseteq BOOLEAN

VARIABLES
    em,         \* em[b]: the buffer-local variables of buffer b
    server,     \* the server process: none, starting, up, or dead (its sentinel has not run)
    port,       \* Emacs knows the server's port and token
    disturbances    \* how many of them have happened

clientVars == <<em, server, port, disturbances>>
vars == <<serverVars, clientVars>>

NewBuffer ==
    [mode |-> FALSE, dirty |-> FALSE, sending |-> FALSE, timer |-> FALSE, navTimer |-> FALSE,
     reconnect |-> FALSE, pending |-> FALSE, failed |-> FALSE, rev |-> 0, view |-> NoView,
     text |-> 0,
     unsent |-> FALSE,      \* history: the last update could not be sent
     overlapped |-> FALSE]  \* history: an update was sent while another was out

Init ==
    /\ ServerInit
    /\ em = [b \in Buffers |-> NewBuffer]
    /\ server = "none" /\ port = FALSE
    /\ disturbances = 0

-----------------------------------------------------------------------------
(* Helpers                                                                 *)

\* schedule-update: any number of edits make one update.
Scheduled(e) == [e EXCEPT !.dirty = TRUE, !.timer = TRUE]

On == {b \in Buffers : em[b].mode}

\* browse-url with the view of e; no page is left over when the bound is reached.
Free == {p \in Pages : page[p].at = "none"}
Browse(b, v) ==
    IF Free = {} THEN UNCHANGED page
    ELSE page' = [page EXCEPT ![CHOOSE p \in Free : TRUE] =
                     [Closed EXCEPT !.at = "idle", !.buf = b, !.view = v]]

\* connect-current-buffer: open the browser that was asked for, send the text.
Connected(e) == Scheduled([e EXCEPT !.pending = @ /\ e.view = NoView])
BrowsePending(b) ==
    IF em[b].pending /\ em[b].view # NoView THEN Browse(b, em[b].view) ELSE UNCHANGED page

\* ensure-server, for buffer b with the variables e.
EnsureServer(b, e) ==
    \/ /\ port
       /\ em' = [em EXCEPT ![b] = Connected(e)]
       /\ BrowsePending(b)
       /\ UNCHANGED server
    \/ /\ ~port /\ server \in {"starting", "dead"}
       /\ em' = [em EXCEPT ![b] = e]
       /\ UNCHANGED <<server, page>>
    \/ /\ ~port /\ server = "none"
       /\ server' = "starting"
       /\ em' = [em EXCEPT ![b] = e]
       /\ UNCHANGED page

Disturb == disturbances < MaxDisturbances /\ disturbances' = disturbances + 1

-----------------------------------------------------------------------------
(* Commands of the user                                                    *)

Enable(b) ==
    /\ ~em[b].mode
    /\ IF em[b] = NewBuffer THEN UNCHANGED disturbances ELSE Disturb
    /\ EnsureServer(b, Scheduled([em[b] EXCEPT !.mode = TRUE]))
    /\ UNCHANGED <<buf, handler, answers, nav, port>>

\* Emacs forgets that a request is out.  The last buffer stops the server;
\* delete-process runs the sentinel at once.
Disable(b) ==
    /\ em[b].mode
    /\ em' = [em EXCEPT ![b] =
                [em[b] EXCEPT !.mode = FALSE, !.dirty = FALSE, !.sending = FALSE, !.timer = FALSE,
                          !.navTimer = FALSE, !.reconnect = FALSE, !.pending = FALSE,
                          !.failed = FALSE]]
    /\ \E others \in Others :
          IF On = {b} /\ ~others /\ server \in {"starting", "up"}
          THEN ServerStops /\ server' = "none" /\ port' = FALSE
          ELSE UNCHANGED <<serverVars, server, port>>
    /\ UNCHANGED disturbances

Edit(b) ==
    /\ em[b].text < MaxEdits
    /\ LET e == [em[b] EXCEPT !.text = @ + 1]
       IN em' = [em EXCEPT ![b] = IF e.mode THEN Scheduled(e) ELSE e]
    /\ UNCHANGED <<serverVars, server, port, disturbances>>

CursorMoves(b) ==
    /\ em[b].mode /\ Disturb
    /\ em' = [em EXCEPT ![b].navTimer = TRUE]
    /\ UNCHANGED <<serverVars, server, port>>

\* imoogi-org-preview-open: now, or when the view is known.
OpenBrowser(b) ==
    /\ em[b].mode /\ Free # {} /\ ~em[b].pending
    /\ IF port /\ em[b].view # NoView
       THEN Browse(b, em[b].view) /\ UNCHANGED em
       ELSE em' = [em EXCEPT ![b].pending = TRUE] /\ UNCHANGED page
    /\ UNCHANGED <<buf, handler, answers, nav, server, port, disturbances>>

-----------------------------------------------------------------------------
(* Timers                                                                  *)

Outstanding(b) == answers[b] # {} \/ \E r \in Revisions : ~Answered(handler[b][r])

\* send-update, when it has something to do: one request at a time, with all
\* the text.  The revision is counted before the request is built.
Ready(b) == em[b].timer /\ em[b].mode /\ ~em[b].sending /\ port

SendUpdate(b) ==
    /\ Ready(b) /\ em[b].rev < MaxRevision
    /\ em' = [em EXCEPT ![b] = [em[b] EXCEPT !.timer = FALSE, !.sending = TRUE, !.dirty = FALSE,
                                         !.rev = @ + 1, !.unsent = FALSE,
                                         !.overlapped = @ \/ Outstanding(b)]]
    /\ LET r == em[b].rev + 1
       IN IF server = "dead"
          THEN handler' = [handler EXCEPT ![b][r] = Done]
               /\ Answer(b, [rev |-> r, view |-> NoView, ok |-> FALSE])
          ELSE PostRevision(b, r, em[b].text) /\ UNCHANGED answers
    /\ UNCHANGED <<buf, nav, page, server, port, disturbances>>

\* The request cannot be built or the connection fails at once.
SendFails(b) ==
    /\ Ready(b) /\ em[b].rev < MaxRevision /\ Disturb
    /\ em' = [em EXCEPT ![b] = [em[b] EXCEPT !.timer = FALSE, !.dirty = FALSE, !.rev = @ + 1,
                                         !.failed = TRUE, !.unsent = TRUE]]
    /\ handler' = [handler EXCEPT ![b][em[b].rev + 1] = Done]
    /\ UNCHANGED <<buf, answers, nav, page, server, port>>

\* A request is out or there is no server: the buffer stays dirty.
SkipUpdate(b) ==
    /\ em[b].timer /\ ~Ready(b)
    /\ em' = [em EXCEPT ![b].timer = FALSE]
    /\ UNCHANGED <<serverVars, server, port, disturbances>>

\* send-navigation; at most one message of a buffer is out (a bound).
SendNavigation(b) ==
    /\ em[b].navTimer
    /\ em' = [em EXCEPT ![b].navTimer = FALSE]
    /\ IF em[b].mode /\ ~em[b].dirty /\ ~em[b].sending /\ port
       THEN IF server = "dead" /\ nav[b].at = "none"
            THEN nav' = [nav EXCEPT ![b] = [at |-> "refused", rev |-> em[b].rev]]
            ELSE PostNavigation(b, em[b].rev)
       ELSE UNCHANGED nav
    /\ UNCHANGED <<buf, handler, answers, page, server, port, disturbances>>

\* A second after the failure; by then the sentinel of a dead server has run.
Reconnect(b) ==
    /\ em[b].reconnect /\ server # "dead"
    /\ EnsureServer(b, [em[b] EXCEPT !.reconnect = FALSE])
    /\ UNCHANGED <<buf, handler, answers, nav, port, disturbances>>

-----------------------------------------------------------------------------
(* Callbacks, filter and sentinel                                          *)

\* *Seeded bug*: any answer asks for a reconnection.
RespondedReconnects(e, ok) ==
    IF ~e.mode THEN e ELSE [e EXCEPT !.failed = FALSE, !.reconnect = TRUE]

\* response-callback: anything but a 2xx answer asks for a reconnection.
Responded(e, ok) ==
    IF ~e.mode THEN e
    ELSE [e EXCEPT !.failed = FALSE, !.reconnect = @ \/ ~ok]

\* *Seeded bug*: edits made while the request was out are forgotten.
AfterUpdateForgets(e) == IF ~e.mode THEN e ELSE [e EXCEPT !.navTimer = TRUE]

AfterUpdate(e) ==
    IF ~e.mode THEN e
    ELSE IF e.dirty THEN Scheduled(e) ELSE [e EXCEPT !.navTimer = TRUE]

\* *Seeded bug*: the first view stays, although another server draws another.
TakenViewOnce(e, a) == IF e.view = NoView THEN a.view ELSE e.view

TakenView(e, a) == IF a.view # NoView THEN a.view ELSE e.view

\* update-callback: the view of any answer is taken over, the flag is cleared
\* whichever request is answered.
UpdateCallback(b, a) ==
    /\ a \in answers[b]
    /\ answers' = [answers EXCEPT ![b] = @ \ {a}]
    /\ LET opens == a.view # NoView /\ em[b].pending
           e == [em[b] EXCEPT !.view = TakenView(em[b], a),
                              !.pending = @ /\ ~(opens /\ port), !.sending = FALSE]
       IN /\ em' = [em EXCEPT ![b] = Responded(AfterUpdate(e), a.ok)]
          /\ IF opens /\ port THEN Browse(b, a.view) ELSE UNCHANGED page
    /\ UNCHANGED <<buf, handler, nav, server, port, disturbances>>

NavigationCallback(b) ==
    /\ nav[b].at \in {"ok", "refused"}
    /\ nav' = [nav EXCEPT ![b] = NoNav]
    /\ em' = [em EXCEPT ![b] = Responded(em[b], nav[b].at = "ok")]
    /\ UNCHANGED <<buf, handler, answers, page, server, port, disturbances>>

\* The server prints its port and token: every buffer connects.
Bootstrap ==
    /\ server = "starting"
    /\ server' = "up" /\ port' = TRUE
    /\ em' = [b \in Buffers |-> IF em[b].mode THEN Connected(em[b]) ELSE em[b]]
    /\ LET opens == {b \in On : em[b].pending /\ em[b].view # NoView}
       IN IF opens = {} THEN UNCHANGED page
          ELSE \E b \in opens : Browse(b, em[b].view)
    /\ UNCHANGED <<buf, handler, answers, nav, disturbances>>

Sentinel ==
    /\ server = "dead"
    /\ server' = "none" /\ port' = FALSE
    /\ em' = [b \in Buffers |-> [em[b] EXCEPT !.failed = @ \/ em[b].mode]]
    /\ UNCHANGED <<serverVars, disturbances>>

-----------------------------------------------------------------------------
(* Faults of the environment                                               *)

\* The process dies: killed, or stopped by the Go runtime, which may happen when
\* assetHandlePath reads the handles of a buffer without the lock while the page
\* of a linked file writes new ones into the same map.
ServerDies ==
    /\ server \in {"starting", "up"} /\ Disturb
    /\ server' = "dead"
    /\ ServerStops
    /\ UNCHANGED <<em, port>>

Rejected(b, r) == Disturb /\ RejectRevision(b, r) /\ UNCHANGED <<em, server, port>>

Disconnected(p) == Disturb /\ LoseConnection(p) /\ UNCHANGED <<em, server, port>>

-----------------------------------------------------------------------------

ServerStep ==
    /\ server = "up"
    /\ \/ \E b \in Buffers, r \in Revisions : HandlerStep(b, r)
       \/ \E b \in Buffers, onBlock \in OnBlock : MapNavigation(b, onBlock)
       \/ \E b \in Buffers : BroadcastNavigation(b)
       \/ \E p \in Pages : PageStep(p)
    /\ UNCHANGED clientVars

UserStep ==
    \E b \in Buffers :
        Enable(b) \/ Disable(b) \/ Edit(b) \/ CursorMoves(b) \/ OpenBrowser(b)

EmacsStep ==
    \/ \E b \in Buffers :
        \/ SendUpdate(b) \/ SkipUpdate(b) \/ SendNavigation(b) \/ Reconnect(b)
        \/ \E a \in answers[b] : UpdateCallback(b, a)
        \/ NavigationCallback(b)
    \/ Bootstrap
    \/ Sentinel

FaultStep ==
    \/ ServerDies
    \/ \E b \in Buffers : SendFails(b)
    \/ \E b \in Buffers, r \in Revisions : Rejected(b, r)
    \/ \E p \in Pages : Disconnected(p)

Next == ServerStep \/ UserStep \/ EmacsStep \/ FaultStep

Spec == Init /\ [][Next]_vars

\* Requests are served, timers fire, callbacks and the sentinel run, events reach
\* open pages.  Nothing makes the user act or a fault happen.
Fairness ==
    /\ \A b \in Buffers, r \in Revisions :
          WF_vars(server = "up" /\ HandlerStep(b, r) /\ UNCHANGED clientVars)
    /\ \A b \in Buffers :
          /\ WF_vars(server = "up" /\ UNCHANGED clientVars
                      /\ \/ \E onBlock \in OnBlock : MapNavigation(b, onBlock)
                         \/ BroadcastNavigation(b))
          /\ WF_vars(SendUpdate(b) \/ SkipUpdate(b))
          /\ WF_vars(SendNavigation(b))
          /\ WF_vars(Reconnect(b))
          /\ WF_vars(\E a \in answers[b] : UpdateCallback(b, a))
          /\ WF_vars(NavigationCallback(b))
    /\ \A p \in Pages : WF_vars(server = "up" /\ PageStep(p) /\ UNCHANGED clientVars)
    /\ WF_vars(Bootstrap)
    /\ WF_vars(Sentinel)

FairSpec == Spec /\ Fairness

-----------------------------------------------------------------------------
(* Properties                                                              *)

\* A page whose events are all delivered shows the committed revision, unless
\* the handler that committed it has yet to tell the pages or this page's queue
\* was full when it did: no order of commits, broadcasts and connections (the
\* lock is released between them) leaves a page with an older one.
CaughtUp ==
    \A p \in Pages :
        LET b == page[p].buf
            current == buf[b].rev
        IN (page[p].at = "live" /\ page[p].queue = <<>>
            /\ ~ \E r \in Revisions : r = current /\ handler[b][r].at = "announcing")
           => current \in {page[p].shown, page[p].missed}

\* Nothing of buffer b is under way.
Quiet(b) == answers[b] = {} /\ \A r \in Revisions : handler[b][r].at \in {"unsent", "done"}

\* The view Emacs opens pages with is the one the server accepts, once the
\* answers are in and as long as one update was out at a time.
IdleViewAgrees ==
    \A b \in Buffers :
        (server = "up" /\ Quiet(b) /\ ~em[b].overlapped /\ buf[b].rev # 0) => em[b].view = buf[b].view

\* The preview and its pages have the text of the buffer.
InSync(b) ==
    /\ buf[b].text = em[b].text
    /\ \A p \in Pages :
          (page[p].at # "none" /\ page[p].buf = b /\ Authorized(p) /\ page[p].at # "latest")
          => buf[b].rev \in {page[p].shown, page[p].missed}

\* When the user stops, every preview comes to have the text of its buffer,
\* unless its last update could not be sent or the server is dead from then on,
\* whatever it died of (nothing starts one again that died with no request out).
Converges ==
    <>[](\A b \in Buffers : ~em[b].mode \/ em[b].unsent \/ server = "none" \/ InSync(b))

\* The pages behave as LiveView says.
LV == INSTANCE LiveView WITH
        committed <- [b \in Buffers |-> buf[b].rev],
        source <- [p \in Pages |-> page[p].buf],
        shown <- [p \in Pages |-> page[p].shown]

LiveViewSpec == LV!Spec
=============================================================================
