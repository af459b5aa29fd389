---------------------------- MODULE PreviewServer ----------------------------
(***************************************************************************)
(* The Org preview server (src/internal/orgpreview): revisions of buffers  *)
(* that Emacs posts, the browser pages that show them, and the queues in   *)
(* between.  A handler runs in a goroutine of its own and holds the        *)
(* server's lock only for the steps named here, so handlers of different   *)
(* requests interleave between these steps.                                *)
(***************************************************************************)
EXTENDS Naturals, Sequences

CONSTANTS
    Buffers,        \* buffers with a preview
    Pages,          \* browser pages
    MaxRevision,    \* bound: revisions a buffer sends
    QueueCap        \* events a page's queue holds (16 in the code)

ASSUME ServerAssumption ==
    Buffers # {} /\ MaxRevision \in Nat /\ QueueCap \in Nat \ {0}

VARIABLES
    buf,        \* buf[b]: what the server holds of buffer b
    handler,    \* handler[b][r]: the goroutine that serves revision r of b
    answers,    \* answers[b]: responses to revisions on their way to Emacs
    nav,        \* nav[b]: the cursor message of b that is being handled
    page        \* page[p]: a browser page and its connection

serverVars == <<buf, handler, answers, nav, page>>

Revisions == 1 .. MaxRevision

\* A browser view is a random token; it is named by the revision whose handler
\* drew it.  0: no buffer state, no view.
NoView == 0
Absent == [rev |-> 0, view |-> NoView, text |-> 0]

Unsent == [at |-> "unsent", view |-> NoView, text |-> 0]
Done   == [at |-> "done", view |-> NoView, text |-> 0]
NoNav  == [at |-> "none", rev |-> 0]
Closed == [at |-> "none", buf |-> CHOOSE b \in Buffers : TRUE, view |-> NoView,
           shown |-> 0, latest |-> 0, missed |-> 0, queue |-> <<>>]

\* *Seeded bug*: a page is registered when its first render is queued.
RegisteredLate == {"live"}

\* The pages broadcasts reach.
Registered == {"joined", "latest", "live"}

ServerInit ==
    /\ buf = [b \in Buffers |-> Absent]
    /\ handler = [b \in Buffers |-> [r \in Revisions |-> Unsent]]
    /\ answers = [b \in Buffers |-> {}]
    /\ nav = [b \in Buffers |-> NoNav]
    /\ page = [p \in Pages |-> Closed]

-----------------------------------------------------------------------------
(* Broadcasting                                                            *)

\* *Seeded bug*: nothing bounds the queue.
OfferAlways(g, ev) == [g EXCEPT !.queue = Append(g.queue, ev)]

\* An event goes into the queue of every page registered for the buffer; a
\* full queue drops it (`missed' is the newest render dropped).
Offer(g, ev) ==
    IF Len(g.queue) < QueueCap
    THEN [g EXCEPT !.queue = Append(g.queue, ev)]
    ELSE IF ev.kind = "render" /\ ev.rev > g.missed
         THEN [g EXCEPT !.missed = ev.rev] ELSE g

Broadcast(b, evs) ==
    page' = [p \in Pages |->
                IF page[p].at \in Registered /\ page[p].buf = b
                THEN IF Len(evs) = 1 THEN Offer(page[p], evs[1])
                     ELSE Offer(Offer(page[p], evs[1]), evs[2])
                ELSE page[p]]

-----------------------------------------------------------------------------
(* Revisions: handleRevision                                               *)

Advance(b, r, at) ==
    handler' = [handler EXCEPT ![b][r] =
                  IF at = "done" THEN Done ELSE [handler[b][r] EXCEPT !.at = at]]

Answer(b, a) == answers' = [answers EXCEPT ![b] = @ \union {a}]

\* The client posts revision r of buffer b with text x.
PostRevision(b, r, x) ==
    /\ handler[b][r].at = "unsent"
    /\ handler' = [handler EXCEPT ![b][r] = [at |-> "posted", view |-> NoView, text |-> x]]

\* The first look under the lock: a revision older than the committed one is
\* answered without a view.
CheckRevision(b, r) ==
    /\ handler[b][r].at = "posted"
    /\ IF r < buf[b].rev
       THEN Advance(b, r, "done") /\ Answer(b, [rev |-> r, view |-> NoView, ok |-> TRUE])
       ELSE Advance(b, r, "parsing") /\ UNCHANGED answers
    /\ UNCHANGED <<buf, nav, page>>

\* Parsed and rendered without the lock.  The links in the HTML carry the
\* view: the one the buffer has, or a new one.
RenderRevision(b, r) ==
    /\ handler[b][r].at = "parsing"
    /\ handler' = [handler EXCEPT ![b][r].at = "rendered",
                       ![b][r].view = IF buf[b].view # NoView THEN buf[b].view ELSE r]
    /\ UNCHANGED <<buf, answers, nav, page>>

\* An envelope, a document or an asset root that is refused.
RejectRevision(b, r) ==
    /\ handler[b][r].at \in {"posted", "parsing"}
    /\ Advance(b, r, "done")
    /\ Answer(b, [rev |-> r, view |-> NoView, ok |-> FALSE])
    /\ UNCHANGED <<buf, nav, page>>

\* *Seeded bug*: the second comparison is left out.
CommitRevisionUnchecked(b, r) ==
    /\ handler[b][r].at = "rendered"
    /\ Answer(b, [rev |-> r, view |-> handler[b][r].view, ok |-> TRUE])
    /\ Advance(b, r, "announcing")
    /\ buf' = [buf EXCEPT ![b] = [rev |-> r, view |-> handler[b][r].view,
                                  text |-> handler[b][r].text]]
    /\ UNCHANGED <<nav, page>>

\* commitRevision compares again under the lock: of revisions rendered at
\* the same time the newest stays.  The answer names the view this handler
\* rendered with, committed or not, and may arrive before the pages are told.
CommitRevision(b, r) ==
    /\ handler[b][r].at = "rendered"
    /\ Answer(b, [rev |-> r, view |-> handler[b][r].view, ok |-> TRUE])
    /\ IF r < buf[b].rev
       THEN Advance(b, r, "done") /\ UNCHANGED buf
       ELSE /\ Advance(b, r, "announcing")
            /\ buf' = [buf EXCEPT ![b] = [rev |-> r, view |-> handler[b][r].view,
                                          text |-> handler[b][r].text]]
    /\ UNCHANGED <<nav, page>>

\* The lock was released since the commit: newer revisions may have been
\* committed and broadcast meanwhile.  The block at the cursor follows the
\* render, if the cursor is on one.
BroadcastRender(b, r) ==
    /\ handler[b][r].at = "announcing"
    /\ \/ Broadcast(b, <<[kind |-> "render", rev |-> r]>>)
       \/ Broadcast(b, <<[kind |-> "render", rev |-> r], [kind |-> "nav", rev |-> r]>>)
    /\ Advance(b, r, "done")
    /\ UNCHANGED <<buf, answers, nav>>

-----------------------------------------------------------------------------
(* Cursor messages: handleEmacsNavigation                                  *)

PostNavigation(b, r) ==
    /\ nav[b].at = "none"
    /\ nav' = [nav EXCEPT ![b] = [at |-> "posted", rev |-> r]]

\* Without a buffer, or with the cursor on no block of the committed document,
\* the message is refused.
MapNavigation(b, onBlock) ==
    /\ nav[b].at = "posted"
    /\ nav' = [nav EXCEPT ![b].at = IF buf[b].rev # 0 /\ onBlock THEN "mapped" ELSE "refused"]
    /\ UNCHANGED <<buf, handler, answers, page>>

BroadcastNavigation(b) ==
    /\ nav[b].at = "mapped"
    /\ Broadcast(b, <<[kind |-> "nav", rev |-> nav[b].rev]>>)
    /\ nav' = [nav EXCEPT ![b].at = "ok"]
    /\ UNCHANGED <<buf, handler, answers>>

-----------------------------------------------------------------------------
(* Browser pages: handleBrowserWebSocket and the page's script              *)

Authorized(p) == page[p].view # NoView /\ page[p].view = buf[page[p].buf].view

\* The page is registered first, so no commit from now on passes it by.
JoinPage(p) ==
    /\ page[p].at = "idle" /\ Authorized(p)
    /\ page' = [page EXCEPT ![p].at = "joined", ![p].queue = <<>>, ![p].missed = 0]
    /\ UNCHANGED <<buf, handler, answers, nav>>

ReadLatest(p) ==
    /\ page[p].at = "joined"
    /\ page' = [page EXCEPT ![p].at = "latest", ![p].latest = buf[page[p].buf].rev]
    /\ UNCHANGED <<buf, handler, answers, nav>>

\* The handler sends the render into the page's queue and only then starts to
\* empty it: with a full queue it waits for ever.
QueueLatest(p) ==
    /\ page[p].at = "latest"
    /\ Len(page[p].queue) < QueueCap
    /\ page' = [page EXCEPT ![p].at = "live",
                    ![p].queue = Append(@, [kind |-> "render", rev |-> page[p].latest])]
    /\ UNCHANGED <<buf, handler, answers, nav>>

\* renderRevision in the page's script ignores older revisions than the one it
\* shows; a cursor event changes no text.
Shows(g, ev) == IF ev.kind = "render" /\ ev.rev >= g.shown THEN ev.rev ELSE g.shown

\* writeLoop takes an event, the connection carries it, the script applies it.
DeliverEvent(p) ==
    /\ page[p].at = "live" /\ page[p].queue # <<>>
    /\ page' = [page EXCEPT ![p].queue = Tail(@),
                            ![p].shown = Shows(page[p], Head(page[p].queue))]
    /\ UNCHANGED <<buf, handler, answers, nav>>

\* The connection breaks.  The page keeps what it shows and will join again.
LoseConnection(p) ==
    /\ page[p].at \in Registered
    /\ page' = [page EXCEPT ![p].at = "idle", ![p].queue = <<>>, ![p].latest = 0]
    /\ UNCHANGED <<buf, handler, answers, nav>>

-----------------------------------------------------------------------------
(* The end of the process                                                  *)

Answered(h) == h.at \in {"unsent", "announcing", "done"}

\* All state is in memory.  Requests that were not answered fail; the pages can
\* never connect again, since another server has another port and other views.
ServerStops ==
    /\ buf' = [b \in Buffers |-> Absent]
    /\ handler' = [b \in Buffers |-> [r \in Revisions |->
                     IF handler[b][r].at = "unsent" THEN Unsent ELSE Done]]
    /\ answers' = [b \in Buffers |-> answers[b] \union
                     {[rev |-> r, view |-> NoView, ok |-> FALSE] :
                         r \in {s \in Revisions : ~Answered(handler[b][s])}}]
    /\ nav' = [b \in Buffers |->
                 [nav[b] EXCEPT !.at = IF @ \in {"posted", "mapped"} THEN "refused" ELSE @]]
    /\ page' = [p \in Pages |-> Closed]

-----------------------------------------------------------------------------
(* The goroutines of the server                                            *)

HandlerStep(b, r) ==
    \/ CheckRevision(b, r) \/ RenderRevision(b, r) \/ CommitRevision(b, r)
    \/ BroadcastRender(b, r)

PageStep(p) == JoinPage(p) \/ ReadLatest(p) \/ QueueLatest(p) \/ DeliverEvent(p)
=============================================================================
