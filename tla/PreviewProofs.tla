---------------------------- MODULE PreviewProofs ----------------------------
(***************************************************************************)
(* Proofs about the preview, for any number of buffers, pages, revisions,  *)
(* faults and any queue length: pages never go back and show only what the *)
(* server committed (LiveViewImplemented), a page that has nothing left to *)
(* deliver shows the committed revision (PagesCatchUp), and Emacs and the  *)
(* server agree on the view when nothing is under way (ViewsAgree).        *)
(***************************************************************************)
EXTENDS PreviewClient, TLAPS

-----------------------------------------------------------------------------
(* Types *)

Numbers == 0 .. MaxRevision     \* revisions and views, 0 for none
Events == [kind : {"render", "nav"}, rev : Numbers]

Held == [rev : Numbers, view : Numbers, text : Nat]

Handling ==
  [at : {"unsent", "posted", "parsing", "rendered", "announcing", "done"},
   view : Numbers, text : Nat]

Replies == [rev : Revisions, view : Numbers, ok : BOOLEAN]

Cursor == [at : {"none", "posted", "mapped", "refused", "ok"}, rev : Numbers]

Browsers ==
  [at : {"none", "idle", "joined", "latest", "live"}, buf : Buffers, view : Numbers,
   shown : Numbers, latest : Numbers, missed : Numbers, queue : Seq(Events)]

Locals ==
  [mode : BOOLEAN, dirty : BOOLEAN, sending : BOOLEAN, timer : BOOLEAN, navTimer : BOOLEAN,
   reconnect : BOOLEAN, pending : BOOLEAN, failed : BOOLEAN, rev : Numbers, view : Numbers,
   text : Nat, unsent : BOOLEAN, overlapped : BOOLEAN]

PreviewTypes ==
  /\ buf \in [Buffers -> Held]
  /\ handler \in [Buffers -> [Revisions -> Handling]]
  /\ answers \in [Buffers -> SUBSET Replies]
  /\ nav \in [Buffers -> Cursor]
  /\ page \in [Pages -> Browsers]
  /\ em \in [Buffers -> Locals]
  /\ server \in {"none", "starting", "up", "dead"}
  /\ port \in BOOLEAN
  /\ disturbances \in Nat

-----------------------------------------------------------------------------
(* The invariant *)

\* The revisions waiting in a queue.
Renders(q) == {q[i].rev : i \in {j \in DOMAIN q : q[j].kind = "render"}}

\* A page g of a buffer whose committed revision is c knows of nothing newer.
Behind(g, c) ==
  /\ g.shown <= c /\ g.missed <= c /\ g.latest <= c
  /\ \A n \in Renders(g.queue) : n <= c
  /\ g.at = "none" => g.shown = 0

\* Page g shows revision c, missed it, or has yet to be given it by its own
\* queue or by the goroutine that serves it.
Told(g, c) ==
  \/ c = g.shown \/ c = g.missed
  \/ c \in Renders(g.queue)
  \/ g.at = "latest" /\ g.latest = c

\* The handler of the committed revision of b has yet to tell the pages.
Announcing(b) == buf[b].rev \in Revisions /\ handler[b][buf[b].rev].at = "announcing"

PageInv(p) ==
  /\ Behind(page[p], buf[page[p].buf].rev)
  /\ page[p].at \in {"latest", "live"} =>
       Told(page[p], buf[page[p].buf].rev) \/ Announcing(page[p].buf)

\* Emacs counts the revisions it sends; an announced one was committed.
RevisionInv(b) ==
  /\ (buf[b].rev = 0) <=> (buf[b].view = NoView)
  /\ \A r \in Revisions :
       /\ em[b].rev < r => handler[b][r].at = "unsent"
       /\ handler[b][r].at = "announcing" => r <= buf[b].rev
       /\ handler[b][r].at = "rendered" => handler[b][r].view # NoView

\* While no two updates of a buffer are out at a time: the one that is out is one
\* handler or one answer; what was drawn agrees with what is committed; and with the
\* answer, or without one, Emacs comes to have the committed view.
ViewInv(b) ==
  ~em[b].overlapped =>
    /\ \A r, s \in Revisions :
         ~Answered(handler[b][r]) /\ ~Answered(handler[b][s]) => r = s
    /\ \A r \in Revisions : ~Answered(handler[b][r]) => answers[b] = {}
    /\ \A a, c \in answers[b] : a = c
    /\ \A r \in Revisions :
         handler[b][r].at = "rendered" /\ buf[b].rev # 0 => handler[b][r].view = buf[b].view
    /\ buf[b].rev # 0 =>
         /\ \A a \in answers[b] : TakenView(em[b], a) = buf[b].view
         /\ answers[b] = {} => em[b].view = buf[b].view

PreviewInv ==
  /\ PreviewTypes
  /\ \A p \in Pages : PageInv(p)
  /\ \A b \in Buffers : RevisionInv(b) /\ ViewInv(b)
-----------------------------------------------------------------------------
(* Queues and broadcasts *)

LEMMA QueueFacts ==
  ASSUME NEW q \in Seq(Events), NEW e \in Events
  PROVE  /\ Append(q, e) \in Seq(Events)
         /\ Renders(Append(q, e)) = Renders(q) \cup (IF e.kind = "render" THEN {e.rev} ELSE {})
         /\ Renders(<<>>) = {}
         /\ \A n \in Renders(q) : n \in Numbers
<1> DEFINE a == Append(q, e)
<1>1. /\ a \in Seq(Events) /\ Len(a) = Len(q) + 1
      /\ \A i \in 1 .. Len(q) : a[i] = q[i]
      /\ a[Len(q) + 1] = e
  OBVIOUS
<1>2. DOMAIN a = 1 .. Len(q) + 1 /\ DOMAIN q = 1 .. Len(q) /\ Len(q) \in Nat
  BY <1>1
<1>3. ASSUME NEW n PROVE n \in Renders(a) <=> n \in Renders(q) \/ (e.kind = "render" /\ n = e.rev)
  <2> HIDE DEF a
  <2>1. n \in Renders(a) <=> \E i \in 1 .. Len(q) + 1 : a[i].kind = "render" /\ n = a[i].rev
    BY <1>2 DEF Renders
  <2>2. n \in Renders(q) <=> \E i \in 1 .. Len(q) : q[i].kind = "render" /\ n = q[i].rev
    BY <1>2 DEF Renders
  <2>3. \A i \in 1 .. Len(q) + 1 : i \in 1 .. Len(q) \/ i = Len(q) + 1
    BY <1>2
  <2>4. \A i \in 1 .. Len(q) : i \in 1 .. Len(q) + 1
    BY <1>2
  <2>5. Len(q) + 1 \in 1 .. Len(q) + 1
    BY <1>2
  <2> QED BY <1>1, <2>1, <2>2, <2>3, <2>4, <2>5
<1>4. Renders(<<>>) = {} BY DEF Renders
<1>5. \A n \in Renders(q) : n \in Numbers
  <2>1. \A i \in DOMAIN q : q[i] \in Events BY <1>2
  <2>2. \A x \in Events : x.rev \in Numbers BY DEF Events
  <2> QED BY <2>1, <2>2 DEF Renders
<1> QED BY <1>1, <1>3, <1>4, <1>5

LEMMA TailFacts ==
  ASSUME NEW q \in Seq(Events), q # <<>>
  PROVE  /\ Head(q) \in Events /\ Tail(q) \in Seq(Events)
         /\ Renders(q) = Renders(Tail(q))
                           \cup (IF Head(q).kind = "render" THEN {Head(q).rev} ELSE {})
<1> DEFINE t == Tail(q)
<1>1. /\ t \in Seq(Events) /\ Len(t) = Len(q) - 1 /\ Head(q) = q[1] /\ Head(q) \in Events
      /\ \A i \in 1 .. Len(t) : t[i] = q[i + 1]
  OBVIOUS
<1>2. DOMAIN t = 1 .. Len(t) /\ DOMAIN q = 1 .. Len(q) /\ Len(q) \in Nat /\ Len(q) > 0
  BY <1>1
<1>3. ASSUME NEW n
      PROVE  n \in Renders(q) <=> n \in Renders(t) \/ (q[1].kind = "render" /\ n = q[1].rev)
  <2> HIDE DEF t
  <2>1. n \in Renders(t) <=> \E i \in 1 .. Len(t) : t[i].kind = "render" /\ n = t[i].rev
    BY <1>2 DEF Renders
  <2>2. n \in Renders(q) <=> \E i \in 1 .. Len(q) : q[i].kind = "render" /\ n = q[i].rev
    BY <1>2 DEF Renders
  <2>3. \A i \in 1 .. Len(q) : i = 1 \/ (i - 1 \in 1 .. Len(t) /\ t[i - 1] = q[i])
    BY <1>1, <1>2
  <2>4. \A i \in 1 .. Len(t) : i + 1 \in 1 .. Len(q)
    BY <1>1, <1>2
  <2>5. 1 \in 1 .. Len(q) BY <1>2
  <2> QED BY <1>1, <2>1, <2>2, <2>3, <2>4, <2>5
<1> QED BY <1>1, <1>3

LEMMA OfferTypes ==
  ASSUME NEW g \in Browsers, NEW e \in Events
  PROVE  /\ Offer(g, e) \in Browsers
         /\ Offer(g, e).at = g.at /\ Offer(g, e).buf = g.buf /\ Offer(g, e).shown = g.shown
<1>1. Append(g.queue, e) \in Seq(Events) /\ e.rev \in Numbers
  BY QueueFacts DEF Browsers, Events
<1> QED BY <1>1 DEF Offer, Browsers

(* What a page is after an event was offered to it: it has the event or, with a full
   queue, has missed it. *)
LEMMA OfferFacts ==
  ASSUME NEW g \in Browsers, NEW e \in Events, NEW c \in Numbers, Behind(g, c),
         e.kind = "render" => e.rev <= c
  PROVE  /\ Behind(Offer(g, e), c)
         /\ Told(g, c) => Told(Offer(g, e), c)
         /\ e.kind = "render" /\ e.rev = c => Told(Offer(g, e), c)
<1>0. /\ c \in Nat /\ e.rev \in Nat /\ e.rev \in Numbers
      /\ g.queue \in Seq(Events) /\ g.missed \in Nat /\ g.missed <= c
  BY ServerAssumption DEF Numbers, Browsers, Events, Behind
<1>1. CASE Len(g.queue) < QueueCap
  <2> DEFINE h == [g EXCEPT !.queue = Append(g.queue, e)]
  <2>1. Offer(g, e) = h BY <1>1 DEF Offer
  <2>2. /\ Append(g.queue, e) \in Seq(Events)
        /\ Renders(Append(g.queue, e))
             = Renders(g.queue) \cup (IF e.kind = "render" THEN {e.rev} ELSE {})
    BY <1>0, QueueFacts
  <2>3. /\ h \in Browsers /\ h.queue = Append(g.queue, e)
        /\ h.at = g.at /\ h.buf = g.buf /\ h.shown = g.shown
        /\ h.missed = g.missed /\ h.latest = g.latest
    BY <2>2 DEF Browsers
  <2> HIDE DEF h
  <2>4. Behind(h, c) BY <2>2, <2>3 DEF Behind
  <2> QED BY <2>1, <2>2, <2>3, <2>4 DEF Told
<1>2. CASE ~(Len(g.queue) < QueueCap) /\ e.kind = "render" /\ e.rev > g.missed
  <2> DEFINE h == [g EXCEPT !.missed = e.rev]
  <2>1. Offer(g, e) = h BY <1>2 DEF Offer
  <2>2. /\ h \in Browsers /\ h.queue = g.queue
        /\ h.at = g.at /\ h.buf = g.buf /\ h.shown = g.shown
        /\ h.missed = e.rev /\ h.latest = g.latest
    BY <1>0 DEF Browsers
  <2> HIDE DEF h
  <2>3. Behind(h, c) BY <1>2, <2>2 DEF Behind
  <2>4. g.missed # c BY <1>0, <1>2
  <2> QED BY <2>1, <2>2, <2>3, <2>4 DEF Told
<1>3. CASE ~(Len(g.queue) < QueueCap) /\ ~(e.kind = "render" /\ e.rev > g.missed)
  <2>1. Offer(g, e) = g BY <1>3 DEF Offer
  <2>2. e.kind = "render" /\ e.rev = c => g.missed = c
    BY <1>0, <1>3 DEF Behind
  <2> QED BY <2>1, <2>2 DEF Told
<1> QED BY <1>1, <1>2, <1>3
(* What a broadcast of one event to the pages of buffer b leaves. *)
LEMMA BroadcastOne ==
  ASSUME page \in [Pages -> Browsers], NEW b, NEW e \in Events, Broadcast(b, <<e>>)
  PROVE  /\ page' \in [Pages -> Browsers]
         /\ \A p \in Pages :
              /\ page'[p].at = page[p].at /\ page'[p].buf = page[p].buf
              /\ page'[p].shown = page[p].shown
         /\ \A p \in Pages, c \in Numbers :
              Behind(page[p], c) /\ (page[p].buf = b /\ e.kind = "render" => e.rev <= c)
              => /\ Behind(page'[p], c)
                 /\ Told(page[p], c) => Told(page'[p], c)
                 /\ page[p].at \in {"latest", "live"} /\ page[p].buf = b
                      /\ e.kind = "render" /\ e.rev = c => Told(page'[p], c)
<1> DEFINE fed(p) == page[p].at \in Registered /\ page[p].buf = b
<1>1. /\ page' = [p \in Pages |-> IF fed(p) THEN Offer(page[p], e) ELSE page[p]]
      /\ {"latest", "live"} \subseteq Registered
  BY DEF Broadcast, Registered
<1>2. SUFFICES ASSUME NEW p \in Pages
               PROVE  /\ page'[p] \in Browsers /\ page'[p].at = page[p].at
                      /\ page'[p].buf = page[p].buf /\ page'[p].shown = page[p].shown
                      /\ \A c \in Numbers :
                           Behind(page[p], c) /\ (page[p].buf = b /\ e.kind = "render" => e.rev <= c)
                           => /\ Behind(page'[p], c)
                              /\ Told(page[p], c) => Told(page'[p], c)
                              /\ page[p].at \in {"latest", "live"} /\ page[p].buf = b
                                   /\ e.kind = "render" /\ e.rev = c => Told(page'[p], c)
  BY <1>1
<1>3. CASE fed(p)
  <2>1. page'[p] = Offer(page[p], e) /\ page[p].buf = b BY <1>1, <1>3
  <2>2. page[p] \in Browsers OBVIOUS
  <2> QED BY <2>1, <2>2, OfferTypes, OfferFacts
<1>4. CASE ~fed(p)
  BY <1>1, <1>4
<1> QED BY <1>3, <1>4

(* The block at the cursor follows the render: the event that tells the revision is the
   first of two. *)
LEMMA BroadcastTwo ==
  ASSUME page \in [Pages -> Browsers], NEW b, NEW e \in Events, NEW n \in Events,
         n.kind = "nav", Broadcast(b, <<e, n>>)
  PROVE  /\ page' \in [Pages -> Browsers]
         /\ \A p \in Pages :
              /\ page'[p].at = page[p].at /\ page'[p].buf = page[p].buf
              /\ page'[p].shown = page[p].shown
         /\ \A p \in Pages, c \in Numbers :
              Behind(page[p], c) /\ (page[p].buf = b /\ e.kind = "render" => e.rev <= c)
              => /\ Behind(page'[p], c)
                 /\ Told(page[p], c) => Told(page'[p], c)
                 /\ page[p].at \in {"latest", "live"} /\ page[p].buf = b
                      /\ e.kind = "render" /\ e.rev = c => Told(page'[p], c)
<1> DEFINE fed(p) == page[p].at \in Registered /\ page[p].buf = b
<1>1. /\ page' = [p \in Pages |-> IF fed(p) THEN Offer(Offer(page[p], e), n) ELSE page[p]]
      /\ {"latest", "live"} \subseteq Registered
  BY DEF Broadcast, Registered
<1>2. SUFFICES ASSUME NEW p \in Pages
               PROVE  /\ page'[p] \in Browsers /\ page'[p].at = page[p].at
                      /\ page'[p].buf = page[p].buf /\ page'[p].shown = page[p].shown
                      /\ \A c \in Numbers :
                           Behind(page[p], c) /\ (page[p].buf = b /\ e.kind = "render" => e.rev <= c)
                           => /\ Behind(page'[p], c)
                              /\ Told(page[p], c) => Told(page'[p], c)
                              /\ page[p].at \in {"latest", "live"} /\ page[p].buf = b
                                   /\ e.kind = "render" /\ e.rev = c => Told(page'[p], c)
  BY <1>1
<1>3. CASE fed(p)
  <2> DEFINE h == Offer(page[p], e)
  <2>1. page'[p] = Offer(h, n) /\ page[p].buf = b BY <1>1, <1>3
  <2>3. page[p] \in Browsers OBVIOUS
  <2>4. /\ h \in Browsers /\ h.at = page[p].at /\ h.buf = page[p].buf /\ h.shown = page[p].shown
    BY <2>3, OfferTypes
  <2> HIDE DEF h
  <2>5. ASSUME NEW c \in Numbers, Behind(page[p], c), e.kind = "render" => e.rev <= c
        PROVE  /\ Behind(h, c)
               /\ Told(page[p], c) => Told(h, c)
               /\ e.kind = "render" /\ e.rev = c => Told(h, c)
    BY <2>3, <2>5, OfferFacts DEF h
  <2>6. ASSUME NEW c \in Numbers, Behind(h, c)
        PROVE  Behind(Offer(h, n), c) /\ (Told(h, c) => Told(Offer(h, n), c))
    BY <2>4, <2>6, OfferFacts
  <2> QED BY <2>1, <2>4, <2>5, <2>6, OfferTypes
<1>4. CASE ~fed(p)
  BY <1>1, <1>4
<1> QED BY <1>3, <1>4

-----------------------------------------------------------------------------
(* Emacs's side *)

(* The helpers of the client change flags, never what the properties are about. *)
LEMMA LocalFacts ==
  ASSUME NEW e \in Locals
  PROVE  /\ \A f \in {Scheduled(e), Connected(e), AfterUpdate(e)} :
              f \in Locals /\ f.rev = e.rev /\ f.view = e.view /\ f.overlapped = e.overlapped
         /\ \A ok \in BOOLEAN :
              /\ Responded(e, ok) \in Locals /\ Responded(e, ok).rev = e.rev
              /\ Responded(e, ok).view = e.view /\ Responded(e, ok).overlapped = e.overlapped
<1>1. ASSUME NEW e2 \in Locals
      PROVE  /\ Scheduled(e2) \in Locals /\ Scheduled(e2).rev = e2.rev
             /\ Scheduled(e2).view = e2.view /\ Scheduled(e2).overlapped = e2.overlapped
  BY DEF Scheduled, Locals
<1>2. /\ [e EXCEPT !.pending = e.pending /\ e.view = NoView] \in Locals
      /\ [e EXCEPT !.navTimer = TRUE] \in Locals
  BY DEF Locals
<1>3. /\ Connected(e) \in Locals /\ Connected(e).rev = e.rev
      /\ Connected(e).view = e.view /\ Connected(e).overlapped = e.overlapped
  BY <1>1, <1>2 DEF Connected, Locals
<1>4. /\ AfterUpdate(e) \in Locals /\ AfterUpdate(e).rev = e.rev
      /\ AfterUpdate(e).view = e.view /\ AfterUpdate(e).overlapped = e.overlapped
  BY <1>1, <1>2 DEF AfterUpdate, Locals
<1>5. ASSUME NEW ok \in BOOLEAN
      PROVE  /\ Responded(e, ok) \in Locals /\ Responded(e, ok).rev = e.rev
             /\ Responded(e, ok).view = e.view /\ Responded(e, ok).overlapped = e.overlapped
  BY DEF Responded, Locals
<1> QED BY <1>1, <1>3, <1>4, <1>5

(* A page that browse-url opens. *)
NewPage(b, v) == [Closed EXCEPT !.at = "idle", !.buf = b, !.view = v]

LEMMA NewPageFacts ==
  /\ Closed \in Browsers /\ Closed.at = "none" /\ Closed.shown = 0
  /\ \A c \in Numbers : Behind(Closed, c)
  /\ \A b \in Buffers, v \in Numbers :
       /\ NewPage(b, v) \in Browsers /\ NewPage(b, v).at = "idle"
       /\ NewPage(b, v).buf = b /\ NewPage(b, v).shown = 0
       /\ \A c \in Numbers : Behind(NewPage(b, v), c)
<1>1. (CHOOSE b \in Buffers : TRUE) \in Buffers BY ServerAssumption
<1>2. 0 \in Numbers /\ <<>> \in Seq(Events) /\ Renders(<<>>) = {} /\ NoView \in Numbers
      /\ \A c \in Numbers : 0 <= c
  BY ServerAssumption DEF Numbers, NoView, Renders
<1>3. /\ Closed \in Browsers /\ Closed.at = "none" /\ Closed.shown = 0 /\ Closed.missed = 0
      /\ Closed.latest = 0 /\ Closed.queue = <<>>
  BY <1>1, <1>2 DEF Closed, Browsers
<1>4. ASSUME NEW b \in Buffers, NEW v \in Numbers
      PROVE  /\ NewPage(b, v) \in Browsers /\ NewPage(b, v).at = "idle"
             /\ NewPage(b, v).buf = b /\ NewPage(b, v).shown = 0
             /\ NewPage(b, v).missed = 0 /\ NewPage(b, v).latest = 0
             /\ NewPage(b, v).queue = <<>>
  BY <1>3 DEF NewPage, Browsers
<1> QED BY <1>2, <1>3, <1>4 DEF Behind

LEMMA BrowseFacts ==
  ASSUME page \in [Pages -> Browsers], NEW b \in Buffers, NEW v \in Numbers, Browse(b, v)
  PROVE  \/ page' = page
         \/ \E p \in Pages : page[p].at = "none" /\ page' = [page EXCEPT ![p] = NewPage(b, v)]
<1>1. CASE Free = {} BY <1>1 DEF Browse
<1>2. CASE Free # {}
  <2>1. (CHOOSE p \in Free : TRUE) \in Free BY <1>2
  <2> QED BY <1>2, <2>1 DEF Browse, Free, NewPage
<1> QED BY <1>1, <1>2
-----------------------------------------------------------------------------
(* What leaves the invariant alone *)

\* The part of the state LiveView speaks of stays, or takes a step of LiveView.
Viewed == LV!Next \/ UNCHANGED LV!vars

Goal == PreviewInv' /\ Viewed

LEMMA SameView ==
  ASSUME \A b \in Buffers : buf'[b].rev = buf[b].rev,
         \A p \in Pages : page'[p].buf = page[p].buf /\ page'[p].shown = page[p].shown
  PROVE  Viewed
<1>1. /\ [b \in Buffers |-> buf'[b].rev] = [b \in Buffers |-> buf[b].rev]
      /\ [p \in Pages |-> page'[p].buf] = [p \in Pages |-> page[p].buf]
      /\ [p \in Pages |-> page'[p].shown] = [p \in Pages |-> page[p].shown]
  OBVIOUS
<1> QED BY <1>1 DEF Viewed, LV!vars

LEMMA PagesAlone ==
  ASSUME PreviewInv, UNCHANGED <<buf, page>>,
         \A b \in Buffers : Announcing(b) => Announcing(b)'
  PROVE  Viewed /\ \A p \in Pages : PageInv(p)'
<1>1. Viewed BY SameView
<1>2. page \in [Pages -> Browsers] BY DEF PreviewInv, PreviewTypes
<1>3. ASSUME NEW p \in Pages PROVE PageInv(p)'
  <2>1. PageInv(p) /\ page[p].buf \in Buffers BY <1>2 DEF PreviewInv, Browsers
  <2> QED BY <2>1 DEF PageInv
<1> QED BY <1>1, <1>3

(* A page is opened, or nothing happens to the pages. *)
LEMMA BrowsingFacts ==
  ASSUME PreviewInv, UNCHANGED <<buf, handler>>,
         page' = page \/ \E b \in Buffers, v \in Numbers : Browse(b, v)
  PROVE  Viewed /\ page' \in [Pages -> Browsers] /\ \A p \in Pages : PageInv(p)'
<1>1. page \in [Pages -> Browsers] /\ \A b \in Buffers : Announcing(b) => Announcing(b)'
  BY DEF PreviewInv, PreviewTypes, Announcing
<1>2. CASE page' = page BY <1>1, <1>2, PagesAlone
<1>3. ASSUME NEW b \in Buffers, NEW v \in Numbers, NEW q \in Pages, page[q].at = "none",
             page' = [page EXCEPT ![q] = NewPage(b, v)]
      PROVE  Viewed /\ page' \in [Pages -> Browsers] /\ \A p \in Pages : PageInv(p)'
  <2> DEFINE g == NewPage(b, v)
  <2>1. /\ g \in Browsers /\ g.at = "idle" /\ g.buf = b /\ g.shown = 0
        /\ \A c \in Numbers : Behind(g, c)
    BY NewPageFacts
  <2> HIDE DEF g
  <2>2. page' = [page EXCEPT ![q] = g] BY <1>3 DEF g
  <2>3. page' \in [Pages -> Browsers] /\ page'[q] = g /\ \A p \in Pages \ {q} : page'[p] = page[p]
    BY <1>1, <2>1, <2>2
  <2>4. page[q].shown = 0 BY <1>3 DEF PreviewInv, PageInv, Behind
  <2>5. Viewed
    <3>1. /\ [p \in Pages |-> page'[p].buf] = [[p \in Pages |-> page[p].buf] EXCEPT ![q] = b]
          /\ [p \in Pages |-> page'[p].shown] = [p \in Pages |-> page[p].shown]
          /\ [c \in Buffers |-> buf'[c].rev] = [c \in Buffers |-> buf[c].rev]
      BY <2>1, <2>3, <2>4
    <3>2. LV!Open(q, b) BY <2>4, <3>1 DEF LV!Open
    <3> QED BY <3>2 DEF Viewed, LV!Next
  <2>6. ASSUME NEW p \in Pages PROVE PageInv(p)'
    <3>1. CASE p = q
      <4>1. buf[b].rev \in Numbers BY DEF PreviewInv, PreviewTypes, Held
      <4> QED BY <2>1, <2>3, <3>1, <4>1 DEF PageInv
    <3>2. CASE p # q
      <4>1. PageInv(p) /\ page'[p] = page[p] /\ page[p].buf \in Buffers
        BY <1>1, <2>3, <3>2 DEF PreviewInv, Browsers
      <4> QED BY <1>1, <4>1 DEF PageInv
    <3> QED BY <3>1, <3>2
  <2> QED BY <2>3, <2>5, <2>6
<1>4. ASSUME NEW b \in Buffers, NEW v \in Numbers, Browse(b, v)
      PROVE  \/ page' = page
             \/ \E q \in Pages : page[q].at = "none" /\ page' = [page EXCEPT ![q] = NewPage(b, v)]
  BY <1>1, <1>4, BrowseFacts
<1> QED BY <1>2, <1>3, <1>4

(* A buffer of which nothing happens that the properties are about. *)
LEMMA BufferAlone ==
  ASSUME PreviewInv, NEW b \in Buffers,
         buf'[b] = buf[b], handler'[b] = handler[b], answers'[b] = answers[b],
         em'[b].rev = em[b].rev, em'[b].view = em[b].view, em'[b].overlapped = em[b].overlapped
  PROVE  RevisionInv(b)' /\ ViewInv(b)'
<1>1. RevisionInv(b) /\ ViewInv(b) BY DEF PreviewInv
<1>2. \A a : TakenView(em'[b], a) = TakenView(em[b], a) BY DEF TakenView
<1>3. RevisionInv(b)' BY <1>1 DEF RevisionInv
<1>4. ViewInv(b)' BY <1>1, <1>2 DEF ViewInv
<1> QED BY <1>3, <1>4
-----------------------------------------------------------------------------
(* Steps of Emacs that send no update *)

\* em[b] got e, which differs from it in flags and text only.
Touched(b, e) ==
  /\ em' = [em EXCEPT ![b] = e]
  /\ e \in Locals /\ e.rev = em[b].rev /\ e.view = em[b].view /\ e.overlapped = em[b].overlapped

LEMMA TouchedFacts ==
  ASSUME PreviewInv, NEW b \in Buffers, NEW e, Touched(b, e)
  PROVE  /\ em' \in [Buffers -> Locals]
         /\ \A c \in Buffers : /\ em'[c].rev = em[c].rev /\ em'[c].view = em[c].view
                               /\ em'[c].overlapped = em[c].overlapped
BY DEF PreviewInv, PreviewTypes, Touched

\* Nothing of the server but its pages changed, and only flags and texts of Emacs.
LEMMA FlagStep ==
  ASSUME PreviewInv, UNCHANGED <<buf, handler, answers>>,
         nav' \in [Buffers -> Cursor], em' \in [Buffers -> Locals],
         server' \in {"none", "starting", "up", "dead"}, port' \in BOOLEAN, disturbances' \in Nat,
         \A c \in Buffers : /\ em'[c].rev = em[c].rev /\ em'[c].view = em[c].view
                            /\ em'[c].overlapped = em[c].overlapped,
         page' = page \/ \E b \in Buffers, v \in Numbers : Browse(b, v)
  PROVE  Goal
<1>1. Viewed /\ page' \in [Pages -> Browsers] /\ \A p \in Pages : PageInv(p)' BY BrowsingFacts
<1>2. \A b \in Buffers : RevisionInv(b)' /\ ViewInv(b)' BY BufferAlone
<1>3. PreviewTypes' BY <1>1 DEF PreviewInv, PreviewTypes
<1> QED BY <1>1, <1>2, <1>3 DEF Goal, PreviewInv

LEMMA EnsureFacts ==
  ASSUME PreviewInv, NEW b \in Buffers, NEW e \in Locals, EnsureServer(b, e),
         e.rev = em[b].rev, e.view = em[b].view, e.overlapped = em[b].overlapped
  PROVE  /\ Touched(b, e) \/ Touched(b, Connected(e))
         /\ page' = page \/ \E c \in Buffers, v \in Numbers : Browse(c, v)
         /\ server' \in {"none", "starting", "up", "dead"}
<1>1. /\ Connected(e) \in Locals /\ Connected(e).rev = e.rev /\ Connected(e).view = e.view
      /\ Connected(e).overlapped = e.overlapped
  BY LocalFacts
<1>2. em[b].view \in Numbers BY DEF PreviewInv, PreviewTypes, Locals
<1>3. BrowsePending(b) => page' = page \/ \E c \in Buffers, v \in Numbers : Browse(c, v)
  BY <1>2 DEF BrowsePending
<1>4. server \in {"none", "starting", "up", "dead"} BY DEF PreviewInv, PreviewTypes
<1> QED BY <1>1, <1>3, <1>4 DEF EnsureServer, Touched

LEMMA UserFlagSteps ==
  ASSUME PreviewInv, NEW b \in Buffers,
         Enable(b) \/ Edit(b) \/ CursorMoves(b) \/ OpenBrowser(b) \/ SkipUpdate(b)
           \/ SendNavigation(b) \/ Reconnect(b) \/ NavigationCallback(b)
  PROVE  Goal
<1>0. /\ em[b] \in Locals /\ em[b].rev \in Numbers /\ em[b].view \in Numbers
      /\ nav \in [Buffers -> Cursor] /\ em \in [Buffers -> Locals] /\ disturbances \in Nat
      /\ server \in {"none", "starting", "up", "dead"} /\ port \in BOOLEAN
  BY DEF PreviewInv, PreviewTypes, Locals
<1>1. Disturb => disturbances' \in Nat BY <1>0 DEF Disturb
<1>2. CASE Enable(b)
  <2> DEFINE e == [em[b] EXCEPT !.mode = TRUE]
  <2>1. /\ Scheduled(e) \in Locals /\ Scheduled(e).rev = em[b].rev
        /\ Scheduled(e).view = em[b].view /\ Scheduled(e).overlapped = em[b].overlapped
    <3>1. e \in Locals /\ e.rev = em[b].rev /\ e.view = em[b].view /\ e.overlapped = em[b].overlapped
      BY <1>0 DEF Locals
    <3> HIDE DEF e
    <3> QED BY <3>1, LocalFacts
  <2>2. /\ EnsureServer(b, Scheduled(e)) /\ disturbances' \in Nat
        /\ UNCHANGED <<buf, handler, answers, nav, port>>
    BY <1>0, <1>1, <1>2 DEF Enable
  <2> HIDE DEF e
  <2> QED BY <1>0, <2>1, <2>2, EnsureFacts, TouchedFacts, FlagStep
<1>3. CASE Edit(b)
  <2> DEFINE e == [em[b] EXCEPT !.text = em[b].text + 1]
  <2>1. e \in Locals /\ e.rev = em[b].rev /\ e.view = em[b].view /\ e.overlapped = em[b].overlapped
    BY <1>0 DEF Locals
  <2>2. /\ em' = [em EXCEPT ![b] = IF e.mode THEN Scheduled(e) ELSE e]
        /\ UNCHANGED <<serverVars, server, port, disturbances>>
    BY <1>3 DEF Edit
  <2> HIDE DEF e
  <2>3. Touched(b, IF e.mode THEN Scheduled(e) ELSE e) BY <2>1, <2>2, LocalFacts DEF Touched
  <2> QED BY <1>0, <2>2, <2>3, TouchedFacts, FlagStep DEF serverVars
<1>4. CASE CursorMoves(b)
  <2>1. Touched(b, [em[b] EXCEPT !.navTimer = TRUE]) BY <1>0, <1>4 DEF CursorMoves, Touched, Locals
  <2> QED BY <1>0, <1>1, <1>4, <2>1, TouchedFacts, FlagStep DEF CursorMoves, serverVars
<1>5. CASE OpenBrowser(b)
  <2>1. page' = page \/ \E c \in Buffers, v \in Numbers : Browse(c, v)
    BY <1>0, <1>5 DEF OpenBrowser
  <2>2. Touched(b, em[b]) \/ Touched(b, [em[b] EXCEPT !.pending = TRUE])
    BY <1>0, <1>5 DEF OpenBrowser, Touched, Locals
  <2> QED BY <1>0, <1>5, <2>1, <2>2, TouchedFacts, FlagStep DEF OpenBrowser
<1>6. CASE SkipUpdate(b)
  <2>1. Touched(b, [em[b] EXCEPT !.timer = FALSE]) BY <1>0, <1>6 DEF SkipUpdate, Touched, Locals
  <2> QED BY <1>0, <1>6, <2>1, TouchedFacts, FlagStep DEF SkipUpdate, serverVars
<1>7. CASE SendNavigation(b)
  <2>1. Touched(b, [em[b] EXCEPT !.navTimer = FALSE])
    BY <1>0, <1>7 DEF SendNavigation, Touched, Locals
  <2>2. nav' \in [Buffers -> Cursor]
    BY <1>0, <1>7 DEF SendNavigation, PostNavigation, Cursor
  <2> QED BY <1>0, <1>7, <2>1, <2>2, TouchedFacts, FlagStep DEF SendNavigation
<1>8. CASE Reconnect(b)
  <2> DEFINE e == [em[b] EXCEPT !.reconnect = FALSE]
  <2>1. e \in Locals /\ e.rev = em[b].rev /\ e.view = em[b].view /\ e.overlapped = em[b].overlapped
    BY <1>0 DEF Locals
  <2>2. /\ EnsureServer(b, e)
        /\ UNCHANGED <<buf, handler, answers, nav, port, disturbances>>
    BY <1>8 DEF Reconnect
  <2> HIDE DEF e
  <2> QED BY <1>0, <2>1, <2>2, EnsureFacts, TouchedFacts, FlagStep
<1>9. CASE NavigationCallback(b)
  <2>1. (nav[b].at = "ok") \in BOOLEAN OBVIOUS
  <2>2. Touched(b, Responded(em[b], nav[b].at = "ok"))
    BY <1>0, <1>9, <2>1, LocalFacts DEF NavigationCallback, Touched
  <2>3. NoNav \in Cursor BY ServerAssumption DEF NoNav, Cursor, Numbers
  <2>4. nav' \in [Buffers -> Cursor] BY <1>0, <1>9, <2>3 DEF NavigationCallback
  <2> QED BY <1>0, <1>9, <2>2, <2>4, TouchedFacts, FlagStep DEF NavigationCallback
<1> QED BY <1>2, <1>3, <1>4, <1>5, <1>6, <1>7, <1>8, <1>9

(* The bootstrap line of the server and the sentinel reach every buffer. *)
LEMMA ServerNews ==
  ASSUME PreviewInv, Bootstrap \/ Sentinel
  PROVE  Goal
<1>0. /\ em \in [Buffers -> Locals] /\ nav \in [Buffers -> Cursor] /\ disturbances \in Nat
      /\ \A b \in Buffers : em[b].view \in Numbers
  BY DEF PreviewInv, PreviewTypes, Locals
<1>1. CASE Bootstrap
  <2>1. em' = [b \in Buffers |-> IF em[b].mode THEN Connected(em[b]) ELSE em[b]]
    BY <1>1 DEF Bootstrap
  <2>2. \A b \in Buffers : /\ em'[b] \in Locals /\ em'[b].rev = em[b].rev
                           /\ em'[b].view = em[b].view /\ em'[b].overlapped = em[b].overlapped
    BY <1>0, <2>1, LocalFacts
  <2>3. em' \in [Buffers -> Locals] BY <2>1, <2>2
  <2>4. page' = page \/ \E c \in Buffers, v \in Numbers : Browse(c, v)
    BY <1>0, <1>1 DEF Bootstrap, On
  <2> QED BY <1>0, <1>1, <2>2, <2>3, <2>4, FlagStep DEF Bootstrap
<1>2. CASE Sentinel
  <2>1. em' = [b \in Buffers |-> [em[b] EXCEPT !.failed = em[b].failed \/ em[b].mode]]
    BY <1>2 DEF Sentinel
  <2>2. \A b \in Buffers : /\ em'[b] \in Locals /\ em'[b].rev = em[b].rev
                           /\ em'[b].view = em[b].view /\ em'[b].overlapped = em[b].overlapped
    BY <1>0, <2>1 DEF Locals
  <2>3. em' \in [Buffers -> Locals] BY <2>1, <2>2
  <2> QED BY <1>0, <1>2, <2>2, <2>3, FlagStep DEF Sentinel, serverVars
<1> QED BY <1>1, <1>2
-----------------------------------------------------------------------------
(* Updates *)

LEMMA HandlerChange ==
  ASSUME PreviewInv, NEW b \in Buffers, NEW r \in Revisions, NEW x \in Handling,
         handler' = [handler EXCEPT ![b][r] = x]
  PROVE  /\ handler' \in [Buffers -> [Revisions -> Handling]]
         /\ handler'[b][r] = x
         /\ \A s \in Revisions \ {r} : handler'[b][s] = handler[b][s]
         /\ \A c \in Buffers \ {b} : handler'[c] = handler[c]
<1>1. handler \in [Buffers -> [Revisions -> Handling]] BY DEF PreviewInv, PreviewTypes
<1> QED BY <1>1

LEMMA HandlerForms ==
  /\ Done \in Handling /\ Unsent \in Handling
  /\ \A h \in Handling : /\ [h EXCEPT !.at = "parsing"] \in Handling
                         /\ [h EXCEPT !.at = "announcing"] \in Handling
  /\ Answered(Done) /\ Answered(Unsent) /\ Done.at = "done" /\ Unsent.at = "unsent"
BY ServerAssumption DEF Done, Unsent, Handling, Numbers, NoView, Answered

\* The handler of one revision changes, and with it what is answered.
LEMMA UpdateStep ==
  ASSUME PreviewInv, NEW b \in Buffers, NEW r \in Revisions, NEW x \in Handling,
         handler' = [handler EXCEPT ![b][r] = x],
         handler[b][r].at # "announcing",
         NEW e \in Locals, em' = [em EXCEPT ![b] = e],
         NEW A \in SUBSET Replies, answers' = [answers EXCEPT ![b] = A],
         UNCHANGED <<buf, page, nav, server, port>>, disturbances' \in Nat,
         RevisionInv(b)', ViewInv(b)'
  PROVE  Goal
<1>0. /\ answers \in [Buffers -> SUBSET Replies] /\ em \in [Buffers -> Locals]
      /\ buf \in [Buffers -> Held]
  BY DEF PreviewInv, PreviewTypes
<1>1. /\ handler' \in [Buffers -> [Revisions -> Handling]]
      /\ \A s \in Revisions \ {r} : handler'[b][s] = handler[b][s]
      /\ \A c \in Buffers \ {b} : handler'[c] = handler[c]
  BY HandlerChange
<1>2. \A c \in Buffers \ {b} : answers'[c] = answers[c] /\ em'[c] = em[c] BY <1>0
<1>3. answers' \in [Buffers -> SUBSET Replies] /\ em' \in [Buffers -> Locals] BY <1>0
<1>4. \A c \in Buffers : RevisionInv(c)' /\ ViewInv(c)' BY <1>1, <1>2, BufferAlone
<1>5. \A c \in Buffers : Announcing(c) => Announcing(c)' BY <1>1 DEF Announcing
<1>6. Viewed /\ \A p \in Pages : PageInv(p)' BY <1>5, PagesAlone
<1>7. PreviewTypes' BY <1>1, <1>3 DEF PreviewInv, PreviewTypes
<1> QED BY <1>4, <1>6, <1>7 DEF Goal, PreviewInv

LEMMA UpdateSent ==
  ASSUME PreviewInv, NEW b \in Buffers, SendUpdate(b)
  PROVE  Goal
<1> DEFINE r == em[b].rev + 1
<1> DEFINE e == [em[b] EXCEPT !.timer = FALSE, !.sending = TRUE, !.dirty = FALSE,
                              !.rev = em[b].rev + 1, !.unsent = FALSE,
                              !.overlapped = em[b].overlapped \/ Outstanding(b)]
<1>0. /\ em \in [Buffers -> Locals] /\ em[b] \in Locals /\ answers \in [Buffers -> SUBSET Replies]
      /\ em[b].text \in Nat /\ em[b].rev \in 0 .. MaxRevision /\ em[b].rev < MaxRevision
      /\ RevisionInv(b) /\ ViewInv(b) /\ MaxRevision \in Nat
      /\ handler[b] \in [Revisions -> Handling]
  BY ServerAssumption DEF PreviewInv, PreviewTypes, Locals, Numbers, SendUpdate
<1>1. r \in Revisions /\ r \in Numbers /\ handler[b][r].at = "unsent"
  BY <1>0 DEF Revisions, Numbers, RevisionInv
<1>2. Outstanding(b) \in BOOLEAN BY DEF Outstanding
<1>3. /\ e \in Locals /\ e.rev = r /\ e.view = em[b].view
      /\ e.overlapped = (em[b].overlapped \/ Outstanding(b))
  BY <1>0, <1>1, <1>2 DEF Locals
<1>4. PICK x \in Handling, A \in SUBSET Replies :
        /\ handler' = [handler EXCEPT ![b][r] = x]
        /\ answers' = [answers EXCEPT ![b] = A]
        /\ \/ x.at = "posted" /\ A = answers[b]
           \/ x.at = "done" /\ A = answers[b] \cup {[rev |-> r, view |-> NoView, ok |-> FALSE]}
  <2>1. CASE server = "dead"
    <3>1. [rev |-> r, view |-> NoView, ok |-> FALSE] \in Replies
      BY <1>1, ServerAssumption DEF Replies, Numbers, NoView
    <3> QED BY <1>0, <2>1, <3>1, HandlerForms DEF SendUpdate, Answer
  <2>2. CASE server # "dead"
    <3>1. [at |-> "posted", view |-> NoView, text |-> em[b].text] \in Handling
      BY <1>0, ServerAssumption DEF Handling, Numbers, NoView
    <3>2. /\ handler' = [handler EXCEPT ![b][r] =
                           [at |-> "posted", view |-> NoView, text |-> em[b].text]]
          /\ answers' = answers
      BY <2>2 DEF SendUpdate, PostRevision
    <3>3. answers = [answers EXCEPT ![b] = answers[b]] BY <1>0
    <3>4. answers[b] \in SUBSET Replies BY <1>0
    <3> QED BY <3>1, <3>2, <3>3, <3>4
  <2> QED BY <2>1, <2>2
<1>5. em' = [em EXCEPT ![b] = e] /\ UNCHANGED <<buf, nav, page, server, port, disturbances>>
  BY DEF SendUpdate
<1>6. disturbances' \in Nat BY <1>5 DEF PreviewInv, PreviewTypes
<1> HIDE DEF e
<1>7. /\ handler'[b][r] = x /\ \A s \in Revisions \ {r} : handler'[b][s] = handler[b][s]
      /\ answers'[b] = A /\ em'[b] = e
  <2> HIDE DEF r
  <2>1. handler' = [handler EXCEPT ![b][r] = x] BY <1>4
  <2>2. handler'[b][r] = x /\ \A s \in Revisions \ {r} : handler'[b][s] = handler[b][s]
    BY <1>1, <2>1, HandlerChange
  <2> QED BY <1>0, <1>4, <1>5, <2>2
<1>8. RevisionInv(b)'
  <2>1. \A s \in Revisions : r < s => s # r /\ em[b].rev < s
    BY <1>0 DEF Revisions
  <2> HIDE DEF r
  <2> QED BY <1>0, <1>1, <1>3, <1>4, <1>5, <1>7, <2>1 DEF RevisionInv
<1>9. ViewInv(b)'
  <2> SUFFICES ASSUME ~em'[b].overlapped PROVE ViewInv(b)'
    BY DEF ViewInv
  <2>1. answers[b] = {} /\ ~em[b].overlapped /\ \A s \in Revisions : Answered(handler[b][s])
    BY <1>3, <1>7 DEF Outstanding
  <2> HIDE DEF r
  <2>2. \A s \in Revisions \ {r} : Answered(handler'[b][s]) BY <1>7, <2>1
  <2>3. A # {} => A = {[rev |-> r, view |-> NoView, ok |-> FALSE]} /\ Answered(handler'[b][r])
    BY <1>4, <1>7, <2>1 DEF Answered
  <2>4. handler'[b][r].at # "rendered" BY <1>4, <1>7
  <2>5. \A s \in Revisions : handler'[b][s].at # "rendered" BY <2>2, <2>4 DEF Answered
  <2>6. \A a \in A : TakenView(em'[b], a) = em'[b].view /\ em'[b].view = em[b].view
    BY <1>3, <1>7, <2>3 DEF TakenView
  <2>7. buf[b].rev # 0 => em[b].view = buf[b].view BY <1>0, <2>1 DEF ViewInv
  <2> QED BY <1>3, <1>5, <1>7, <2>2, <2>3, <2>5, <2>6, <2>7 DEF ViewInv
<1> HIDE DEF r
<1> QED BY <1>1, <1>3, <1>4, <1>5, <1>6, <1>8, <1>9, UpdateStep
LEMMA UpdateUnsent ==
  ASSUME PreviewInv, NEW b \in Buffers, SendFails(b)
  PROVE  Goal
<1> DEFINE r == em[b].rev + 1
<1> DEFINE e == [em[b] EXCEPT !.timer = FALSE, !.dirty = FALSE, !.rev = em[b].rev + 1,
                              !.failed = TRUE, !.unsent = TRUE]
<1>0. /\ em \in [Buffers -> Locals] /\ em[b] \in Locals /\ answers \in [Buffers -> SUBSET Replies]
      /\ em[b].rev \in 0 .. MaxRevision /\ em[b].rev < MaxRevision
      /\ RevisionInv(b) /\ ViewInv(b) /\ MaxRevision \in Nat /\ disturbances \in Nat
      /\ handler[b] \in [Revisions -> Handling]
  BY ServerAssumption DEF PreviewInv, PreviewTypes, Locals, Numbers, SendFails
<1>1. r \in Revisions /\ r \in Numbers /\ handler[b][r].at = "unsent"
  BY <1>0 DEF Revisions, Numbers, RevisionInv
<1>2. e \in Locals /\ e.rev = r /\ e.view = em[b].view /\ e.overlapped = em[b].overlapped
  BY <1>0, <1>1 DEF Locals
<1>3. /\ handler' = [handler EXCEPT ![b][r] = Done] /\ em' = [em EXCEPT ![b] = e]
      /\ UNCHANGED <<buf, page, nav, server, port, answers>> /\ disturbances' \in Nat
  BY <1>0 DEF SendFails, Disturb
<1>4. \A s \in Revisions : r < s => s # r /\ em[b].rev < s
  BY <1>0 DEF Revisions
<1> HIDE DEF e, r
<1>5. /\ handler'[b][r] = Done /\ \A s \in Revisions \ {r} : handler'[b][s] = handler[b][s]
  BY <1>1, <1>3, HandlerChange, HandlerForms
<1>6. answers' = [answers EXCEPT ![b] = answers[b]] /\ answers[b] \in SUBSET Replies
      /\ em'[b] = e /\ answers'[b] = answers[b]
  BY <1>0, <1>3
<1>7. RevisionInv(b)'
  BY <1>0, <1>1, <1>2, <1>3, <1>4, <1>5, <1>6, HandlerForms DEF RevisionInv
<1>8. ViewInv(b)'
  <2> SUFFICES ASSUME ~em'[b].overlapped PROVE ViewInv(b)'
    BY DEF ViewInv
  <2>1. \A s \in Revisions : ~Answered(handler'[b][s]) => handler'[b][s] = handler[b][s]
    BY <1>5, HandlerForms
  <2>2. \A s \in Revisions : handler'[b][s].at = "rendered" => handler'[b][s] = handler[b][s]
    BY <1>5, HandlerForms
  <2>3. \A a : TakenView(em'[b], a) = TakenView(em[b], a) BY <1>2, <1>6 DEF TakenView
  <2> QED BY <1>0, <1>2, <1>3, <1>6, <2>1, <2>2, <2>3 DEF ViewInv
<1> QED BY <1>1, <1>2, <1>3, <1>6, <1>7, <1>8, UpdateStep, HandlerForms

(* While a handler of b is out and none overlapped, it is the only thing out. *)
LEMMA OnlyOne ==
  ASSUME PreviewInv, NEW b \in Buffers, ~em[b].overlapped,
         NEW r \in Revisions, ~Answered(handler[b][r])
  PROVE  /\ answers[b] = {}
         /\ \A s \in Revisions \ {r} : Answered(handler[b][s])
         /\ buf[b].rev # 0 => em[b].view = buf[b].view
BY DEF PreviewInv, ViewInv

(* A revision that is refused or out of date is answered without a view. *)
LEMMA Refusal ==
  ASSUME PreviewInv, NEW b \in Buffers, NEW r \in Revisions, NEW ok \in BOOLEAN,
         handler[b][r].at \in {"posted", "parsing"}, Advance(b, r, "done"),
         Answer(b, [rev |-> r, view |-> NoView, ok |-> ok]),
         UNCHANGED <<buf, page, nav, em, server, port>>, disturbances' \in Nat
  PROVE  Goal
<1> DEFINE a == [rev |-> r, view |-> NoView, ok |-> ok]
<1> DEFINE A == answers[b] \cup {a}
<1>0. /\ em \in [Buffers -> Locals] /\ answers \in [Buffers -> SUBSET Replies]
      /\ RevisionInv(b) /\ ViewInv(b)
  BY DEF PreviewInv, PreviewTypes
<1>1. a \in Replies /\ a.view = NoView BY ServerAssumption DEF Replies, Numbers, NoView
<1>2. handler' = [handler EXCEPT ![b][r] = Done] /\ answers' = [answers EXCEPT ![b] = A]
  BY DEF Advance, Answer
<1> HIDE DEF a
<1>3. /\ A \in SUBSET Replies /\ em' = [em EXCEPT ![b] = em[b]] /\ em[b] \in Locals
      /\ answers'[b] = A
  BY <1>0, <1>1, <1>2
<1>4. /\ handler'[b][r] = Done /\ \A s \in Revisions \ {r} : handler'[b][s] = handler[b][s]
  BY <1>2, HandlerChange, HandlerForms
<1>5. RevisionInv(b)'
  BY <1>0, <1>4, HandlerForms DEF RevisionInv
<1>6. ViewInv(b)'
  <2> SUFFICES ASSUME ~em[b].overlapped PROVE ViewInv(b)'
    BY DEF ViewInv
  <2>1. ~Answered(handler[b][r]) BY DEF Answered
  <2>2. /\ answers[b] = {} /\ \A s \in Revisions \ {r} : Answered(handler[b][s])
        /\ buf[b].rev # 0 => em[b].view = buf[b].view
    BY <2>1, OnlyOne
  <2>3. A = {a} /\ \A s \in Revisions : Answered(handler'[b][s])
    BY <1>4, <2>2, HandlerForms
  <2>4. \A s \in Revisions : handler'[b][s].at # "rendered" BY <2>3 DEF Answered
  <2>5. TakenView(em[b], a) = em[b].view BY <1>1 DEF TakenView
  <2> QED BY <1>3, <2>2, <2>3, <2>4, <2>5 DEF ViewInv
<1> HIDE DEF A
<1>7. handler[b][r].at # "announcing" OBVIOUS
<1> QED BY <1>2, <1>3, <1>5, <1>6, <1>7, UpdateStep, HandlerForms

LEMMA HandlerAhead ==
  ASSUME PreviewInv, NEW b \in Buffers, NEW r \in Revisions,
         CheckRevision(b, r) \/ RenderRevision(b, r), UNCHANGED clientVars
  PROVE  Goal
<1>0. /\ em \in [Buffers -> Locals] /\ answers \in [Buffers -> SUBSET Replies]
      /\ RevisionInv(b) /\ ViewInv(b) /\ handler[b][r] \in Handling /\ buf[b] \in Held
      /\ disturbances' \in Nat /\ UNCHANGED <<em, server, port>>
  BY DEF PreviewInv, PreviewTypes, clientVars
<1>1. CASE CheckRevision(b, r) /\ r < buf[b].rev
  BY <1>0, <1>1, Refusal DEF CheckRevision
<1>2. ASSUME NEW x \in Handling, handler' = [handler EXCEPT ![b][r] = x],
             x.at \in {"parsing", "rendered"}, handler[b][r].at \in {"posted", "parsing"},
             x.at = "rendered" => x.view # NoView /\ (buf[b].rev # 0 => x.view = buf[b].view),
             UNCHANGED <<buf, answers, nav, page>>
      PROVE  Goal
  <2>1. /\ handler'[b][r] = x /\ \A s \in Revisions \ {r} : handler'[b][s] = handler[b][s]
    BY <1>2, HandlerChange
  <2>2. em' = [em EXCEPT ![b] = em[b]] /\ em[b] \in Locals
        /\ answers' = [answers EXCEPT ![b] = answers[b]] /\ answers[b] \in SUBSET Replies
    BY <1>0, <1>2
  <2>3. RevisionInv(b)' BY <1>0, <1>2, <2>1 DEF RevisionInv
  <2>4. ViewInv(b)'
    <3> SUFFICES ASSUME ~em[b].overlapped PROVE ViewInv(b)'
      BY <1>0 DEF ViewInv
    <3>1. ~Answered(handler[b][r]) BY <1>2 DEF Answered
    <3>2. /\ answers[b] = {} /\ \A s \in Revisions \ {r} : Answered(handler[b][s])
          /\ buf[b].rev # 0 => em[b].view = buf[b].view
      BY <3>1, OnlyOne
    <3>3. \A s \in Revisions \ {r} : Answered(handler'[b][s]) /\ handler'[b][s].at # "rendered"
      BY <2>1, <3>2 DEF Answered
    <3> QED BY <1>0, <1>2, <2>1, <3>2, <3>3 DEF ViewInv
  <2>5. handler[b][r].at # "announcing" BY <1>2
  <2> QED BY <1>0, <1>2, <2>2, <2>3, <2>4, <2>5, UpdateStep
<1>3. CASE CheckRevision(b, r) /\ ~(r < buf[b].rev)
  <2>1. /\ [handler[b][r] EXCEPT !.at = "parsing"] \in Handling
        /\ [handler[b][r] EXCEPT !.at = "parsing"].at = "parsing"
    BY <1>0, HandlerForms DEF Handling
  <2> QED BY <1>2, <1>3, <2>1 DEF CheckRevision, Advance
<1>4. CASE RenderRevision(b, r)
  <2> DEFINE v == IF buf[b].view # NoView THEN buf[b].view ELSE r
  <2> DEFINE x == [handler[b][r] EXCEPT !.at = "rendered", !.view = v]
  <2>1. v \in Numbers /\ v # NoView /\ (buf[b].rev # 0 => v = buf[b].view)
    BY <1>0, ServerAssumption DEF Held, Numbers, Revisions, NoView, RevisionInv
  <2>2. handler' = [handler EXCEPT ![b][r] = x]
    <3>1. handler \in [Buffers -> [Revisions -> Handling]] BY DEF PreviewInv, PreviewTypes
    <3> HIDE DEF v
    <3> QED BY <1>4, <3>1 DEF RenderRevision, v, Handling
  <2> HIDE DEF v
  <2>3. x \in Handling /\ x.at = "rendered" /\ x.view = v BY <1>0, <2>1 DEF Handling
  <2> HIDE DEF x
  <2> QED BY <1>2, <1>4, <2>1, <2>2, <2>3 DEF RenderRevision
<1> QED BY <1>1, <1>3, <1>4
(* The commit: the buffer's revision does not go back, and the pages are told by the handler
   that committed. *)
LEMMA Committing ==
  ASSUME PreviewInv, NEW b \in Buffers, NEW r \in Revisions,
         CommitRevision(b, r), UNCHANGED clientVars
  PROVE  Goal
<1> DEFINE h == handler[b][r]
<1> DEFINE a == [rev |-> r, view |-> h.view, ok |-> TRUE]
<1> DEFINE A == answers[b] \cup {a}
<1>0. /\ em \in [Buffers -> Locals] /\ answers \in [Buffers -> SUBSET Replies]
      /\ page \in [Pages -> Browsers] /\ buf \in [Buffers -> Held]
      /\ RevisionInv(b) /\ ViewInv(b) /\ h \in Handling /\ buf[b] \in Held
      /\ h.at = "rendered" /\ h.view # NoView /\ h.view \in Numbers
      /\ disturbances' \in Nat /\ UNCHANGED <<em, server, port, nav, page>>
      /\ answers' = [answers EXCEPT ![b] = A] /\ ~Answered(h)
  BY DEF PreviewInv, PreviewTypes, clientVars, CommitRevision, Answer, RevisionInv, Handling, Answered
<1>1. a \in Replies /\ a.view = h.view BY <1>0 DEF Replies
<1> HIDE DEF a
<1>2. /\ A \in SUBSET Replies /\ em' = [em EXCEPT ![b] = em[b]] /\ em[b] \in Locals
      /\ answers'[b] = A
  BY <1>0, <1>1
<1>3. ~em[b].overlapped => /\ A = {a} /\ \A s \in Revisions \ {r} : Answered(handler[b][s])
                           /\ buf[b].rev # 0 => h.view = buf[b].view
  BY <1>0, OnlyOne DEF ViewInv
<1>4. TakenView(em[b], a) = h.view BY <1>0, <1>1 DEF TakenView
<1> HIDE DEF A
<1>5. ASSUME Answered(handler'[b][r]), handler'[b][r].at # "rendered",
             \A s \in Revisions \ {r} : handler'[b][s] = handler[b][s],
             ~em[b].overlapped /\ buf'[b].rev # 0 => buf'[b].view = h.view
      PROVE  ViewInv(b)'
  <2> SUFFICES ASSUME ~em[b].overlapped PROVE ViewInv(b)'
    BY <1>0 DEF ViewInv
  <2>2. \A s \in Revisions : Answered(handler'[b][s]) /\ handler'[b][s].at # "rendered"
    BY <1>3, <1>5 DEF Answered
  <2> QED BY <1>0, <1>2, <1>3, <1>4, <1>5, <2>2 DEF ViewInv
<1>6. CASE r < buf[b].rev
  <2>1. handler' = [handler EXCEPT ![b][r] = Done] /\ buf' = buf
    BY <1>6 DEF CommitRevision, Advance
  <2>2. buf[b].rev # 0 /\ h.at # "announcing"
    BY <1>0, <1>6, ServerAssumption DEF Revisions, Held, Numbers
  <2>3. /\ handler'[b][r] = Done /\ \A s \in Revisions \ {r} : handler'[b][s] = handler[b][s]
    BY <2>1, HandlerChange, HandlerForms
  <2>4. ViewInv(b)' BY <1>3, <1>5, <2>1, <2>2, <2>3, HandlerForms
  <2>5. RevisionInv(b)' BY <1>0, <2>1, <2>3, HandlerForms DEF RevisionInv
  <2> QED BY <1>0, <1>2, <2>1, <2>2, <2>4, <2>5, UpdateStep, HandlerForms
<1>7. CASE ~(r < buf[b].rev)
  <2> DEFINE x == [h EXCEPT !.at = "announcing"]
  <2> DEFINE c == [rev |-> r, view |-> h.view, text |-> h.text]
  <2>1. handler' = [handler EXCEPT ![b][r] = x] /\ buf' = [buf EXCEPT ![b] = c]
    BY <1>7 DEF CommitRevision, Advance
  <2>2. x \in Handling /\ x.at = "announcing" /\ Answered(x)
    BY <1>0, HandlerForms DEF Handling, Answered
  <2>3. /\ c \in Held /\ c.rev = r /\ c.view = h.view /\ r \in Numbers /\ r \in Nat /\ r # 0
        /\ buf[b].rev \in Nat /\ buf[b].rev <= r
        /\ \A s \in Revisions : s \in Nat
    BY <1>0, <1>7, ServerAssumption DEF Held, Handling, Revisions, Numbers
  <2> HIDE DEF x, c
  <2>4. buf' \in [Buffers -> Held] /\ buf'[b] = c /\ \A d \in Buffers \ {b} : buf'[d] = buf[d]
    BY <1>0, <2>1, <2>3
  <2>5. /\ handler' \in [Buffers -> [Revisions -> Handling]]
        /\ handler'[b][r] = x /\ \A s \in Revisions \ {r} : handler'[b][s] = handler[b][s]
        /\ \A d \in Buffers \ {b} : handler'[d] = handler[d]
    BY <2>1, <2>2, HandlerChange
  <2>6. ViewInv(b)'
    <3>1. Answered(handler'[b][r]) /\ handler'[b][r].at # "rendered" BY <2>2, <2>5
    <3>2. buf'[b].view = h.view BY <2>3, <2>4
    <3>3. \A s \in Revisions \ {r} : handler'[b][s] = handler[b][s] BY <2>5
    <3>4. ~em[b].overlapped /\ buf'[b].rev # 0 => buf'[b].view = h.view BY <3>2
    <3> HIDE DEF h
    <3> QED BY <1>5, <3>1, <3>3, <3>4
  <2>7. RevisionInv(b)'
    <3>1. (buf'[b].rev = 0) <=> (buf'[b].view = NoView) BY <1>0, <2>3, <2>4
    <3>2. ASSUME NEW s \in Revisions
          PROVE  /\ em[b].rev < s => handler'[b][s].at = "unsent"
                 /\ handler'[b][s].at = "announcing" => s <= r
                 /\ handler'[b][s].at = "rendered" => handler'[b][s].view # NoView
      <4>1. em[b].rev < r => FALSE BY <1>0 DEF RevisionInv
      <4>2. CASE s = r BY <2>2, <2>3, <2>5, <4>1, <4>2
      <4>3. CASE s # r
        <5>1. /\ em[b].rev < s => handler[b][s].at = "unsent"
              /\ handler[b][s].at = "announcing" => s <= buf[b].rev
              /\ handler[b][s].at = "rendered" => handler[b][s].view # NoView
          BY <1>0 DEF RevisionInv
        <5>2. s \in Nat BY <2>3
        <5> QED BY <2>3, <2>5, <4>3, <5>1, <5>2
      <4> QED BY <4>2, <4>3
    <3> QED BY <1>0, <2>3, <2>4, <3>1, <3>2 DEF RevisionInv
  <2>8. \A d \in Buffers : RevisionInv(d)' /\ ViewInv(d)'
    <3>1. \A d \in Buffers \ {b} : answers'[d] = answers[d] BY <1>0
    <3> QED BY <1>0, <2>4, <2>5, <2>6, <2>7, <3>1, BufferAlone
  <2>9. Viewed
    <3>1. /\ [d \in Buffers |-> buf'[d].rev] = [[d \in Buffers |-> buf[d].rev] EXCEPT ![b] = r]
          /\ page' = page
      BY <1>0, <2>3, <2>4
    <3>2. LV!Commit(b, r) BY <2>3, <3>1 DEF LV!Commit
    <3> QED BY <3>2 DEF Viewed, LV!Next, Revisions
  <2>10. ASSUME NEW p \in Pages PROVE PageInv(p)'
    <3>1. PageInv(p) /\ page[p] \in Browsers /\ page[p].buf \in Buffers /\ page'[p] = page[p]
      BY <1>0 DEF PreviewInv, Browsers
    <3>2. CASE page[p].buf = b
      <4>1. Announcing(b)' BY <2>2, <2>3, <2>4, <2>5 DEF Announcing
      <4>2. Behind(page[p], r)
        <5>1. /\ page[p].shown \in Nat /\ page[p].missed \in Nat /\ page[p].latest \in Nat
              /\ \A n \in Renders(page[p].queue) : n \in Nat
          <6>1. page[p].queue \in Seq(Events) BY <3>1 DEF Browsers
          <6>2. \A n \in Renders(page[p].queue) : n \in Numbers
            <7>1. [kind |-> "nav", rev |-> 0] \in Events
              BY ServerAssumption DEF Events, Numbers
            <7> QED BY <6>1, <7>1, QueueFacts
          <6>3. \A n \in Numbers : n \in Nat BY ServerAssumption DEF Numbers
          <6> QED BY <3>1, <6>2, <6>3 DEF Browsers
        <5>2. Behind(page[p], buf[b].rev) BY <3>1, <3>2 DEF PageInv
        <5> QED BY <2>3, <5>1, <5>2 DEF Behind
      <4> QED BY <2>3, <2>4, <3>1, <3>2, <4>1, <4>2 DEF PageInv
    <3>3. CASE page[p].buf # b
      <4>1. buf'[page[p].buf] = buf[page[p].buf] /\ handler'[page[p].buf] = handler[page[p].buf]
        BY <2>4, <2>5, <3>1, <3>3
      <4> QED BY <3>1, <4>1 DEF PageInv, Announcing
    <3> QED BY <3>2, <3>3
  <2>11. PreviewTypes' BY <1>0, <1>2, <2>4, <2>5 DEF PreviewInv, PreviewTypes
  <2> QED BY <2>8, <2>9, <2>10, <2>11 DEF Goal, PreviewInv
<1> QED BY <1>6, <1>7
(* Pages after a broadcast, given what BroadcastOne and BroadcastTwo say of it. *)
LEMMA ToldAll ==
  ASSUME PreviewInv, NEW b \in Buffers, NEW e \in Events, UNCHANGED buf,
         e.kind = "render" => e.rev <= buf[b].rev,
         page' \in [Pages -> Browsers],
         \A p \in Pages : /\ page'[p].at = page[p].at /\ page'[p].buf = page[p].buf
                          /\ page'[p].shown = page[p].shown,
         \A p \in Pages, c \in Numbers :
              Behind(page[p], c) /\ (page[p].buf = b /\ e.kind = "render" => e.rev <= c)
              => /\ Behind(page'[p], c)
                 /\ Told(page[p], c) => Told(page'[p], c)
                 /\ page[p].at \in {"latest", "live"} /\ page[p].buf = b
                      /\ e.kind = "render" /\ e.rev = c => Told(page'[p], c),
         \A d \in Buffers : Announcing(d) => \/ Announcing(d)'
                                             \/ d = b /\ e.kind = "render" /\ e.rev = buf[b].rev
  PROVE  Viewed /\ \A p \in Pages : PageInv(p)'
<1>1. Viewed BY SameView
<1>2. ASSUME NEW p \in Pages PROVE PageInv(p)'
  <2> DEFINE c == buf[page[p].buf].rev
  <2>1. PageInv(p) /\ page[p].buf \in Buffers /\ c \in Numbers
    BY DEF PreviewInv, PreviewTypes, Browsers, Held
  <2>2. Behind(page[p], c) /\ (page[p].buf = b /\ e.kind = "render" => e.rev <= c)
    BY <2>1 DEF PageInv
  <2>3. /\ Behind(page'[p], c)
        /\ Told(page[p], c) => Told(page'[p], c)
        /\ page[p].at \in {"latest", "live"} /\ page[p].buf = b
             /\ e.kind = "render" /\ e.rev = c => Told(page'[p], c)
    BY <2>1, <2>2
  <2>4. buf'[page'[p].buf].rev = c OBVIOUS
  <2>5. page[p].at \in {"latest", "live"} => Told(page'[p], c) \/ Announcing(page[p].buf)'
    <3>1. page[p].at \in {"latest", "live"} => Told(page[p], c) \/ Announcing(page[p].buf)
      BY <2>1 DEF PageInv
    <3> QED BY <2>1, <2>3, <3>1
  <2>6. page'[p].at = page[p].at OBVIOUS
  <2>7. /\ Behind(page'[p], buf'[page'[p].buf].rev)
        /\ page'[p].at \in {"latest", "live"} =>
             Told(page'[p], buf'[page'[p].buf].rev) \/ Announcing(page[p].buf)'
    BY <2>3, <2>4, <2>5, <2>6
  <2> QED BY <2>7 DEF PageInv
<1> QED BY <1>1, <1>2

LEMMA Telling ==
  ASSUME PreviewInv, NEW b \in Buffers, NEW r \in Revisions,
         BroadcastRender(b, r), UNCHANGED clientVars
  PROVE  Goal
<1> DEFINE e == [kind |-> "render", rev |-> r]
<1> DEFINE n == [kind |-> "nav", rev |-> r]
<1>0. /\ page \in [Pages -> Browsers] /\ buf \in [Buffers -> Held]
      /\ handler[b][r].at = "announcing" /\ handler' = [handler EXCEPT ![b][r] = Done]
      /\ RevisionInv(b) /\ ViewInv(b) /\ UNCHANGED <<buf, answers, nav, em, server, port, disturbances>>
      /\ Broadcast(b, <<e>>) \/ Broadcast(b, <<e, n>>)
  BY DEF PreviewInv, PreviewTypes, clientVars, BroadcastRender, Advance
<1>1. /\ e \in Events /\ n \in Events /\ n.kind = "nav" /\ e.kind = "render" /\ e.rev = r
      /\ r <= buf[b].rev
  BY <1>0, ServerAssumption DEF Events, Revisions, Numbers, RevisionInv
<1> HIDE DEF e, n
<1>2. /\ page' \in [Pages -> Browsers]
      /\ \A p \in Pages :
           /\ page'[p].at = page[p].at /\ page'[p].buf = page[p].buf
           /\ page'[p].shown = page[p].shown
      /\ \A p \in Pages, c \in Numbers :
           Behind(page[p], c) /\ (page[p].buf = b /\ e.kind = "render" => e.rev <= c)
           => /\ Behind(page'[p], c)
              /\ Told(page[p], c) => Told(page'[p], c)
              /\ page[p].at \in {"latest", "live"} /\ page[p].buf = b
                   /\ e.kind = "render" /\ e.rev = c => Told(page'[p], c)
  <2>1. CASE Broadcast(b, <<e>>) BY <1>0, <1>1, <2>1, BroadcastOne
  <2>2. CASE Broadcast(b, <<e, n>>) BY <1>0, <1>1, <2>2, BroadcastTwo
  <2> QED BY <1>0, <2>1, <2>2
<1>3. /\ handler' \in [Buffers -> [Revisions -> Handling]]
      /\ handler'[b][r] = Done
      /\ \A s \in Revisions \ {r} : handler'[b][s] = handler[b][s]
      /\ \A d \in Buffers \ {b} : handler'[d] = handler[d]
  BY <1>0, HandlerChange, HandlerForms
<1>4. ASSUME NEW d \in Buffers, Announcing(d)
      PROVE  Announcing(d)' \/ (d = b /\ e.kind = "render" /\ e.rev = buf[b].rev)
  BY <1>0, <1>1, <1>3, <1>4 DEF Announcing
<1>5. Viewed /\ \A p \in Pages : PageInv(p)' BY <1>0, <1>1, <1>2, <1>4, ToldAll
<1>6. RevisionInv(b)'
  BY <1>0, <1>3, HandlerForms DEF RevisionInv
<1>7. ViewInv(b)'
  <2>1. \A s \in Revisions : Answered(handler'[b][s]) <=> Answered(handler[b][s])
    BY <1>0, <1>3, HandlerForms DEF Answered
  <2>2. \A s \in Revisions : handler'[b][s].at = "rendered" => handler'[b][s] = handler[b][s]
    BY <1>3, HandlerForms
  <2>3. \A a : TakenView(em'[b], a) = TakenView(em[b], a) BY <1>0 DEF TakenView
  <2> QED BY <1>0, <2>1, <2>2, <2>3 DEF ViewInv
<1>8. \A d \in Buffers : RevisionInv(d)' /\ ViewInv(d)'
  BY <1>0, <1>3, <1>6, <1>7, BufferAlone
<1>9. PreviewTypes' BY <1>0, <1>2, <1>3 DEF PreviewInv, PreviewTypes
<1> QED BY <1>5, <1>8, <1>9 DEF Goal, PreviewInv

LEMMA CursorSteps ==
  ASSUME PreviewInv, NEW b \in Buffers, UNCHANGED clientVars,
         BroadcastNavigation(b) \/ \E onBlock \in OnBlock : MapNavigation(b, onBlock)
  PROVE  Goal
<1>0. /\ page \in [Pages -> Browsers] /\ nav \in [Buffers -> Cursor] /\ nav[b] \in Cursor
      /\ em \in [Buffers -> Locals] /\ server \in {"none", "starting", "up", "dead"}
      /\ port \in BOOLEAN /\ disturbances \in Nat
      /\ UNCHANGED <<buf, handler, answers, em, server, port, disturbances>>
  BY DEF PreviewInv, PreviewTypes, clientVars, BroadcastNavigation, MapNavigation
<1>1. ASSUME NEW onBlock \in OnBlock, MapNavigation(b, onBlock) PROVE Goal
  <2>1. nav' \in [Buffers -> Cursor] /\ page' = page
    BY <1>0, <1>1 DEF MapNavigation, Cursor
  <2> QED BY <1>0, <2>1, FlagStep
<1>2. CASE BroadcastNavigation(b)
  <2> DEFINE e == [kind |-> "nav", rev |-> nav[b].rev]
  <2>1. e \in Events /\ e.kind # "render" BY <1>0 DEF Events, Cursor
  <2>2. Broadcast(b, <<e>>) /\ nav' \in [Buffers -> Cursor]
    BY <1>0, <1>2 DEF BroadcastNavigation, Cursor
  <2> HIDE DEF e
  <2>3. /\ page' \in [Pages -> Browsers]
        /\ \A p \in Pages :
             /\ page'[p].at = page[p].at /\ page'[p].buf = page[p].buf
             /\ page'[p].shown = page[p].shown
        /\ \A p \in Pages, c \in Numbers :
             Behind(page[p], c) /\ (page[p].buf = b /\ e.kind = "render" => e.rev <= c)
             => /\ Behind(page'[p], c)
                /\ Told(page[p], c) => Told(page'[p], c)
                /\ page[p].at \in {"latest", "live"} /\ page[p].buf = b
                     /\ e.kind = "render" /\ e.rev = c => Told(page'[p], c)
    BY <1>0, <2>1, <2>2, BroadcastOne
  <2>4. \A d \in Buffers : Announcing(d) => Announcing(d)' BY <1>0 DEF Announcing
  <2>5. Viewed /\ \A p \in Pages : PageInv(p)' BY <1>0, <2>1, <2>3, <2>4, ToldAll
  <2>6. \A d \in Buffers : RevisionInv(d)' /\ ViewInv(d)' BY <1>0, BufferAlone
  <2>7. PreviewTypes' BY <1>0, <2>2, <2>3 DEF PreviewInv, PreviewTypes
  <2> QED BY <2>5, <2>6, <2>7 DEF Goal, PreviewInv
<1> QED BY <1>1, <1>2
LEMMA UpdateAnswered ==
  ASSUME PreviewInv, NEW b \in Buffers, NEW a \in answers[b], UpdateCallback(b, a)
  PROVE  Goal
<1> DEFINE opens == a.view # NoView /\ em[b].pending
<1> DEFINE e == [em[b] EXCEPT !.view = TakenView(em[b], a),
                              !.pending = em[b].pending /\ ~(opens /\ port), !.sending = FALSE]
<1> DEFINE f == Responded(AfterUpdate(e), a.ok)
<1>0. /\ em \in [Buffers -> Locals] /\ em[b] \in Locals /\ answers \in [Buffers -> SUBSET Replies]
      /\ a \in Replies /\ a.ok \in BOOLEAN /\ a.view \in Numbers /\ port \in BOOLEAN
      /\ TakenView(em[b], a) \in Numbers /\ RevisionInv(b) /\ ViewInv(b)
  BY DEF PreviewInv, PreviewTypes, Replies, TakenView, Locals
<1>1. opens \in BOOLEAN BY <1>0 DEF Locals
<1>2. /\ em' = [em EXCEPT ![b] = f] /\ answers' = [answers EXCEPT ![b] = answers[b] \ {a}]
      /\ UNCHANGED <<buf, handler, nav, server, port, disturbances>>
      /\ page' = page \/ \E c \in Buffers, v \in Numbers : Browse(c, v)
  BY <1>0 DEF UpdateCallback
<1> HIDE DEF opens
<1>3. e \in Locals /\ e.rev = em[b].rev /\ e.view = TakenView(em[b], a)
      /\ e.overlapped = em[b].overlapped
  BY <1>0, <1>1 DEF Locals
<1> HIDE DEF e
<1>4. f \in Locals /\ f.rev = em[b].rev /\ f.view = TakenView(em[b], a)
      /\ f.overlapped = em[b].overlapped
  BY <1>0, <1>3, LocalFacts
<1> HIDE DEF f
<1>5. /\ em' \in [Buffers -> Locals] /\ answers' \in [Buffers -> SUBSET Replies]
      /\ em'[b] = f /\ answers'[b] = answers[b] \ {a}
      /\ \A c \in Buffers \ {b} : em'[c] = em[c] /\ answers'[c] = answers[c]
  BY <1>0, <1>2, <1>4
<1>6. Viewed /\ page' \in [Pages -> Browsers] /\ \A p \in Pages : PageInv(p)'
  BY <1>2, BrowsingFacts
<1>7. RevisionInv(b)' BY <1>0, <1>2, <1>4, <1>5 DEF RevisionInv
<1>8. ViewInv(b)'
  <2> SUFFICES ASSUME ~em[b].overlapped PROVE ViewInv(b)'
    BY <1>4, <1>5 DEF ViewInv
  <2>1. /\ answers'[b] = {} /\ \A r \in Revisions : Answered(handler[b][r])
        /\ buf[b].rev # 0 => f.view = buf[b].view
    BY <1>0, <1>4, <1>5 DEF ViewInv
  <2>2. \A r \in Revisions : handler[b][r].at # "rendered" BY <2>1 DEF Answered
  <2> QED BY <1>2, <1>5, <2>1, <2>2 DEF ViewInv
<1>9. \A d \in Buffers : RevisionInv(d)' /\ ViewInv(d)'
  BY <1>2, <1>5, <1>7, <1>8, BufferAlone
<1>10. PreviewTypes' BY <1>2, <1>5, <1>6 DEF PreviewInv, PreviewTypes
<1> QED BY <1>6, <1>9, <1>10 DEF Goal, PreviewInv

(* The end of the server: buffers and pages are gone, requests that were out are refused. *)
LEMMA StopStep ==
  ASSUME PreviewInv, ServerStops, em' \in [Buffers -> Locals],
         \A c \in Buffers : /\ em'[c].rev = em[c].rev /\ em'[c].view = em[c].view
                            /\ em'[c].overlapped = em[c].overlapped,
         server' \in {"none", "starting", "up", "dead"}, port' \in BOOLEAN, disturbances' \in Nat
  PROVE  Goal
<1> DEFINE refused(b) == {[rev |-> r, view |-> NoView, ok |-> FALSE] :
                            r \in {s \in Revisions : ~Answered(handler[b][s])}}
<1>0. /\ answers \in [Buffers -> SUBSET Replies] /\ nav \in [Buffers -> Cursor]
      /\ \A b \in Buffers : RevisionInv(b) /\ ViewInv(b)
  BY DEF PreviewInv, PreviewTypes
<1>1. /\ \A b \in Buffers : refused(b) \in SUBSET Replies
      /\ Absent \in Held /\ Absent.rev = 0 /\ Absent.view = NoView
  <2>1. \A r \in Revisions : [rev |-> r, view |-> NoView, ok |-> FALSE] \in Replies
    BY ServerAssumption DEF Replies, Numbers, NoView
  <2>2. Absent \in Held /\ Absent.rev = 0 /\ Absent.view = NoView
    BY ServerAssumption DEF Numbers, NoView, Absent, Held
  <2> QED BY <2>1, <2>2
<1>2. /\ buf' = [b \in Buffers |-> Absent] /\ page' = [p \in Pages |-> Closed]
      /\ handler' = [b \in Buffers |-> [r \in Revisions |->
                       IF handler[b][r].at = "unsent" THEN Unsent ELSE Done]]
      /\ answers' = [b \in Buffers |-> answers[b] \cup refused(b)]
      /\ nav' = [b \in Buffers |->
                   [nav[b] EXCEPT !.at = IF nav[b].at \in {"posted", "mapped"} THEN "refused" ELSE nav[b].at]]
  BY DEF ServerStops
<1>3. PreviewTypes'
  <2>1. nav' \in [Buffers -> Cursor] BY <1>0, <1>2 DEF Cursor
  <2>2. answers' \in [Buffers -> SUBSET Replies]
    <3> HIDE DEF refused
    <3> QED BY <1>0, <1>1, <1>2
  <2>3. /\ buf' \in [Buffers -> Held] /\ handler' \in [Buffers -> [Revisions -> Handling]]
        /\ page' \in [Pages -> Browsers]
    BY <1>1, <1>2, HandlerForms, NewPageFacts
  <2> QED BY <2>1, <2>2, <2>3 DEF PreviewTypes
<1>4. ASSUME NEW b \in Buffers PROVE RevisionInv(b)' /\ ViewInv(b)'
  <2>1. \A r \in Revisions : /\ Answered(handler'[b][r])
                             /\ handler'[b][r].at \in {"unsent", "done"}
                             /\ handler[b][r].at = "unsent" => handler'[b][r].at = "unsent"
    BY <1>2, HandlerForms
  <2>2. buf'[b].rev = 0 /\ buf'[b].view = NoView BY <1>1, <1>2
  <2>3. RevisionInv(b)' BY <1>0, <2>1, <2>2 DEF RevisionInv
  <2>4. ~em[b].overlapped => \A a, c \in answers'[b] : a = c
    <3> SUFFICES ASSUME ~em[b].overlapped PROVE \A a, c \in answers'[b] : a = c
      OBVIOUS
    <3>1. answers'[b] = answers[b] \cup refused(b) BY <1>2
    <3>2. /\ \A r, s \in Revisions : ~Answered(handler[b][r]) /\ ~Answered(handler[b][s]) => r = s
          /\ \A r \in Revisions : ~Answered(handler[b][r]) => answers[b] = {}
          /\ \A a, c \in answers[b] : a = c
      BY <1>0 DEF ViewInv
    <3>3. \A a, c \in refused(b) : a = c BY <3>2
    <3>4. refused(b) # {} => answers[b] = {} BY <3>2
    <3> HIDE DEF refused
    <3> QED BY <3>1, <3>2, <3>3, <3>4
  <2>5. ViewInv(b)' BY <2>1, <2>2, <2>4 DEF ViewInv
  <2> QED BY <2>3, <2>5
<1>5. ASSUME NEW p \in Pages PROVE PageInv(p)'
  <2>1. page'[p] = Closed /\ Closed.at = "none" /\ Closed.buf \in Buffers
        /\ \A c \in Numbers : Behind(Closed, c)
    BY <1>2, NewPageFacts DEF Browsers
  <2>2. buf'[Closed.buf].rev = 0 /\ 0 \in Numbers
    BY <1>1, <1>2, <2>1, ServerAssumption DEF Numbers
  <2>3. Behind(page'[p], buf'[page'[p].buf].rev) /\ ~(page'[p].at \in {"latest", "live"})
    BY <2>1, <2>2
  <2> QED BY <2>3 DEF PageInv
<1>6. Viewed
  <2>1. Closed.buf \in Buffers /\ Closed.shown = 0 BY NewPageFacts DEF Browsers
  <2>2. /\ [b \in Buffers |-> buf'[b].rev] = [b \in Buffers |-> 0]
        /\ [p \in Pages |-> page'[p].buf] \in [Pages -> Buffers]
        /\ [p \in Pages |-> page'[p].shown] = [p \in Pages |-> 0]
    BY <1>1, <1>2, <2>1
  <2>3. LV!Restart BY <2>2 DEF LV!Restart
  <2> QED BY <2>3 DEF Viewed, LV!Next
<1> QED BY <1>3, <1>4, <1>5, <1>6 DEF Goal, PreviewInv

LEMMA Stopping ==
  ASSUME PreviewInv, ServerDies \/ \E b \in Buffers : Disable(b)
  PROVE  Goal
<1>0. /\ em \in [Buffers -> Locals] /\ nav \in [Buffers -> Cursor] /\ disturbances \in Nat
      /\ server \in {"none", "starting", "up", "dead"} /\ port \in BOOLEAN
  BY DEF PreviewInv, PreviewTypes
<1>1. CASE ServerDies BY <1>0, <1>1, StopStep DEF ServerDies, Disturb
<1>2. ASSUME NEW b \in Buffers, Disable(b) PROVE Goal
  <2> DEFINE e == [em[b] EXCEPT !.mode = FALSE, !.dirty = FALSE, !.sending = FALSE,
                                !.timer = FALSE, !.navTimer = FALSE, !.reconnect = FALSE,
                                !.pending = FALSE, !.failed = FALSE]
  <2>1. e \in Locals /\ e.rev = em[b].rev /\ e.view = em[b].view /\ e.overlapped = em[b].overlapped
    BY <1>0 DEF Locals
  <2>2. /\ em' = [em EXCEPT ![b] = e] /\ disturbances' = disturbances
        /\ \/ ServerStops /\ server' = "none" /\ port' = FALSE
           \/ UNCHANGED <<serverVars, server, port>>
    BY <1>2 DEF Disable
  <2> HIDE DEF e
  <2>3. Touched(b, e) BY <2>1, <2>2 DEF Touched
  <2>4. /\ em' \in [Buffers -> Locals]
        /\ \A c \in Buffers : /\ em'[c].rev = em[c].rev /\ em'[c].view = em[c].view
                              /\ em'[c].overlapped = em[c].overlapped
    BY <2>3, TouchedFacts
  <2>5. CASE ServerStops /\ server' = "none" /\ port' = FALSE
    BY <1>0, <2>2, <2>4, <2>5, StopStep
  <2>6. CASE UNCHANGED <<serverVars, server, port>>
    BY <1>0, <2>2, <2>4, <2>6, FlagStep DEF serverVars
  <2> QED BY <2>2, <2>5, <2>6
<1> QED BY <1>1, <1>2
-----------------------------------------------------------------------------
(* Pages *)

LEMMA PageStays ==
  ASSUME PreviewInv, NEW p \in Pages, NEW g \in Browsers, page' = [page EXCEPT ![p] = g],
         g.buf = page[p].buf, Behind(g, buf[g.buf].rev),
         g.at \in {"latest", "live"} => Told(g, buf[g.buf].rev) \/ Announcing(g.buf),
         g.shown = page[p].shown \/ (g.shown \in Revisions /\ page[p].shown <= g.shown),
         UNCHANGED <<buf, handler, answers, nav, em, server, port>>, disturbances' \in Nat
  PROVE  Goal
<1>1. /\ page \in [Pages -> Browsers] /\ page' \in [Pages -> Browsers]
      /\ page'[p] = g /\ \A q \in Pages \ {p} : page'[q] = page[q]
  BY DEF PreviewInv, PreviewTypes
<1>2. Viewed
  <2>1. /\ [b \in Buffers |-> buf'[b].rev] = [b \in Buffers |-> buf[b].rev]
        /\ [q \in Pages |-> page'[q].buf] = [q \in Pages |-> page[q].buf]
    BY <1>1
  <2>2. CASE g.shown = page[p].shown BY <1>1, <2>2, SameView
  <2>3. CASE g.shown \in Revisions /\ page[p].shown <= g.shown
    <3>1. [q \in Pages |-> page'[q].shown] = [[q \in Pages |-> page[q].shown] EXCEPT ![p] = g.shown]
      BY <1>1
    <3>2. g.shown <= buf[page[p].buf].rev BY DEF Behind
    <3>3. page[p].buf \in Buffers BY <1>1 DEF Browsers
    <3>4. LV!Show(p, g.shown) BY <2>1, <2>3, <3>1, <3>2, <3>3 DEF LV!Show
    <3> QED BY <2>3, <3>4 DEF Viewed, LV!Next, Revisions
  <2> QED BY <2>2, <2>3
<1>3. ASSUME NEW q \in Pages PROVE PageInv(q)'
  <2>1. CASE q = p
    <3>1. /\ Behind(page'[q], buf'[page'[q].buf].rev)
          /\ page'[q].at \in {"latest", "live"} =>
               Told(page'[q], buf'[page'[q].buf].rev) \/ Announcing(page[q].buf)'
      BY <1>1, <2>1 DEF Announcing
    <3> QED BY <3>1 DEF PageInv
  <2>2. CASE q # p
    <3>1. PageInv(q) /\ page'[q] = page[q] BY <1>1, <2>2 DEF PreviewInv
    <3> QED BY <3>1 DEF PageInv, Announcing
  <2> QED BY <2>1, <2>2
<1>4. \A b \in Buffers : RevisionInv(b)' /\ ViewInv(b)' BY BufferAlone
<1>5. PreviewTypes' BY <1>1 DEF PreviewInv, PreviewTypes
<1> QED BY <1>2, <1>3, <1>4, <1>5 DEF Goal, PreviewInv

LEMMA PageMoves ==
  ASSUME PreviewInv, NEW p \in Pages, UNCHANGED <<em, server, port>>, disturbances' \in Nat,
         PageStep(p) \/ LoseConnection(p)
  PROVE  Goal
<1> DEFINE g == page[p]
<1> DEFINE c == buf[page[p].buf].rev
<1>0. /\ g \in Browsers /\ page[p].buf \in Buffers /\ c \in Numbers /\ c \in Nat /\ 0 \in Numbers
      /\ PageInv(p) /\ <<>> \in Seq(Events) /\ Renders(<<>>) = {}
      /\ \A n \in Numbers : n \in Nat /\ 0 <= n
  BY ServerAssumption DEF PreviewInv, PreviewTypes, Browsers, Held, Numbers, Renders
<1>1. /\ Behind(g, c)
      /\ g.at \in {"latest", "live"} => Told(g, c) \/ Announcing(page[p].buf)
  BY <1>0 DEF PageInv
<1>2. CASE JoinPage(p)
  <2> DEFINE h == [g EXCEPT !.at = "joined", !.queue = <<>>, !.missed = 0]
  <2>1. page' = [page EXCEPT ![p] = h] BY <1>2 DEF JoinPage
  <2>2. /\ h \in Browsers /\ h.buf = g.buf /\ h.shown = g.shown /\ h.at = "joined"
        /\ h.latest = g.latest /\ h.missed = 0 /\ h.queue = <<>>
    BY <1>0 DEF Browsers
  <2> HIDE DEF h
  <2>3. Behind(h, c) BY <1>0, <1>1, <2>2 DEF Behind
  <2>4. h.at \notin {"latest", "live"} BY <2>2
  <2> QED BY <1>2, <2>1, <2>2, <2>3, <2>4, PageStays DEF JoinPage
<1>3. CASE ReadLatest(p)
  <2> DEFINE h == [g EXCEPT !.at = "latest", !.latest = c]
  <2>1. page' = [page EXCEPT ![p] = h] BY <1>3 DEF ReadLatest
  <2>2. /\ h \in Browsers /\ h.buf = g.buf /\ h.shown = g.shown /\ h.at = "latest"
        /\ h.latest = c /\ h.missed = g.missed /\ h.queue = g.queue
    BY <1>0 DEF Browsers
  <2> HIDE DEF h
  <2>3. Behind(h, c) /\ Told(h, c) BY <1>0, <1>1, <2>2 DEF Behind, Told
  <2> QED BY <1>3, <2>1, <2>2, <2>3, PageStays DEF ReadLatest
<1>4. CASE QueueLatest(p)
  <2> DEFINE e == [kind |-> "render", rev |-> g.latest]
  <2> DEFINE h == [g EXCEPT !.at = "live", !.queue = Append(g.queue, e)]
  <2>1. page' = [page EXCEPT ![p] = h] /\ g.at = "latest" BY <1>4 DEF QueueLatest
  <2>2. e \in Events /\ e.kind = "render" /\ e.rev = g.latest BY <1>0 DEF Events, Browsers
  <2> HIDE DEF e
  <2>3. /\ Append(g.queue, e) \in Seq(Events)
        /\ Renders(Append(g.queue, e)) = Renders(g.queue) \cup {g.latest}
    BY <1>0, <2>2, QueueFacts DEF Browsers
  <2>4. /\ h \in Browsers /\ h.buf = g.buf /\ h.shown = g.shown /\ h.at = "live"
        /\ h.latest = g.latest /\ h.missed = g.missed /\ h.queue = Append(g.queue, e)
    BY <1>0, <2>3 DEF Browsers
  <2> HIDE DEF h
  <2>5. Behind(h, c) BY <1>1, <2>3, <2>4 DEF Behind
  <2>6. Told(g, c) => Told(h, c) BY <2>3, <2>4 DEF Told
  <2>7. Told(h, c) \/ Announcing(page[p].buf) BY <1>1, <2>1, <2>6
  <2> QED BY <1>4, <2>1, <2>4, <2>5, <2>7, PageStays DEF QueueLatest
<1>5. CASE DeliverEvent(p)
  <2> DEFINE e == Head(g.queue)
  <2> DEFINE n == Shows(g, e)
  <2> DEFINE h == [g EXCEPT !.queue = Tail(g.queue), !.shown = n]
  <2>1. page' = [page EXCEPT ![p] = h] /\ g.at = "live" /\ g.queue # <<>>
    BY <1>5 DEF DeliverEvent
  <2>2. /\ e \in Events /\ Tail(g.queue) \in Seq(Events)
        /\ Renders(g.queue)
             = Renders(Tail(g.queue)) \cup (IF e.kind = "render" THEN {e.rev} ELSE {})
    BY <1>0, <2>1, TailFacts DEF Browsers
  <2> HIDE DEF e
  <2>3. /\ e.rev \in Numbers /\ e.rev \in Nat /\ g.shown \in Numbers /\ g.shown \in Nat
        /\ g.shown <= c /\ (e.kind = "render" => e.rev <= c)
    BY <1>0, <1>1, <2>2 DEF Events, Browsers, Behind
  <2>4. /\ n \in Numbers /\ n \in Nat /\ g.shown <= n /\ n <= c
        /\ n = g.shown \/ n = e.rev
        /\ e.kind = "render" /\ e.rev = c => n = c
        /\ g.shown = c => n = c
    BY <1>0, <2>3 DEF Shows
  <2> HIDE DEF n
  <2>5. /\ h \in Browsers /\ h.buf = g.buf /\ h.shown = n /\ h.at = "live"
        /\ h.latest = g.latest /\ h.missed = g.missed /\ h.queue = Tail(g.queue)
    BY <1>0, <2>1, <2>2, <2>4 DEF Browsers
  <2> HIDE DEF h
  <2>6. Behind(h, c) BY <1>1, <2>2, <2>4, <2>5 DEF Behind
  <2>7. Told(g, c) => Told(h, c) BY <2>1, <2>2, <2>4, <2>5 DEF Told
  <2>8. Told(h, c) \/ Announcing(page[p].buf) BY <1>1, <2>1, <2>7
  <2>9. n = g.shown \/ n \in Revisions
    BY <2>3, <2>4, ServerAssumption DEF Numbers, Revisions
  <2> QED BY <1>5, <2>1, <2>4, <2>5, <2>6, <2>8, <2>9, PageStays DEF DeliverEvent
<1>6. CASE LoseConnection(p)
  <2> DEFINE h == [g EXCEPT !.at = "idle", !.queue = <<>>, !.latest = 0]
  <2>1. page' = [page EXCEPT ![p] = h] BY <1>6 DEF LoseConnection
  <2>2. /\ h \in Browsers /\ h.buf = g.buf /\ h.shown = g.shown /\ h.at = "idle"
        /\ h.latest = 0 /\ h.missed = g.missed /\ h.queue = <<>>
    BY <1>0 DEF Browsers
  <2> HIDE DEF h
  <2>3. Behind(h, c) BY <1>0, <1>1, <2>2 DEF Behind
  <2>4. h.at \notin {"latest", "live"} BY <2>2
  <2> QED BY <1>6, <2>1, <2>2, <2>3, <2>4, PageStays DEF LoseConnection
<1> QED BY <1>2, <1>3, <1>4, <1>5, <1>6 DEF PageStep

-----------------------------------------------------------------------------
(* The theorems *)

LEMMA PreviewInit == Init => PreviewInv /\ LV!Init
<1> SUFFICES ASSUME Init PROVE PreviewInv /\ LV!Init
  OBVIOUS
<1>0. /\ 0 \in Numbers /\ Absent \in Held /\ Absent.rev = 0 /\ Absent.view = NoView
      /\ NoNav \in Cursor
  BY ServerAssumption DEF Numbers, Absent, Held, NoView, NoNav, Cursor
<1>1. /\ buf = [b \in Buffers |-> Absent] /\ page = [p \in Pages |-> Closed]
      /\ handler = [b \in Buffers |-> [r \in Revisions |-> Unsent]]
      /\ answers = [b \in Buffers |-> {}] /\ nav = [b \in Buffers |-> NoNav]
      /\ em = [b \in Buffers |-> NewBuffer] /\ server = "none" /\ port = FALSE
      /\ disturbances = 0
  BY DEF Init, ServerInit
<1>2. PreviewTypes
  <2>1. NewBuffer \in Locals BY <1>0 DEF NewBuffer, Locals, NoView
  <2> QED BY <1>0, <1>1, <2>1, HandlerForms, NewPageFacts DEF PreviewTypes
<1>3. ASSUME NEW p \in Pages PROVE PageInv(p)
  <2>1. Closed.buf \in Buffers BY NewPageFacts DEF Browsers
  <2> QED BY <1>0, <1>1, <2>1, NewPageFacts DEF PageInv
<1>4. ASSUME NEW b \in Buffers PROVE RevisionInv(b) /\ ViewInv(b)
  BY <1>0, <1>1, <1>4, HandlerForms DEF RevisionInv, ViewInv
<1>5. LV!Init
  <2>1. Closed.buf \in Buffers /\ Closed.shown = 0 BY NewPageFacts DEF Browsers
  <2> QED BY <1>0, <1>1, <2>1 DEF LV!Init
<1> QED BY <1>2, <1>3, <1>4, <1>5 DEF PreviewInv

LEMMA PreviewNext == PreviewInv /\ [Next]_vars => PreviewInv' /\ [LV!Next]_(LV!vars)
<1> SUFFICES ASSUME PreviewInv, [Next]_vars PROVE Goal
  BY DEF Goal, Viewed
<1>0. disturbances \in Nat BY DEF PreviewInv, PreviewTypes
<1>1. CASE ServerStep
  <2>1. ASSUME NEW b \in Buffers, NEW r \in Revisions, HandlerStep(b, r), UNCHANGED clientVars
        PROVE  Goal
    BY <2>1, HandlerAhead, Committing, Telling DEF HandlerStep
  <2>2. ASSUME NEW p \in Pages, PageStep(p), UNCHANGED clientVars PROVE Goal
    BY <1>0, <2>2, PageMoves DEF clientVars
  <2> QED BY <1>1, <2>1, <2>2, CursorSteps DEF ServerStep
<1>2. CASE UserStep BY <1>2, UserFlagSteps, Stopping DEF UserStep
<1>3. CASE EmacsStep
  BY <1>3, UserFlagSteps, UpdateSent, UpdateAnswered, ServerNews DEF EmacsStep
<1>4. CASE FaultStep
  <2>1. ASSUME NEW b \in Buffers, NEW r \in Revisions, Rejected(b, r) PROVE Goal
    <3>1. /\ handler[b][r].at \in {"posted", "parsing"} /\ Advance(b, r, "done")
          /\ Answer(b, [rev |-> r, view |-> NoView, ok |-> FALSE])
          /\ UNCHANGED <<buf, page, nav, em, server, port>>
      BY <2>1 DEF Rejected, RejectRevision
    <3>2. disturbances' \in Nat BY <1>0, <2>1 DEF Rejected, Disturb
    <3>3. FALSE \in BOOLEAN OBVIOUS
    <3> QED BY <3>1, <3>2, <3>3, Refusal
  <2>2. ASSUME NEW p \in Pages, Disconnected(p) PROVE Goal
    BY <1>0, <2>2, PageMoves DEF Disconnected, Disturb
  <2> QED BY <1>4, <2>1, <2>2, Stopping, UpdateUnsent DEF FaultStep
<1>5. CASE UNCHANGED vars
  <2>1. \A b \in Buffers : Announcing(b) => Announcing(b)' BY <1>5 DEF vars, serverVars, Announcing
  <2>2. PreviewTypes' BY <1>5 DEF vars, serverVars, clientVars, PreviewInv, PreviewTypes
  <2> QED BY <1>5, <2>1, <2>2, PagesAlone, BufferAlone
          DEF vars, serverVars, clientVars, Goal, PreviewInv
<1> QED BY <1>1, <1>2, <1>3, <1>4, <1>5 DEF Next

LEMMA PreviewInvariant == Spec => []PreviewInv
<1>1. Init => PreviewInv BY PreviewInit
<1>2. PreviewInv /\ [Next]_vars => PreviewInv' BY PreviewNext
<1> QED BY <1>1, <1>2, PTL DEF Spec

(* A live page with nothing left to deliver shows the committed revision, or missed
   it when its queue was full, or the handler that committed it has yet to tell:
   server.go registers a page before it reads the latest revision, and broadcasts
   after it commits. *)
THEOREM PagesCatchUp == Spec => []CaughtUp
<1>1. PreviewInv => CaughtUp
  <2> SUFFICES ASSUME PreviewInv, NEW p \in Pages, page[p].at = "live", page[p].queue = <<>>,
                      ~ \E r \in Revisions : r = buf[page[p].buf].rev
                                             /\ handler[page[p].buf][r].at = "announcing"
               PROVE  buf[page[p].buf].rev \in {page[p].shown, page[p].missed}
    BY DEF CaughtUp
  <2>1. ~Announcing(page[p].buf) BY DEF Announcing
  <2>2. Renders(page[p].queue) = {} BY DEF Renders
  <2> QED BY <2>1, <2>2 DEF PreviewInv, PageInv, Told
<1> QED BY <1>1, PreviewInvariant, PTL

(* When a buffer has no request out and never had two, the view Emacs opens
   pages with is the one the server accepts, whatever was refused, lost or
   restarted before. *)
THEOREM ViewsAgree == Spec => []IdleViewAgrees
<1>1. PreviewInv => IdleViewAgrees
  BY DEF PreviewInv, ViewInv, IdleViewAgrees, Quiet
<1> QED BY <1>1, PreviewInvariant, PTL

(* The pages behave as LiveView says: a buffer's revision does not go back while
   the server lives, and a page shows only committed revisions, none older than
   the one before. *)
THEOREM LiveViewImplemented == Spec => LiveViewSpec
<1>1. Init => LV!Init BY PreviewInit
<1>2. PreviewInv /\ [Next]_vars => [LV!Next]_(LV!vars) BY PreviewNext
<1> QED BY <1>1, <1>2, PreviewInvariant, PTL DEF Spec, LiveViewSpec, LV!Spec
=============================================================================
