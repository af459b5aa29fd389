----------------------------- MODULE FilesProofs -----------------------------
(***************************************************************************)
(* The link from a card to its heading, and the installer of the app that  *)
(* receives these links, each for any number of processes at work at once: *)
(* the receiver answers what was so and the exit codes say so, and what is *)
(* at the place of the app, or was there, is not lost.  Then, for any      *)
(* number of notes, any contents and any number of helpers, what a move of *)
(* a notes directory keeps, and what the cache of its notes holds.         *)
(***************************************************************************)
EXTENDS FilesMC, Integers, FiniteSetTheorems, WellFoundedInduction, TLAPS

(* The link. *)

\* Clicks and files are named like nothing else.
LinkNamed == Link!Nowhere \notin Clients /\ Link!Nowhere \notin Link!Files

Early == {"idle", "probe", "launch", "poll", "ask"}
ClickRecords == [pc : Early \cup {"eval", "activate", "done"}, polls : Int, code : Int, late : BOOLEAN]
Texts == {Link!NoBuffer, 0, 1, 2}
EmacsRecords ==
    [at : {"down", "starting", "free", "scan", "goto", "answer"}, call : Clients \cup {Link!Nowhere},
     todo : SUBSET Link!Files, hits : [Link!Files -> 0..2],
     failed : SUBSET Link!Files, cached : SUBSET Link!Files, answer : Link!Normal \cup {""}]

LinkTypeOK ==
    /\ click \in [Clients -> ClickRecords]
    /\ emacs \in EmacsRecords
    /\ queue \subseteq Clients
    /\ reply \in [Clients -> Link!Normal \cup {"", "error", "gone"}]
    /\ moved \in [Clients -> Link!Files \cup {Link!Nowhere}]
    /\ disk \in [Link!Files -> Link!Shapes]
    /\ buffer \in [Link!Files -> Texts]
    /\ location \in Link!Files \cup {Link!Nowhere}
    /\ held \in [Link!Files -> SUBSET [disk : Link!Shapes, buffer : Texts]]

\* What the scan noted of a file was so at some moment.
Noted(f) ==
    /\ emacs.hits[f] > 0 => \E seen \in held[f] : Link!View(seen) = emacs.hits[f]
    /\ f \in emacs.failed => \E seen \in held[f] : Link!View(seen) = Link!Denied
    /\ emacs.hits[f] = 0 /\ f \notin emacs.failed => \E seen \in held[f] : Link!Lacks(seen)

Looking == emacs.at \in {"scan", "goto"}
ReceiverInv ==
    /\ emacs.call \in Clients <=> Looking \/ emacs.at = "answer"
    /\ emacs.todo \subseteq Link!Searched
    /\ Looking => /\ \A f \in Link!Files : Link!Seen(f) \in held[f]
                  /\ \A f \in Link!Files : f \notin Link!Searched \/ f \in emacs.todo =>
                                      emacs.hits[f] = 0 /\ f \notin emacs.failed
                  /\ \A f \in Link!Searched \ emacs.todo : Noted(f)
    /\ emacs.at = "goto" => emacs.todo = {} /\ emacs.failed = {} /\ ~Link!Several
    /\ emacs.at = "answer" =>
         emacs.answer \in Link!Normal /\ (emacs.answer = "ok" => moved[emacs.call] \in Link!Files)

\* AnswersTrue, answer by answer.
OkTrue == /\ buffer[moved[emacs.call]] > 0
          /\ \A g \in Link!Searched \ {moved[emacs.call]} : \E seen \in held[g] : Link!Lacks(seen)
MissingTrue == \A g \in Link!Searched :
    \E seen \in held[g] : Link!Lacks(seen) \/ Link!View(seen) = Link!Denied
SeveralTrue ==
    \/ \E f \in Link!Searched : \E seen \in held[f] : Link!View(seen) > 1
    \/ \E f, g \in Link!Searched :
         /\ f # g
         /\ \E seen \in held[f] : Link!View(seen) > 0
         /\ \E seen \in held[g] : Link!View(seen) > 0
IncompleteTrue == \E f \in Link!Searched : \E seen \in held[f] : Link!View(seen) = Link!Denied

\* A request in Emacs has no answer yet, and its process waits, timed out or
\* was killed; an answer is never replaced.
Late(c) == click[c].late = TRUE
Unsaid(c) == reply[c] = ""
InEmacs(c) == c \in queue \/ emacs.call = c
ClickInv(c) ==
    /\ InEmacs(c) => Unsaid(c) /\ click[c].pc \in {"eval", "done"}
    /\ InEmacs(c) /\ click[c].pc = "done" => Late(c) \/ click[c].code = 137
    /\ click[c].pc \in Early => Unsaid(c)
    /\ click[c].pc = "activate" => reply[c] \in Link!Normal
    /\ reply[c] = "ok" => moved[c] # Link!Nowhere
    /\ click[c].pc = "done" =>
         /\ click[c].code = 0 => reply[c] \in Link!Normal
         /\ click[c].code = 1 /\ ~Late(c) => reply[c] \notin Link!Normal
         /\ click[c].code = 2 => Unsaid(c) /\ ~InEmacs(c)

ClicksInv == emacs.call \notin queue /\ \A c \in Clients : ClickInv(c)
LinkInv == LinkTypeOK /\ ReceiverInv /\ Link!AnswersTrue /\ ClicksInv

LEMMA UnsaidFacts ==
  ASSUME NEW c \in Clients
  PROVE  /\ Unsaid(c) => reply[c] \notin Link!Normal /\ reply[c] # "ok"
         /\ reply' = reply => (Unsaid(c)' <=> Unsaid(c))
BY DEF Unsaid, Link!Normal

LEMMA IdleForm ==
  ASSUME LinkNamed, NEW at \in {"down", "starting", "free"}
  PROVE  /\ Link!Idle(at) \in EmacsRecords
         /\ Link!Idle(at).at = at /\ Link!Idle(at).call = Link!Nowhere
BY DEF LinkNamed, Link!Idle, EmacsRecords

LEMMA RestingInv ==
  ASSUME LinkNamed, NEW at \in {"down", "starting", "free"}, emacs' = Link!Idle(at)
  PROVE  ReceiverInv' /\ Link!AnswersTrue' /\ emacs' \in EmacsRecords /\ emacs'.call = Link!Nowhere
<1>1. emacs'.at = at /\ emacs'.call = Link!Nowhere /\ emacs'.todo = {} /\ emacs' \in EmacsRecords
  BY IdleForm DEF Link!Idle
<1>2. ReceiverInv' BY <1>1 DEF ReceiverInv, Looking, LinkNamed
<1>3. Link!AnswersTrue' BY <1>1 DEF Link!AnswersTrue
<1> QED BY <1>1, <1>2, <1>3

LEMMA QuietInv ==
  ASSUME LinkInv, UNCHANGED <<emacs, moved, disk, buffer, held>>
  PROVE  ReceiverInv' /\ Link!AnswersTrue'
BY DEF LinkInv, ReceiverInv, Link!AnswersTrue, Looking, Link!Seen, Link!View, Link!Lacks, Noted,
       Link!Searched, Link!Several, Link!Hits

LEMMA GoesForm ==
  ASSUME LinkTypeOK, NEW c \in Clients, NEW pc \in Early \cup {"eval", "activate", "done"},
         Link!Goes(c, pc)
  PROVE  /\ click' \in [Clients -> ClickRecords]
         /\ click'[c].pc = pc /\ click'[c].code = click[c].code /\ (Late(c)' <=> Late(c))
         /\ \A d \in Clients : d # c => click'[d] = click[d]
<1>1. click[c] \in ClickRecords BY DEF LinkTypeOK
<1>2. PICK r : r = [click[c] EXCEPT !.pc = pc] OBVIOUS
<1>3. r \in ClickRecords /\ r.pc = pc /\ r.code = click[c].code /\ r.late = click[c].late
  BY <1>1, <1>2 DEF ClickRecords
<1>4. click' = [click EXCEPT ![c] = r] BY <1>2 DEF Link!Goes
<1>5. click'[c] = r BY <1>4 DEF LinkTypeOK
<1> QED BY <1>3, <1>4, <1>5 DEF LinkTypeOK, Late

LEMMA EndedForm ==
  ASSUME LinkTypeOK, NEW c \in Clients, NEW code \in Int, Link!Ended(c, code)
  PROVE  /\ click' \in [Clients -> ClickRecords]
         /\ click'[c].pc = "done" /\ click'[c].code = code /\ (Late(c)' <=> Late(c))
         /\ \A d \in Clients : d # c => click'[d] = click[d]
<1>1. click[c] \in ClickRecords BY DEF LinkTypeOK
<1>2. PICK r : r = [click[c] EXCEPT !.pc = "done", !.polls = 0, !.code = code] OBVIOUS
<1>3. r = [pc |-> "done", polls |-> 0, code |-> code, late |-> click[c].late]
  BY <1>1, <1>2 DEF ClickRecords
<1>4. r \in ClickRecords /\ r.pc = "done" /\ r.code = code /\ r.late = click[c].late
  BY <1>1, <1>3 DEF ClickRecords
<1>5. click' = [click EXCEPT ![c] = r] BY <1>2 DEF Link!Ended
<1>6. click'[c] = r BY <1>5 DEF LinkTypeOK
<1> QED BY <1>4, <1>5, <1>6 DEF LinkTypeOK, Late

\* What a step of one process has to show.
Forward(c) ==
  /\ click' \in [Clients -> ClickRecords]
  /\ \A d \in Clients : d # c => click'[d] = click[d]
  /\ \/ emacs' = emacs
     \/ \E at \in {"down", "starting", "free"} : emacs' = Link!Idle(at) /\ emacs.call \notin Clients
  /\ queue' \subseteq queue \cup {c} /\ emacs.call \notin queue'
  /\ UNCHANGED <<reply, moved, disk, buffer, location, held>>

LEMMA ForwardInv ==
  ASSUME LinkNamed, LinkInv, NEW c \in Clients, Forward(c), ClickInv(c)'
  PROVE  LinkInv'
<1>1. ReceiverInv' /\ Link!AnswersTrue' /\ emacs' \in EmacsRecords
      /\ (emacs'.call = emacs.call \/ emacs'.call = Link!Nowhere)
  <2>1. CASE emacs' = emacs BY <2>1, QuietInv DEF Forward, LinkInv, LinkTypeOK
  <2>2. CASE \E at \in {"down", "starting", "free"} : emacs' = Link!Idle(at) BY <2>2, RestingInv
  <2> QED BY <2>1, <2>2 DEF Forward
<1>2. LinkTypeOK' BY <1>1 DEF Forward, LinkInv, LinkTypeOK
<1>3. ASSUME NEW d \in Clients, d # c PROVE ClickInv(d)'
  <2>1. InEmacs(d)' => InEmacs(d) BY <1>1, <1>3 DEF InEmacs, Forward, LinkNamed
  <2>2. /\ click'[d] = click[d] /\ reply' = reply /\ moved' = moved
        /\ (Late(d)' <=> Late(d)) /\ (Unsaid(d)' <=> Unsaid(d))
    BY <1>3 DEF Forward, Late, Unsaid
  <2>3. ClickInv(d) BY DEF LinkInv, ClicksInv
  <2> QED BY <2>1, <2>2, <2>3 DEF ClickInv
<1>4. emacs'.call \notin queue'
  BY <1>1 DEF Forward, LinkNamed, LinkInv, LinkTypeOK
<1> QED BY <1>1, <1>2, <1>3, <1>4 DEF LinkInv, ClicksInv

LEMMA OpenedForm ==
  ASSUME LinkNamed, LinkInv, Link!Opened
  PROVE  \/ emacs' = emacs
         \/ \E at \in {"down", "starting", "free"} : emacs' = Link!Idle(at) /\ emacs.call \notin Clients
<1>1. CASE emacs.at = "down" BY <1>1 DEF Link!Opened, LinkInv, ReceiverInv, Looking
<1>2. CASE emacs.at # "down" BY <1>2 DEF Link!Opened
<1> QED BY <1>1, <1>2

LEMMA ProcessSteps ==
  ASSUME LinkNamed, LinkInv, NEW c \in Clients, Link!Click(c) \/ Link!Process(c) \/ Link!Kill(c)
  PROVE  LinkInv'
<1>0. LinkTypeOK /\ ClickInv(c) /\ emacs.call \notin queue BY DEF LinkInv, ClicksInv
<1>1. CASE Link!Click(c)
  <2>1. click[c].pc = "idle" /\ UNCHANGED <<emacs, queue, reply, moved, disk, buffer, location, held>>
    BY <1>1 DEF Link!Click
  <2>2. Unsaid(c) /\ ~InEmacs(c) BY <1>0, <2>1 DEF ClickInv, Early
  <2>3. CASE Link!Goes(c, "probe")
    <3>1. Forward(c) BY <1>0, <2>1, <2>3, GoesForm DEF Forward, Early
    <3>2. click'[c].pc = "probe" BY <1>0, <2>3, GoesForm DEF Early
    <3>3. ClickInv(c)' BY <2>1, <2>2, <3>2, UnsaidFacts DEF ClickInv, InEmacs, Early
    <3> QED BY <3>1, <3>3, ForwardInv
  <2>4. ASSUME NEW code \in {1, 2}, Link!Ended(c, code) PROVE LinkInv'
    <3>1. Forward(c) BY <1>0, <2>1, <2>4, EndedForm DEF Forward
    <3>2. click'[c].pc = "done" /\ click'[c].code = code BY <1>0, <2>4, EndedForm
    <3>3. ClickInv(c)' BY <2>1, <2>2, <2>4, <3>2, UnsaidFacts DEF ClickInv, InEmacs, Early
    <3> QED BY <3>1, <3>3, ForwardInv
  <2> QED BY <1>1, <2>3, <2>4 DEF Link!Click
<1>2. CASE Link!Probe(c)
  <2>1. click[c].pc = "probe" /\ UNCHANGED <<emacs, queue, reply, moved, disk, buffer, location, held>>
    BY <1>2 DEF Link!Probe
  <2>2. Unsaid(c) /\ ~InEmacs(c) BY <1>0, <2>1 DEF ClickInv, Early
  <2>3. ASSUME NEW pc \in {"ask", "launch"}, Link!Goes(c, pc) PROVE LinkInv'
    <3>1. Forward(c) BY <1>0, <2>1, <2>3, GoesForm DEF Forward, Early
    <3>2. click'[c].pc = pc BY <1>0, <2>3, GoesForm DEF Early
    <3>3. ClickInv(c)' BY <2>1, <2>2, <2>3, <3>2, UnsaidFacts DEF ClickInv, InEmacs, Early
    <3> QED BY <3>1, <3>3, ForwardInv
  <2>4. CASE Link!Ended(c, 1)
    <3>1. Forward(c) BY <1>0, <2>1, <2>4, EndedForm DEF Forward
    <3>2. click'[c].pc = "done" /\ click'[c].code = 1 BY <1>0, <2>4, EndedForm
    <3>3. ClickInv(c)' BY <2>1, <2>2, <3>2, UnsaidFacts DEF ClickInv, InEmacs, Early
    <3> QED BY <3>1, <3>3, ForwardInv
  <2> QED BY <1>2, <2>3, <2>4 DEF Link!Probe
<1>3. CASE Link!Launch(c)
  <2>1. click[c].pc = "launch" /\ UNCHANGED <<queue, reply, moved, disk, buffer, location, held>>
    BY <1>3 DEF Link!Launch
  <2>2. Unsaid(c) /\ ~InEmacs(c) BY <1>0, <2>1 DEF ClickInv, Early
  <2>3. \/ emacs' = emacs
        \/ \E at \in {"down", "starting", "free"} : emacs' = Link!Idle(at) /\ emacs.call \notin Clients
    BY <1>3, OpenedForm DEF Link!Launch
  <2>4. ~InEmacs(c)'
    BY <2>1, <2>2, <2>3, IdleForm DEF InEmacs, LinkNamed
  <2>5. CASE Link!Goes(c, "poll")
    <3>1. Forward(c) BY <1>0, <2>1, <2>3, <2>5, GoesForm DEF Forward, Early
    <3>2. click'[c].pc = "poll" BY <1>0, <2>5, GoesForm DEF Early
    <3>3. ClickInv(c)' BY <2>1, <2>2, <2>4, <3>2, UnsaidFacts DEF ClickInv, Early
    <3> QED BY <3>1, <3>3, ForwardInv
  <2>6. CASE Link!Ended(c, 1)
    <3>1. Forward(c) BY <1>0, <2>1, <2>3, <2>6, EndedForm DEF Forward
    <3>2. click'[c].pc = "done" /\ click'[c].code = 1 BY <1>0, <2>6, EndedForm
    <3>3. ClickInv(c)' BY <2>1, <2>2, <2>4, <3>2, UnsaidFacts DEF ClickInv, Early
    <3> QED BY <3>1, <3>3, ForwardInv
  <2> QED BY <1>3, <2>5, <2>6 DEF Link!Launch
<1>4. CASE Link!Poll(c)
  <2>1. click[c].pc = "poll" /\ UNCHANGED <<emacs, queue, reply, moved, disk, buffer, location, held>>
    BY <1>4 DEF Link!Poll
  <2>2. Unsaid(c) /\ ~InEmacs(c) BY <1>0, <2>1 DEF ClickInv, Early
  <2>3. CASE Link!Goes(c, "ask")
    <3>1. Forward(c) BY <1>0, <2>1, <2>3, GoesForm DEF Forward, Early
    <3>2. click'[c].pc = "ask" BY <1>0, <2>3, GoesForm DEF Early
    <3>3. ClickInv(c)' BY <2>1, <2>2, <3>2, UnsaidFacts DEF ClickInv, InEmacs, Early
    <3> QED BY <3>1, <3>3, ForwardInv
  <2>4. CASE click' = [click EXCEPT ![c].polls = @ + 1]
    <3>1. click[c] \in ClickRecords BY <1>0 DEF LinkTypeOK
    <3>2. PICK r : r = [click[c] EXCEPT !.polls = @ + 1] OBVIOUS
    <3>3. r \in ClickRecords /\ r.pc = "poll" BY <2>1, <3>1, <3>2 DEF ClickRecords
    <3>4. click' = [click EXCEPT ![c] = r] BY <2>4, <3>2
    <3>5. Forward(c) /\ click'[c].pc = "poll" BY <1>0, <2>1, <3>3, <3>4 DEF Forward, LinkTypeOK
    <3>6. ClickInv(c)' BY <2>1, <2>2, <3>5, UnsaidFacts DEF ClickInv, InEmacs, Early
    <3> QED BY <3>5, <3>6, ForwardInv
  <2>5. CASE Link!Ended(c, 1)
    <3>1. Forward(c) BY <1>0, <2>1, <2>5, EndedForm DEF Forward
    <3>2. click'[c].pc = "done" /\ click'[c].code = 1 BY <1>0, <2>5, EndedForm
    <3>3. ClickInv(c)' BY <2>1, <2>2, <3>2, UnsaidFacts DEF ClickInv, InEmacs, Early
    <3> QED BY <3>1, <3>3, ForwardInv
  <2> QED BY <1>4, <2>3, <2>4, <2>5 DEF Link!Poll
<1>5. CASE Link!Ask(c)
  <2>1. click[c].pc = "ask" /\ UNCHANGED <<emacs, reply, moved, disk, buffer, location, held>>
    BY <1>5 DEF Link!Ask
  <2>2. Unsaid(c) /\ ~InEmacs(c) BY <1>0, <2>1 DEF ClickInv, Early
  <2>3. CASE Link!Ended(c, 1) /\ UNCHANGED queue
    <3>1. Forward(c) BY <1>0, <2>1, <2>3, EndedForm DEF Forward
    <3>2. click'[c].pc = "done" /\ click'[c].code = 1 BY <1>0, <2>3, EndedForm
    <3>3. ClickInv(c)' BY <2>1, <2>2, <2>3, <3>2, UnsaidFacts DEF ClickInv, InEmacs, Early
    <3> QED BY <3>1, <3>3, ForwardInv
  <2>4. CASE Link!Goes(c, "eval") /\ queue' = queue \cup {c}
    <3>1. Forward(c) BY <1>0, <2>1, <2>2, <2>4, GoesForm DEF Forward, InEmacs
    <3>2. click'[c].pc = "eval" BY <1>0, <2>4, GoesForm
    <3>3. ClickInv(c)' BY <2>1, <2>2, <3>2, UnsaidFacts DEF ClickInv, InEmacs, Early
    <3> QED BY <3>1, <3>3, ForwardInv
  <2> QED BY <1>5, <2>3, <2>4 DEF Link!Ask
<1>6. CASE Link!Classify(c)
  <2>1. /\ click[c].pc = "eval" /\ ~Unsaid(c)
        /\ UNCHANGED <<emacs, queue, reply, moved, disk, buffer, location, held>>
    BY <1>6 DEF Link!Classify, Unsaid
  <2>2. ~InEmacs(c) /\ (reply[c] = "ok" => moved[c] # Link!Nowhere) BY <1>0, <2>1 DEF ClickInv
  <2>3. CASE reply[c] \in Link!Normal /\ Link!Goes(c, "activate")
    <3>1. Forward(c) BY <1>0, <2>1, <2>3, GoesForm DEF Forward
    <3>2. click'[c].pc = "activate" BY <1>0, <2>3, GoesForm
    <3>3. ClickInv(c)' BY <2>1, <2>2, <2>3, <3>2, UnsaidFacts DEF ClickInv, InEmacs, Early
    <3> QED BY <3>1, <3>3, ForwardInv
  <2>4. CASE reply[c] \notin Link!Normal /\ Link!Ended(c, 1)
    <3>1. Forward(c) BY <1>0, <2>1, <2>4, EndedForm DEF Forward
    <3>2. click'[c].pc = "done" /\ click'[c].code = 1 BY <1>0, <2>4, EndedForm
    <3>3. ClickInv(c)' BY <2>1, <2>2, <2>4, <3>2, UnsaidFacts DEF ClickInv, InEmacs, Early
    <3> QED BY <3>1, <3>3, ForwardInv
  <2> QED BY <1>6, <2>3, <2>4 DEF Link!Classify, Link!NormalResults
<1>7. CASE Link!Expire(c)
  <2>1. /\ click[c].pc = "eval" /\ queue' \in {queue, queue \ {c}}
        /\ UNCHANGED <<emacs, reply, moved, disk, buffer, location, held>>
    BY <1>7 DEF Link!Expire
  <2>2. click[c] \in ClickRecords BY <1>0 DEF LinkTypeOK
  <2>3. PICK r : r = [click[c] EXCEPT !.pc = "done", !.code = 1, !.late = TRUE] OBVIOUS
  <2>4. r = [pc |-> "done", polls |-> click[c].polls, code |-> 1, late |-> TRUE]
    BY <2>2, <2>3 DEF ClickRecords
  <2>8. r \in ClickRecords /\ r.pc = "done" /\ r.code = 1 /\ r.late = TRUE
    BY <2>2, <2>4 DEF ClickRecords
  <2>5. click' = [click EXCEPT ![c] = r] BY <1>7, <2>3 DEF Link!Expire
  <2>6. Forward(c) /\ click'[c] = r BY <1>0, <2>1, <2>8, <2>5 DEF Forward, LinkTypeOK
  <2>7. ClickInv(c)' BY <1>0, <2>1, <2>6, <2>8, UnsaidFacts DEF ClickInv, InEmacs, Early, Late
  <2> QED BY <2>6, <2>7, ForwardInv
<1>8. CASE Link!Activate(c)
  <2>1. /\ click[c].pc = "activate" /\ Link!Ended(c, 0)
        /\ UNCHANGED <<queue, reply, moved, disk, buffer, location, held>>
    BY <1>8 DEF Link!Activate
  <2>2. reply[c] \in Link!Normal /\ ~InEmacs(c) /\ (reply[c] = "ok" => moved[c] # Link!Nowhere)
    BY <1>0, <2>1, UnsaidFacts DEF ClickInv
  <2>3. \/ emacs' = emacs
        \/ \E at \in {"down", "starting", "free"} : emacs' = Link!Idle(at) /\ emacs.call \notin Clients
    BY <1>8, OpenedForm DEF Link!Activate
  <2>4. ~InEmacs(c)' BY <2>1, <2>2, <2>3, IdleForm DEF InEmacs, LinkNamed
  <2>5. Forward(c) BY <1>0, <2>1, <2>3, EndedForm DEF Forward
  <2>6. click'[c].pc = "done" /\ click'[c].code = 0 BY <1>0, <2>1, EndedForm
  <2>7. ClickInv(c)' BY <2>1, <2>2, <2>4, <2>6, UnsaidFacts DEF ClickInv, Early
  <2> QED BY <2>5, <2>7, ForwardInv
<1>9. CASE Link!Kill(c)
  <2>1. /\ click[c].pc \notin {"idle", "done"}
        /\ UNCHANGED <<emacs, queue, reply, moved, disk, buffer, location, held>>
    BY <1>9 DEF Link!Kill
  <2>2. Link!Ended(c, 137) BY <1>9 DEF Link!Kill
  <2>3. Forward(c) BY <1>0, <2>1, <2>2, EndedForm DEF Forward
  <2>4. click'[c].pc = "done" /\ click'[c].code = 137 BY <1>0, <2>2, EndedForm
  <2>5. ClickInv(c)' BY <1>0, <2>1, <2>4, UnsaidFacts DEF ClickInv, InEmacs, Early
  <2> QED BY <2>3, <2>5, ForwardInv
<1> QED BY <1>1, <1>2, <1>3, <1>4, <1>5, <1>6, <1>7, <1>8, <1>9 DEF Link!Process

\* A step of Emacs leaves the processes alone; it may answer one it worked for.
LEMMA ClicksKept ==
  ASSUME LinkNamed, LinkInv, click' = click, emacs'.call \notin queue',
         \A d \in Clients : InEmacs(d)' => InEmacs(d),
         \A d \in Clients : moved'[d] = moved[d] \/ moved'[d] \in Link!Files,
         \A d \in Clients :
            \/ reply'[d] = reply[d]
            \/ /\ InEmacs(d) /\ ~InEmacs(d)' /\ ~Unsaid(d)'
               /\ reply'[d] = "ok" => moved'[d] # Link!Nowhere
  PROVE  ClicksInv'
<1> SUFFICES ASSUME NEW d \in Clients PROVE ClickInv(d)' BY DEF ClicksInv
<1>1. click'[d] = click[d] /\ (Late(d)' <=> Late(d)) /\ ClickInv(d) BY DEF Late, LinkInv, ClicksInv
<1>2. moved[d] # Link!Nowhere => moved'[d] # Link!Nowhere BY DEF LinkNamed
<1>3. CASE reply'[d] = reply[d]
  <2>1. Unsaid(d)' <=> Unsaid(d) BY <1>3 DEF Unsaid
  <2> QED BY <1>1, <1>2, <1>3, <2>1 DEF ClickInv
<1>4. CASE /\ InEmacs(d) /\ ~InEmacs(d)' /\ ~Unsaid(d)'
           /\ reply'[d] = "ok" => moved'[d] # Link!Nowhere
  <2>1. click[d].pc = "eval" \/ (click[d].pc = "done" /\ (Late(d) \/ click[d].code = 137))
    BY <1>1, <1>4 DEF ClickInv
  <2>2. CASE click[d].pc = "eval" BY <1>1, <1>4, <2>2 DEF ClickInv, Early
  <2>3. CASE click[d].pc = "done" /\ click[d].code = 137 BY <1>1, <1>4, <2>3 DEF ClickInv, Early
  <2>4. CASE click[d].pc = "done" /\ Late(d)
    <3>0. Unsaid(d) BY <1>1, <1>4 DEF ClickInv
    <3>1. reply[d] \notin Link!Normal BY <3>0, UnsaidFacts
    <3>2. click[d].code # 0 BY <1>1, <2>4, <3>1 DEF ClickInv
    <3>3. click[d].code # 2 BY <1>1, <1>4, <2>4 DEF ClickInv
    <3> QED BY <1>1, <1>4, <2>4, <3>2, <3>3 DEF ClickInv, Early
  <2> QED BY <2>1, <2>2, <2>3, <2>4
<1> QED BY <1>3, <1>4

LEMMA ViewFacts ==
  ASSUME LinkTypeOK, NEW f \in Link!Files
  PROVE  /\ Link!Seen(f) \in [disk : Link!Shapes, buffer : Texts]
         /\ Link!View(Link!Seen(f)) \in Link!Shapes
         /\ Link!Lacks(Link!Seen(f)) <=> Link!View(Link!Seen(f)) = 0 \/ disk[f] = Link!Gone
         /\ Link!View(Link!Seen(f)) = Link!Gone => Link!Lacks(Link!Seen(f))
<1>1. disk[f] \in Link!Shapes /\ buffer[f] \in Texts BY DEF LinkTypeOK
<1>2. Link!Seen(f).disk = disk[f] /\ Link!Seen(f).buffer = buffer[f] BY DEF Link!Seen
<1> QED
  BY <1>1, <1>2 DEF Link!Seen, Link!View, Link!Lacks, Link!Shapes, Texts, Link!Gone, Link!NoBuffer,
                  Link!Denied

LEMMA AnswersForm ==
  ASSUME emacs.answer \in Link!Normal
  PROVE  Link!AnswersTrue <=>
         (emacs.at = "answer" =>
            /\ emacs.answer = "ok" => OkTrue
            /\ emacs.answer = "not-found" => MissingTrue
            /\ emacs.answer = "duplicate" => SeveralTrue
            /\ emacs.answer = "incomplete" => IncompleteTrue)
<1>1. CASE emacs.answer = "ok" BY <1>1 DEF Link!AnswersTrue, OkTrue
<1>2. CASE emacs.answer = "not-found" BY <1>2 DEF Link!AnswersTrue, MissingTrue
<1>3. CASE emacs.answer = "duplicate" BY <1>3 DEF Link!AnswersTrue, SeveralTrue
<1>4. CASE emacs.answer = "incomplete" BY <1>4 DEF Link!AnswersTrue, IncompleteTrue
<1> QED BY <1>1, <1>2, <1>3, <1>4 DEF Link!Normal

LEMMA AnswersHold ==
  ASSUME emacs'.at = "answer", emacs'.answer \in Link!Normal,
         emacs'.answer = "ok" => OkTrue',
         emacs'.answer = "not-found" => MissingTrue',
         emacs'.answer = "duplicate" => SeveralTrue',
         emacs'.answer = "incomplete" => IncompleteTrue'
  PROVE  Link!AnswersTrue'
<1>1. CASE emacs'.answer = "ok" BY <1>1 DEF Link!AnswersTrue, OkTrue
<1>2. CASE emacs'.answer = "not-found" BY <1>2 DEF Link!AnswersTrue, MissingTrue
<1>3. CASE emacs'.answer = "duplicate" BY <1>3 DEF Link!AnswersTrue, SeveralTrue
<1>4. CASE emacs'.answer = "incomplete" BY <1>4 DEF Link!AnswersTrue, IncompleteTrue
<1> QED BY <1>1, <1>2, <1>3, <1>4 DEF Link!Normal

\* As long as the receiver works, what was seen stays seen.
LEMMA HeldGrows ==
  ASSUME LinkInv, UNCHANGED <<emacs, moved, buffer>>,
         \A f \in Link!Files : held[f] \subseteq held'[f],
         Looking => \A f \in Link!Files : Link!Seen(f)' \in held'[f]
  PROVE  ReceiverInv' /\ Link!AnswersTrue'
<1>0. Link!Searched \subseteq Link!Files
  BY DEF Link!Searched, Link!Files, LinkInv, LinkTypeOK, EmacsRecords
<1>1. /\ Link!Searched' = Link!Searched /\ Link!Hits' = Link!Hits
      /\ (Link!Several' <=> Link!Several) /\ (Looking' <=> Looking)
  BY DEF Link!Searched, Link!Hits, Link!Several, Looking
<1>2. \A f \in Link!Searched : Noted(f) => Noted(f)' BY <1>0 DEF Noted
<1>3. ReceiverInv' BY <1>1, <1>2 DEF LinkInv, ReceiverInv
<1>4. ASSUME emacs.at = "answer" PROVE Link!AnswersTrue'
  <2>1. /\ emacs.answer \in Link!Normal /\ emacs' = emacs /\ emacs.call \in Clients
        /\ emacs.answer = "ok" => moved[emacs.call] \in Link!Files
    BY <1>4 DEF LinkInv, ReceiverInv
  <2>3. /\ emacs.answer = "ok" => OkTrue
        /\ emacs.answer = "not-found" => MissingTrue
        /\ emacs.answer = "duplicate" => SeveralTrue
        /\ emacs.answer = "incomplete" => IncompleteTrue
    BY <1>4, <2>1, AnswersForm DEF LinkInv
  <2>4. OkTrue => OkTrue' BY <1>0, <1>1 DEF OkTrue
  <2>5. MissingTrue => MissingTrue' BY <1>0, <1>1 DEF MissingTrue
  <2>6. SeveralTrue => SeveralTrue' BY <1>0, <1>1 DEF SeveralTrue
  <2>7. IncompleteTrue => IncompleteTrue' BY <1>0, <1>1 DEF IncompleteTrue
  <2> QED BY <1>4, <2>1, <2>3, <2>4, <2>5, <2>6, <2>7, AnswersHold
<1>5. emacs.at # "answer" => Link!AnswersTrue' BY DEF Link!AnswersTrue
<1> QED BY <1>3, <1>4, <1>5

LEMMA ReceiveStep ==
  ASSUME LinkNamed, LinkInv, NEW c \in Clients, Link!Receive(c)
  PROVE  LinkInv'
<1>0. LinkTypeOK BY DEF LinkInv
<1>1. /\ emacs.at = "free" /\ c \in queue /\ queue' = queue \ {c}
      /\ held' = [f \in Link!Files |-> {Link!Seen(f)}]
      /\ UNCHANGED <<click, reply, moved, disk, buffer, location, disturbances>>
  BY DEF Link!Receive
<1>2. PICK cached : cached = {location} \ {Link!Nowhere} OBVIOUS
<1>3. cached \subseteq Link!Files BY <1>0, <1>2 DEF LinkTypeOK
<1>4. PICK todo : todo = {f \in Headings \cup cached : disk[f] # Link!Gone} OBVIOUS
<1>5. PICK hits : hits = [f \in Link!Files |-> 0] OBVIOUS
<1>6. PICK base : base = Link!Idle("scan") OBVIOUS
<1>7. /\ base \in EmacsRecords /\ base.at = "scan" /\ base.hits = hits /\ base.failed = {}
      /\ base.cached = {}
  <2>1. hits \in [Link!Files -> 0..2] BY <1>5
  <2> QED BY <1>5, <1>6, <2>1 DEF Link!Idle, EmacsRecords
<1>8. /\ emacs'.at = "scan" /\ emacs'.call = c /\ emacs'.todo = todo /\ emacs'.hits = hits
      /\ emacs'.failed = {} /\ emacs'.cached = cached /\ emacs'.answer = base.answer
      /\ emacs' = [base EXCEPT !.call = c, !.cached = cached, !.todo = todo]
  <2>1. emacs' = [base EXCEPT !.call = c, !.cached = cached, !.todo = todo]
    BY <1>2, <1>4, <1>6 DEF Link!Receive
  <2> QED BY <1>7, <2>1 DEF EmacsRecords
<1>9. todo \subseteq Headings \cup cached /\ Headings \cup cached \subseteq Link!Files
  BY <1>3, <1>4 DEF Link!Files
<1>10. emacs' \in EmacsRecords
  <2>1. todo \subseteq Link!Files BY <1>9
  <2> QED BY <1>3, <1>7, <1>8, <2>1 DEF EmacsRecords
<1>11. LinkTypeOK'
  <2>1. held' \in [Link!Files -> SUBSET [disk : Link!Shapes, buffer : Texts]]
    BY <1>0, <1>1, ViewFacts
  <2> QED BY <1>0, <1>1, <1>10, <2>1 DEF LinkTypeOK
<1>12. Link!Searched' = Headings \cup cached BY <1>8 DEF Link!Searched
<1>13. ReceiverInv'
  <2>1. \A f \in Link!Files : Link!Seen(f)' \in held'[f] BY <1>1 DEF Link!Seen
  <2>2. \A f \in Link!Files : emacs'.hits[f] = 0 /\ f \notin emacs'.failed BY <1>5, <1>8
  <2>3. ASSUME NEW f \in Link!Searched' \ emacs'.todo PROVE Noted(f)'
    <3>1. f \in Link!Files /\ disk[f] = Link!Gone BY <1>4, <1>8, <1>9, <1>12
    <3>2. Link!Lacks(Link!Seen(f)) /\ Link!Seen(f) \in held'[f] BY <1>0, <1>1, <3>1, ViewFacts
    <3> QED BY <2>2, <3>1, <3>2 DEF Noted
  <2> QED BY <1>8, <1>9, <1>12, <2>1, <2>2, <2>3 DEF ReceiverInv, Looking
<1>14. Link!AnswersTrue' BY <1>8 DEF Link!AnswersTrue
<1>15. ClicksInv' BY <1>1, <1>8, ClicksKept DEF InEmacs
<1> QED BY <1>11, <1>13, <1>14, <1>15 DEF LinkInv

LEMMA ScanStep ==
  ASSUME LinkNamed, LinkInv, NEW f \in Link!Files, Link!Scan(f)
  PROVE  LinkInv'
<1>0. LinkTypeOK /\ ReceiverInv BY DEF LinkInv
<1>1. /\ emacs.at = "scan" /\ f \in emacs.todo
      /\ UNCHANGED <<click, queue, reply, moved, disk, buffer, location, held, disturbances>>
  BY DEF Link!Scan
<1>2. PICK v : v = Link!View(Link!Seen(f)) OBVIOUS
<1>3. v \in Link!Shapes BY <1>0, <1>2, ViewFacts
<1>4. PICK hits : hits = [emacs.hits EXCEPT ![f] = IF v > 0 THEN v ELSE 0] OBVIOUS
<1>5. PICK failed : failed = IF v = Link!Denied THEN emacs.failed \cup {f} ELSE emacs.failed OBVIOUS
<1>6. emacs \in EmacsRecords BY <1>0 DEF LinkTypeOK
<1>7. PICK e : e = [emacs EXCEPT !.todo = @ \ {f}, !.hits = hits, !.failed = failed] OBVIOUS
<1>8. emacs' = e
  BY <1>2, <1>4, <1>5, <1>6, <1>7 DEF Link!Scan, EmacsRecords
<1>9. /\ e.at = "scan" /\ e.call = emacs.call /\ e.todo = emacs.todo \ {f} /\ e.hits = hits
      /\ e.failed = failed /\ e.cached = emacs.cached /\ e.answer = emacs.answer
  BY <1>1, <1>6, <1>7 DEF EmacsRecords
<1>10. /\ emacs.hits \in [Link!Files -> 0..2]
       /\ hits \in [Link!Files -> 0..2] /\ failed \subseteq Link!Files
       /\ hits[f] = IF v > 0 THEN v ELSE 0
       /\ \A g \in Link!Files : g # f => hits[g] = emacs.hits[g] /\ (g \in failed <=> g \in emacs.failed)
  <2>1. emacs.hits \in [Link!Files -> 0..2] /\ emacs.failed \subseteq Link!Files
    BY <1>6 DEF EmacsRecords
  <2>2. (IF v > 0 THEN v ELSE 0) \in 0..2 BY <1>3 DEF Link!Shapes, Link!Gone, Link!Denied
  <2> QED BY <1>4, <1>5, <2>1, <2>2
<1>11. e \in EmacsRecords
  <2>1. e = [at |-> emacs.at, call |-> emacs.call, todo |-> emacs.todo \ {f}, hits |-> hits,
             failed |-> failed, cached |-> emacs.cached, answer |-> emacs.answer]
    BY <1>6, <1>7 DEF EmacsRecords
  <2> QED BY <1>6, <1>10, <2>1 DEF EmacsRecords
<1>12. LinkTypeOK' BY <1>0, <1>1, <1>8, <1>11 DEF LinkTypeOK
<1>13. Link!Searched' = Link!Searched /\ Looking /\ Looking'
  BY <1>1, <1>8, <1>9 DEF Link!Searched, Looking
<1>14. \A g \in Link!Files : Link!Seen(g)' = Link!Seen(g) /\ held'[g] = held[g]
  BY <1>1 DEF Link!Seen
<1>15. ReceiverInv'
  <2>1. \A g \in Link!Files : Link!Seen(g)' \in held'[g] BY <1>0, <1>13, <1>14 DEF ReceiverInv
  <2>2. ASSUME NEW g \in Link!Files, g \notin Link!Searched \/ g \in e.todo
        PROVE  e.hits[g] = 0 /\ g \notin e.failed
    <3>1. g # f /\ (g \notin Link!Searched \/ g \in emacs.todo)
      BY <1>0, <1>1, <1>9, <2>2 DEF ReceiverInv
    <3>2. emacs.hits[g] = 0 /\ g \notin emacs.failed BY <1>0, <1>13, <3>1 DEF ReceiverInv
    <3> QED BY <1>9, <1>10, <3>1, <3>2
  <2>3. ASSUME NEW g \in Link!Searched, g \notin e.todo PROVE Noted(g)'
    <3>0. g \in Link!Files BY <1>6 DEF Link!Searched, Link!Files, EmacsRecords
    <3>1. CASE g = f
      <4>1. Link!View(Link!Seen(f)) = v /\ Link!Seen(f) \in held'[f]
        BY <1>0, <1>2, <1>13, <1>14 DEF ReceiverInv
      <4>2. hits[f] > 0 => v = hits[f] BY <1>3, <1>10 DEF Link!Shapes, Link!Gone, Link!Denied
      <4>3. f \notin emacs.failed BY <1>0, <1>1, <1>13 DEF ReceiverInv
      <4>4. f \in failed => v = Link!Denied BY <1>5, <4>3
      <4>5. hits[f] = 0 /\ f \notin failed => v = 0 \/ v = Link!Gone
        BY <1>3, <1>5, <1>10 DEF Link!Shapes, Link!Gone, Link!Denied
      <4>6. v = 0 \/ v = Link!Gone => Link!Lacks(Link!Seen(f)) BY <1>0, <1>2, ViewFacts
      <4> QED BY <1>8, <1>9, <3>1, <4>1, <4>2, <4>4, <4>5, <4>6 DEF Noted
    <3>2. CASE g # f
      <4>1. Noted(g) BY <1>0, <1>9, <1>13, <2>3, <3>2 DEF ReceiverInv
      <4> QED BY <1>8, <1>9, <1>10, <1>14, <3>0, <3>2, <4>1 DEF Noted
    <3> QED BY <3>1, <3>2
  <2>4. emacs'.call \in Clients /\ emacs'.todo \subseteq Link!Searched'
    BY <1>0, <1>8, <1>9, <1>13 DEF ReceiverInv
  <2> QED BY <1>8, <1>9, <1>13, <2>1, <2>2, <2>3, <2>4 DEF ReceiverInv
<1>16. Link!AnswersTrue' BY <1>8, <1>9 DEF Link!AnswersTrue
<1>17. ClicksInv'
  <2>1. emacs'.call \notin queue' BY <1>1, <1>8, <1>9 DEF LinkInv, ClicksInv
  <2> QED BY <1>1, <1>8, <1>9, <2>1, ClicksKept DEF InEmacs
<1> QED BY <1>12, <1>15, <1>16, <1>17 DEF LinkInv

LEMMA DecideStep ==
  ASSUME LinkNamed, LinkInv, Link!Decide
  PROVE  LinkInv'
<1>0. LinkTypeOK /\ ReceiverInv BY DEF LinkInv
<1>1. /\ emacs.at = "scan" /\ emacs.todo = {}
      /\ UNCHANGED <<click, queue, reply, moved, disk, buffer, location, held, disturbances>>
  BY DEF Link!Decide
<1>2. emacs \in EmacsRecords BY <1>0 DEF LinkTypeOK
<1>3. /\ emacs.hits \in [Link!Files -> 0..2]
      /\ Link!Searched \subseteq Link!Files
      /\ emacs.failed \subseteq Link!Searched /\ Link!Hits \subseteq Link!Searched
      /\ \A f \in Link!Searched : Noted(f)
      /\ emacs.call \in Clients
  <2>1. /\ emacs.hits \in [Link!Files -> 0..2] /\ Link!Searched \subseteq Link!Files
        /\ emacs.failed \subseteq Link!Files
    BY <1>2 DEF EmacsRecords, Link!Searched, Link!Files
  <2> QED BY <1>0, <1>1, <2>1 DEF ReceiverInv, Looking, Link!Hits
<1>4. ASSUME NEW answer \in Link!Normal, emacs' = [emacs EXCEPT !.at = "answer", !.answer = answer],
             answer = "ok" => FALSE,
             answer = "not-found" => MissingTrue,
             answer = "duplicate" => SeveralTrue,
             answer = "incomplete" => IncompleteTrue
      PROVE  LinkInv'
  <2>1. /\ emacs'.at = "answer" /\ emacs'.answer = answer /\ emacs'.call = emacs.call
        /\ emacs'.cached = emacs.cached /\ emacs'.todo = emacs.todo
        /\ emacs' \in EmacsRecords
    BY <1>2, <1>4 DEF EmacsRecords
  <2>2. LinkTypeOK' BY <1>0, <1>1, <2>1 DEF LinkTypeOK
  <2>3. ReceiverInv' BY <1>1, <1>3, <1>4, <2>1 DEF ReceiverInv, Looking
  <2>4. Link!Searched' = Link!Searched /\ held' = held BY <1>1, <2>1 DEF Link!Searched
  <2>5. /\ MissingTrue => MissingTrue'
        /\ SeveralTrue => SeveralTrue'
        /\ IncompleteTrue => IncompleteTrue'
    BY <2>4 DEF MissingTrue, SeveralTrue, IncompleteTrue
  <2>6. Link!AnswersTrue' BY <1>4, <2>1, <2>5, AnswersHold
  <2>7. ClicksInv'
    <3>1. emacs'.call \notin queue' BY <1>1, <2>1 DEF LinkInv, ClicksInv
    <3> QED BY <1>1, <2>1, <3>1, ClicksKept DEF InEmacs
  <2> QED BY <2>2, <2>3, <2>6, <2>7 DEF LinkInv
<1>5. CASE Link!Several
  <2>1. emacs' = [emacs EXCEPT !.at = "answer", !.answer = "duplicate"] BY <1>5 DEF Link!Decide
  <2>2. SeveralTrue
    <3>1. \A f \in Link!Hits :
             emacs.hits[f] \in 1..2 /\ \E seen \in held[f] : Link!View(seen) = emacs.hits[f]
      BY <1>3 DEF Link!Hits, Noted
    <3> QED BY <1>3, <1>5, <3>1 DEF Link!Several, SeveralTrue
  <2> QED BY <1>4, <2>1, <2>2 DEF Link!Normal
<1>6. CASE ~Link!Several /\ emacs.failed # {}
  <2>1. emacs' = [emacs EXCEPT !.at = "answer", !.answer = "incomplete"] BY <1>6 DEF Link!Decide
  <2>2. IncompleteTrue BY <1>3, <1>6 DEF IncompleteTrue, Noted
  <2> QED BY <1>4, <2>1, <2>2 DEF Link!Normal
<1>7. CASE ~Link!Several /\ emacs.failed = {} /\ Link!Hits = {}
  <2>1. emacs' = [emacs EXCEPT !.at = "answer", !.answer = "not-found"] BY <1>7 DEF Link!Decide
  <2>2. ASSUME NEW g \in Link!Searched PROVE \E seen \in held[g] : Link!Lacks(seen)
    <3>1. emacs.hits[g] = 0 BY <1>3, <1>7 DEF Link!Hits
    <3> QED BY <1>3, <1>7, <3>1 DEF Noted
  <2>3. MissingTrue BY <2>2 DEF MissingTrue
  <2> QED BY <1>4, <2>1, <2>3 DEF Link!Normal
<1>8. CASE ~Link!Several /\ emacs.failed = {} /\ Link!Hits # {}
  <2>1. emacs' = [emacs EXCEPT !.at = "goto"] BY <1>8 DEF Link!Decide
  <2>2. /\ emacs'.at = "goto" /\ emacs'.call = emacs.call /\ emacs'.cached = emacs.cached
        /\ emacs'.todo = emacs.todo /\ emacs'.hits = emacs.hits /\ emacs'.failed = emacs.failed
        /\ emacs' \in EmacsRecords
    BY <1>2, <2>1 DEF EmacsRecords
  <2>3. LinkTypeOK' BY <1>0, <1>1, <2>2 DEF LinkTypeOK
  <2>4. /\ Link!Searched' = Link!Searched /\ Link!Hits' = Link!Hits
        /\ (Link!Several' <=> Link!Several) /\ Looking /\ Looking'
    BY <1>1, <2>2 DEF Link!Searched, Link!Hits, Link!Several, Looking
  <2>5. \A f \in Link!Files :
           (Noted(f)' <=> Noted(f)) /\ Link!Seen(f)' = Link!Seen(f) /\ held'[f] = held[f]
    BY <1>1, <2>2 DEF Noted, Link!Seen
  <2>6. ReceiverInv' BY <1>0, <1>1, <1>3, <1>8, <2>2, <2>4, <2>5 DEF ReceiverInv
  <2>7. Link!AnswersTrue' BY <2>2 DEF Link!AnswersTrue
  <2>8. ClicksInv'
    <3>1. emacs'.call \notin queue' BY <1>1, <2>2 DEF LinkInv, ClicksInv
    <3> QED BY <1>1, <2>2, <3>1, ClicksKept DEF InEmacs
  <2> QED BY <2>3, <2>6, <2>7, <2>8 DEF LinkInv
<1> QED BY <1>5, <1>6, <1>7, <1>8

LEMMA GotoStep ==
  ASSUME LinkNamed, LinkInv, NEW f \in Link!Files, Link!Goto(f)
  PROVE  LinkInv'
<1>0. LinkTypeOK /\ ReceiverInv BY DEF LinkInv
<1>1. /\ emacs.at = "goto" /\ f \in Link!Hits
      /\ UNCHANGED <<click, queue, reply, disk, held, disturbances>>
  BY DEF Link!Goto
<1>2. emacs \in EmacsRecords BY <1>0 DEF LinkTypeOK
<1>3. /\ emacs.hits \in [Link!Files -> 0..2]
      /\ Link!Searched \subseteq Link!Files /\ Link!Hits \subseteq Link!Searched
      /\ \A g \in Link!Searched : Noted(g)
      /\ emacs.call \in Clients /\ emacs.todo = {} /\ emacs.failed = {} /\ ~Link!Several
      /\ Link!Seen(f) \in held[f]
  <2>1. emacs.hits \in [Link!Files -> 0..2] /\ Link!Searched \subseteq Link!Files
    BY <1>2 DEF EmacsRecords, Link!Searched, Link!Files
  <2> QED BY <1>0, <1>1, <2>1 DEF ReceiverInv, Looking, Link!Hits
<1>4. ASSUME NEW g \in Link!Searched, g # f PROVE \E seen \in held[g] : Link!Lacks(seen)
  <2>1. g \notin Link!Hits BY <1>1, <1>3, <1>4 DEF Link!Several
  <2>2. emacs.hits[g] = 0 BY <1>3, <2>1 DEF Link!Hits
  <2> QED BY <1>3, <2>2 DEF Noted
<1>5. ASSUME NEW answer \in {"ok", "not-found"}, emacs' = [emacs EXCEPT !.at = "answer", !.answer = answer]
      PROVE  /\ emacs'.at = "answer" /\ emacs'.answer = answer /\ emacs'.call = emacs.call
             /\ emacs'.cached = emacs.cached /\ emacs'.todo = emacs.todo
             /\ emacs' \in EmacsRecords /\ Link!Searched' = Link!Searched
  BY <1>2, <1>5 DEF EmacsRecords, Link!Searched, Link!Normal
<1>6. CASE Link!View(Link!Seen(f)) > 0
  <2>1. PICK v : v = Link!View(Link!Seen(f)) OBVIOUS
  <2>2. v \in {1, 2} /\ v \in Texts
    BY <1>0, <1>6, <2>1, ViewFacts DEF Link!Shapes, Texts, Link!Gone, Link!Denied
  <2>3. /\ buffer' = [buffer EXCEPT ![f] = v] /\ moved' = [moved EXCEPT ![emacs.call] = f]
        /\ location' = f /\ emacs' = [emacs EXCEPT !.at = "answer", !.answer = "ok"]
    BY <1>6, <2>1 DEF Link!Goto
  <2>4. /\ emacs'.at = "answer" /\ emacs'.answer = "ok" /\ emacs'.call = emacs.call
        /\ emacs'.cached = emacs.cached /\ emacs'.todo = emacs.todo
        /\ emacs' \in EmacsRecords /\ Link!Searched' = Link!Searched
    BY <1>5, <2>3
  <2>5. /\ moved' \in [Clients -> Link!Files \cup {Link!Nowhere}] /\ buffer' \in [Link!Files -> Texts]
        /\ moved'[emacs.call] = f /\ buffer'[f] = v
        /\ \A d \in Clients : moved'[d] = moved[d] \/ moved'[d] \in Link!Files
    BY <1>0, <1>3, <2>2, <2>3 DEF LinkTypeOK
  <2>6. LinkTypeOK' BY <1>0, <1>1, <2>3, <2>4, <2>5 DEF LinkTypeOK
  <2>7. ReceiverInv' BY <1>3, <2>4, <2>5 DEF ReceiverInv, Looking, Link!Normal
  <2>8. OkTrue' BY <1>1, <1>4, <2>2, <2>4, <2>5 DEF OkTrue
  <2>9. Link!AnswersTrue' BY <2>4, <2>8, AnswersHold DEF Link!Normal
  <2>10. ClicksInv'
    <3>1. emacs'.call \notin queue' BY <1>1, <2>4 DEF LinkInv, ClicksInv
    <3> QED BY <1>1, <2>4, <2>5, <3>1, ClicksKept DEF InEmacs
  <2> QED BY <2>6, <2>7, <2>9, <2>10 DEF LinkInv
<1>7. CASE ~(Link!View(Link!Seen(f)) > 0)
  <2>1. /\ emacs' = [emacs EXCEPT !.at = "answer", !.answer = "not-found"]
        /\ UNCHANGED <<buffer, moved, location>>
    BY <1>7 DEF Link!Goto
  <2>2. /\ emacs'.at = "answer" /\ emacs'.answer = "not-found" /\ emacs'.call = emacs.call
        /\ emacs'.cached = emacs.cached /\ emacs'.todo = emacs.todo
        /\ emacs' \in EmacsRecords /\ Link!Searched' = Link!Searched
    BY <1>5, <2>1
  <2>3. LinkTypeOK' BY <1>0, <1>1, <2>1, <2>2 DEF LinkTypeOK
  <2>4. ReceiverInv' BY <1>3, <2>2 DEF ReceiverInv, Looking, Link!Normal
  <2>5. Link!View(Link!Seen(f)) = Link!Denied \/ Link!Lacks(Link!Seen(f))
    <3>1. Link!View(Link!Seen(f)) \in {Link!Gone, Link!Denied, 0}
      BY <1>0, <1>7, ViewFacts DEF Link!Shapes
    <3> QED BY <1>0, <3>1, ViewFacts
  <2>6. MissingTrue' BY <1>1, <1>3, <1>4, <2>2, <2>5 DEF MissingTrue
  <2>7. Link!AnswersTrue' BY <2>2, <2>6, AnswersHold DEF Link!Normal
  <2>8. ClicksInv'
    <3>1. emacs'.call \notin queue' BY <1>1, <2>2 DEF LinkInv, ClicksInv
    <3> QED BY <1>1, <2>1, <2>2, <3>1, ClicksKept DEF InEmacs
  <2> QED BY <2>3, <2>4, <2>7, <2>8 DEF LinkInv
<1> QED BY <1>6, <1>7

LEMMA RespondStep ==
  ASSUME LinkNamed, LinkInv, Link!Respond
  PROVE  LinkInv'
<1>0. LinkTypeOK /\ ReceiverInv BY DEF LinkInv
<1>1. /\ emacs' = Link!Idle("free") /\ held' = [f \in Link!Files |-> {}]
      /\ UNCHANGED <<click, queue, moved, disk, buffer, location>>
  BY DEF Link!Respond
<1>2. ReceiverInv' /\ Link!AnswersTrue' /\ emacs' \in EmacsRecords /\ emacs'.call = Link!Nowhere
  BY <1>1, RestingInv
<1>3. PICK text : /\ reply' = [reply EXCEPT ![emacs.call] = text]
                  /\ text \in Link!Normal \cup {"error"}
                  /\ text = "ok" => moved[emacs.call] \in Link!Files
  <2>1. CASE emacs.at = "answer" /\ reply' = [reply EXCEPT ![emacs.call] = emacs.answer]
    BY <1>0, <2>1 DEF ReceiverInv
  <2>2. CASE reply' = [reply EXCEPT ![emacs.call] = "error"]
    <3>1. "error" \in Link!Normal \cup {"error"} /\ "error" # "ok" OBVIOUS
    <3> QED BY <2>2, <3>1
  <2> QED BY <2>1, <2>2 DEF Link!Respond
<1>4. emacs.call \in Clients BY <1>0 DEF Link!Respond, ReceiverInv, Looking
<1>5. /\ reply' \in [Clients -> Link!Normal \cup {"", "error", "gone"}]
      /\ reply'[emacs.call] = text
      /\ \A d \in Clients : d # emacs.call => reply'[d] = reply[d]
  BY <1>0, <1>3, <1>4 DEF LinkTypeOK
<1>6. LinkTypeOK' BY <1>0, <1>1, <1>2, <1>5 DEF LinkTypeOK
<1>7. ClicksInv'
  <2>1. emacs'.call \notin queue' BY <1>0, <1>1, <1>2 DEF LinkNamed, LinkTypeOK
  <2>2. \A d \in Clients : InEmacs(d)' => InEmacs(d) BY <1>1, <1>2 DEF InEmacs, LinkNamed
  <2>4. PICK c \in Clients : c = emacs.call BY <1>4
  <2>5. ~InEmacs(c)' /\ InEmacs(c)
    BY <1>1, <1>2, <2>4 DEF InEmacs, LinkNamed, LinkInv, ClicksInv
  <2>6. ~Unsaid(c)' /\ (reply'[c] = "ok" => moved'[c] # Link!Nowhere)
    BY <1>1, <1>3, <1>5, <2>4 DEF Unsaid, Link!Normal, LinkNamed
  <2>7. \A d \in Clients : d # c => reply'[d] = reply[d] BY <1>5, <2>4
  <2> QED BY <1>1, <2>1, <2>2, <2>5, <2>6, <2>7, ClicksKept
<1> QED BY <1>2, <1>6, <1>7 DEF LinkInv

LEMMA QuitStep ==
  ASSUME LinkNamed, LinkInv, Link!Quit
  PROVE  LinkInv'
<1>0. LinkTypeOK /\ ReceiverInv BY DEF LinkInv
<1>1. /\ emacs' = Link!Idle("down") /\ held' = [f \in Link!Files |-> {}] /\ queue' = {}
      /\ reply' = [c \in Clients |-> IF c \in queue \cup {emacs.call} THEN "gone" ELSE reply[c]]
      /\ buffer' = [f \in Link!Files |-> Link!NoBuffer]
      /\ UNCHANGED <<click, moved, disk, location>>
  BY DEF Link!Quit
<1>2. ReceiverInv' /\ Link!AnswersTrue' /\ emacs' \in EmacsRecords /\ emacs'.call = Link!Nowhere
  BY <1>1, RestingInv
<1>3. LinkTypeOK'
  <2>1. reply' \in [Clients -> Link!Normal \cup {"", "error", "gone"}] BY <1>0, <1>1 DEF LinkTypeOK
  <2>2. buffer' \in [Link!Files -> Texts] BY <1>1 DEF Texts
  <2> QED BY <1>0, <1>1, <1>2, <2>1, <2>2 DEF LinkTypeOK
<1>4. ClicksInv'
  <2>1. \A d \in Clients : ~InEmacs(d)' BY <1>1, <1>2 DEF InEmacs, LinkNamed
  <2>2. ASSUME NEW d \in Clients
        PROVE  reply'[d] = reply[d] \/ (InEmacs(d) /\ ~Unsaid(d)' /\ reply'[d] # "ok")
    BY <1>1 DEF InEmacs, Unsaid
  <2> QED BY <1>1, <2>1, <2>2, ClicksKept
<1> QED BY <1>2, <1>3, <1>4 DEF LinkInv

LEMMA WorldSteps ==
  ASSUME LinkNamed, LinkInv, Link!World
  PROVE  LinkInv'
<1>0. LinkTypeOK /\ ReceiverInv BY DEF LinkInv
<1>1. CASE Link!Ready
  <2>1. /\ emacs' = Link!Idle("free") /\ emacs.at = "starting"
        /\ UNCHANGED <<click, queue, reply, moved, disk, buffer, location, held, disturbances>>
    BY <1>1 DEF Link!Ready
  <2>2. ReceiverInv' /\ Link!AnswersTrue' /\ emacs' \in EmacsRecords /\ emacs'.call = Link!Nowhere
    BY <2>1, RestingInv
  <2>3. LinkTypeOK' BY <1>0, <2>1, <2>2 DEF LinkTypeOK
  <2>4. ClicksInv'
    <3>1. emacs'.call \notin queue' BY <1>0, <2>1, <2>2 DEF LinkNamed, LinkTypeOK
    <3>2. \A d \in Clients : InEmacs(d)' => InEmacs(d) BY <2>1, <2>2 DEF InEmacs, LinkNamed
    <3> QED BY <2>1, <3>1, <3>2, ClicksKept
  <2> QED BY <2>2, <2>3, <2>4 DEF LinkInv
<1>2. CASE Link!Quit BY <1>2, QuitStep
<1>3. ASSUME NEW f \in Link!Files, NEW v \in Link!Shapes, Link!Change(f, v) PROVE LinkInv'
  <2>1. /\ disk' = [disk EXCEPT ![f] = v]
        /\ UNCHANGED <<click, emacs, queue, reply, moved, buffer, location>>
        /\ Link!Noticed
    BY <1>3 DEF Link!Change
  <2>2. disk' \in [Link!Files -> Link!Shapes] BY <1>0, <2>1 DEF LinkTypeOK
  <2>3. \A g \in Link!Files : Link!Seen(g)' \in [disk : Link!Shapes, buffer : Texts]
    BY <1>0, <2>1, <2>2 DEF Link!Seen, LinkTypeOK
  <2>4. /\ held' \in [Link!Files -> SUBSET [disk : Link!Shapes, buffer : Texts]]
        /\ \A g \in Link!Files : held[g] \subseteq held'[g]
        /\ Looking => \A g \in Link!Files : Link!Seen(g)' \in held'[g]
    <3>1. CASE emacs.at \in {"scan", "goto", "answer"}
      <4>1. held' = [g \in Link!Files |-> held[g] \cup {Link!Seen(g)'}]
        BY <2>1, <3>1 DEF Link!Noticed
      <4> QED BY <1>0, <2>3, <4>1 DEF LinkTypeOK
    <3>2. CASE emacs.at \notin {"scan", "goto", "answer"}
      <4>1. held' = held /\ ~Looking BY <2>1, <3>2 DEF Link!Noticed, Looking
      <4> QED BY <1>0, <4>1 DEF LinkTypeOK
    <3> QED BY <3>1, <3>2
  <2>5. LinkTypeOK' BY <1>0, <2>1, <2>2, <2>4 DEF LinkTypeOK
  <2>6. ReceiverInv' /\ Link!AnswersTrue' BY <2>1, <2>4, HeldGrows
  <2>7. ClicksInv'
    <3>1. emacs'.call \notin queue' BY <2>1 DEF LinkInv, ClicksInv
    <3> QED BY <2>1, <3>1, ClicksKept DEF InEmacs
  <2> QED BY <2>5, <2>6, <2>7 DEF LinkInv
<1>4. ASSUME NEW f \in Link!Files, NEW v \in Texts, Link!Edit(f, v) PROVE LinkInv'
  <2>1. /\ emacs.at = "free" /\ buffer' = [buffer EXCEPT ![f] = v]
        /\ UNCHANGED <<click, emacs, queue, reply, moved, disk, location, held>>
    BY <1>4 DEF Link!Edit
  <2>2. LinkTypeOK' BY <1>0, <2>1 DEF LinkTypeOK
  <2>3. ReceiverInv' BY <1>0, <2>1 DEF ReceiverInv, Looking, Link!Searched
  <2>4. Link!AnswersTrue' BY <2>1 DEF Link!AnswersTrue
  <2>5. ClicksInv'
    <3>1. emacs'.call \notin queue' BY <2>1 DEF LinkInv, ClicksInv
    <3> QED BY <2>1, <3>1, ClicksKept DEF InEmacs
  <2> QED BY <2>2, <2>3, <2>4, <2>5 DEF LinkInv
<1> QED BY <1>1, <1>2, <1>3, <1>4 DEF Link!World, Texts

LEMMA InitLinkInv == ASSUME LinkNamed, Link!Init PROVE LinkInv
<1>1. PICK at \in {"down", "free"} : emacs = Link!Idle(at) BY DEF Link!Init
<1>2. /\ emacs \in EmacsRecords /\ emacs.at = at /\ emacs.call = Link!Nowhere /\ emacs.todo = {}
  BY <1>1, IdleForm DEF Link!Idle
<1>3. PICK r : r = [pc |-> "idle", polls |-> 0, code |-> -1, late |-> FALSE] OBVIOUS
<1>4. r \in ClickRecords /\ r.pc = "idle" BY <1>3 DEF ClickRecords, Early
<1>5. click = [c \in Clients |-> r] BY <1>3 DEF Link!Init
<1>6. LinkTypeOK BY <1>2, <1>4, <1>5 DEF Link!Init, LinkTypeOK, Link!Shapes, Texts
<1>7. ReceiverInv BY <1>2 DEF ReceiverInv, Looking, LinkNamed
<1>8. Link!AnswersTrue BY <1>2 DEF Link!AnswersTrue
<1>9. ASSUME NEW c \in Clients PROVE ClickInv(c)
  <2>1. Unsaid(c) BY DEF Link!Init, Unsaid
  <2>2. click[c].pc = "idle" BY <1>4, <1>5
  <2>3. ~InEmacs(c) BY <1>2 DEF Link!Init, InEmacs, LinkNamed
  <2> QED BY <2>1, <2>2, <2>3, UnsaidFacts DEF ClickInv, Early
<1>10. emacs.call \notin queue BY DEF Link!Init
<1> QED BY <1>6, <1>7, <1>8, <1>9, <1>10 DEF LinkInv, ClicksInv

LEMMA NextLinkInv == ASSUME LinkNamed, LinkInv, [Link!Next]_(Link!vars) PROVE LinkInv'
<1>1. CASE UNCHANGED Link!vars
  <2>1. UNCHANGED <<click, emacs, queue, reply, moved, disk, buffer, location, held>>
    BY <1>1 DEF Link!vars
  <2>2. ReceiverInv' /\ Link!AnswersTrue' BY <2>1, QuietInv
  <2>3. LinkTypeOK' BY <2>1 DEF LinkInv, LinkTypeOK
  <2>4. ClicksInv'
    <3>1. emacs'.call \notin queue' BY <2>1 DEF LinkInv, ClicksInv
    <3> QED BY <2>1, <3>1, ClicksKept DEF InEmacs
  <2> QED BY <2>2, <2>3, <2>4 DEF LinkInv
<1>2. CASE \E c \in Clients : Link!Click(c) \/ Link!Process(c) \/ Link!Kill(c) BY <1>2, ProcessSteps
<1>3. CASE Link!Receiver
  BY <1>3, ReceiveStep, ScanStep, DecideStep, GotoStep, RespondStep DEF Link!Receiver
<1>4. CASE Link!World BY <1>4, WorldSteps
<1> QED BY <1>1, <1>2, <1>3, <1>4 DEF Link!Next

LEMMA ExitsFollow == ASSUME LinkInv PROVE Link!ExitsTrue
<1> SUFFICES ASSUME NEW c \in Clients, click[c].pc = "done"
             PROVE  /\ click[c].code = 0 =>
                         reply[c] \in Link!Normal /\ (reply[c] = "ok" => moved[c] # Link!Nowhere)
                    /\ click[c].code = 1 /\ ~click[c].late => reply[c] \notin Link!Normal
                    /\ click[c].code = 2 => reply[c] = "" /\ c \notin queue \cup {emacs.call}
  BY DEF Link!ExitsTrue
<1>1. ClickInv(c) BY DEF LinkInv, ClicksInv
<1>2. /\ click[c].code = 0 => reply[c] \in Link!Normal
      /\ reply[c] = "ok" => moved[c] # Link!Nowhere
      /\ click[c].code = 1 /\ ~Late(c) => reply[c] \notin Link!Normal
      /\ click[c].code = 2 => Unsaid(c) /\ ~InEmacs(c)
  BY <1>1 DEF ClickInv
<1>3. ~click[c].late => ~Late(c) BY DEF Late
<1>4. (Unsaid(c) => reply[c] = "") /\ (~InEmacs(c) => c \notin queue \cup {emacs.call})
  BY DEF Unsaid, InEmacs
<1> HIDE DEF Unsaid, InEmacs
<1> QED BY <1>2, <1>3, <1>4, Zenon

\* The invariant of the processes and the receiver together.
THEOREM LinkInvariant == ASSUME LinkNamed PROVE Link!Spec => []LinkInv
<1>1. Link!Init => LinkInv BY InitLinkInv
<1>2. LinkInv /\ [Link!Next]_(Link!vars) => LinkInv' BY NextLinkInv
<1> QED BY <1>1, <1>2, PTL DEF Link!Spec

\* What imoogi-anki-open-id answers was so while it worked, whatever files
\* changed, however many requests waited and whoever timed out: "ok" only with
\* point on a heading with the identifier and the other files searched, and
\* "not-found", "duplicate" and "incomplete" only for that reason.
THEOREM AnswersAreTrue == ASSUME LinkNamed PROVE Link!Spec => []AnswersTrue
<1>1. LinkInv => AnswersTrue BY DEF LinkInv, AnswersTrue
<1> QED BY <1>1, LinkInvariant, PTL

\* The exit codes of imoogi-anki open (opener.go:29-30) say what Emacs did,
\* for any number of clicks: 0 that it gave an outcome, 1 that it gave none
\* unless the time was up, 2 that the link never reached it.
THEOREM ExitsAreTrue == ASSUME LinkNamed PROVE Link!Spec => []ExitsTrue
<1>1. LinkInv => ExitsTrue BY ExitsFollow DEF ExitsTrue
<1> QED BY <1>1, LinkInvariant, PTL
-----------------------------------------------------------------------------
(* The installer. *)

All == App!Handlers \cup {App!None, App!Foreign}
Pcs == {"idle", "read", "build", "aside", "place", "restore", "cleanup", "done", "failed", "killed",
        "kept"}
InstallerRecords == [pc : Pcs, replacing : BOOLEAN, previous : All, built : BOOLEAN]

\* An installer is named like nothing else that can be there.
Named == Installers \cap {App!None, App!Foreign, App!First} = {}

HandlerTypeOK == app \in All /\ installer \in [Installers -> InstallerRecords]

\* What an installer knows of the app it found, and when it has set one aside.
InstallerSane(i) ==
    LET r == installer[i] IN
    /\ r.pc \in {"idle", "read"} => ~r.replacing
    /\ r.pc \in {"idle", "read", "build", "aside"} => r.previous = App!None
    /\ r.pc \in {"aside", "restore"} => r.replacing
    /\ r.pc = "place" /\ ~r.replacing => r.previous = App!None

\* Unless the user meddles, only handlers are set aside, nobody replaces an app
\* that is not one, and whoever is about to drop a handler leaves another.
Holds(j) ==
    installer[j].pc \in {"place", "restore", "kept", "killed"} /\ installer[j].previous \in App!Handlers
Remains == app \in App!Handlers \/ \E j \in Installers : Holds(j)
Replacing(i) == installer[i].pc \in {"build", "aside", "place", "restore"} /\ installer[i].replacing
Dropping(i) == installer[i].pc = "cleanup" /\ installer[i].previous \in App!Handlers
OwnOnly ==
    ~meddled =>
        /\ \A i \in Installers : installer[i].previous # App!Foreign
        /\ app = App!Foreign => \A i \in Installers : ~Replacing(i)
        /\ (\E i \in Installers : Dropping(i)) => Remains

HandlerInv == HandlerTypeOK /\ (\A i \in Installers : InstallerSane(i)) /\ OwnOnly

LEMMA Names ==
    ASSUME Named
    PROVE  /\ App!None \notin App!Handlers /\ App!Foreign \notin App!Handlers /\ App!None # App!Foreign
           /\ \A i \in Installers : i \in App!Handlers
BY DEF Named, App!None, App!Foreign, App!First, App!Handlers

LEMMA InstallerForm ==
    ASSUME HandlerTypeOK, NEW i \in Installers
    PROVE  /\ installer[i] \in InstallerRecords
           /\ installer[i] = [pc |-> installer[i].pc, replacing |-> installer[i].replacing,
                              previous |-> installer[i].previous, built |-> installer[i].built]
BY DEF HandlerTypeOK, InstallerRecords

\* What a step of one installer must keep.
LEMMA StepKeeps ==
    ASSUME Named, HandlerInv, NEW i \in Installers, NEW x \in InstallerRecords, App!Becomes(i, x),
           app' \in All, UNCHANGED meddled,
           InstallerSane(i)',
           ~meddled => x.previous # App!Foreign,
           ~meddled /\ app' = App!Foreign => app = App!Foreign /\ ~Replacing(i)',
           ~meddled /\ Remains => Remains',
           ~meddled /\ Dropping(i)' => Remains'
    PROVE  HandlerInv'
<1>1. installer'[i] = x /\ \A j \in Installers : j # i => installer'[j] = installer[j]
  BY DEF HandlerInv, HandlerTypeOK, App!Becomes
<1>2. HandlerTypeOK' BY DEF HandlerInv, HandlerTypeOK, App!Becomes
<1>3. \A j \in Installers : InstallerSane(j)' BY <1>1 DEF HandlerInv, InstallerSane
<1>4. OwnOnly'
  <2> SUFFICES ASSUME ~meddled
               PROVE  /\ \A j \in Installers : installer'[j].previous # App!Foreign
                      /\ app' = App!Foreign => \A j \in Installers : ~Replacing(j)'
                      /\ (\E j \in Installers : Dropping(j)') => Remains'
    BY DEF OwnOnly
  <2>1. \A j \in Installers : installer'[j].previous # App!Foreign BY <1>1 DEF HandlerInv, OwnOnly
  <2>2. app' = App!Foreign => \A j \in Installers : ~Replacing(j)'
    BY <1>1 DEF HandlerInv, OwnOnly, Replacing
  <2>3. ASSUME NEW j \in Installers, Dropping(j)' PROVE Remains'
    <3>1. CASE j = i BY <2>3, <3>1
    <3>2. CASE j # i
      <4>1. Dropping(j) BY <1>1, <2>3, <3>2 DEF Dropping
      <4> QED BY <4>1 DEF HandlerInv, OwnOnly
    <3> QED BY <3>1, <3>2
  <2> QED BY <2>1, <2>2, <2>3
<1> QED BY <1>2, <1>3, <1>4 DEF HandlerInv

\* A step after which the place of the app and what was set aside are as before.
LEMMA Still ==
    ASSUME Named, HandlerInv, NEW i \in Installers, NEW x \in InstallerRecords, App!Becomes(i, x),
           UNCHANGED <<app, meddled>>, x.previous = installer[i].previous,
           InstallerSane(i)',
           ~meddled /\ app = App!Foreign => ~Replacing(i)',
           Holds(i) => x.pc \in {"place", "restore", "kept", "killed"},
           x.pc = "cleanup" => x.previous \notin App!Handlers \/ app \in App!Handlers
    PROVE  HandlerInv' /\ App!Apps' = App!Apps
<1>1. installer'[i] = x /\ \A j \in Installers : j # i => installer'[j] = installer[j]
  BY DEF HandlerInv, HandlerTypeOK, App!Becomes
<1>2. \A j \in Installers : installer'[j].previous = installer[j].previous BY <1>1
<1>3. App!Apps' = App!Apps BY <1>2 DEF App!Apps
<1>4. Remains => Remains'
  <2>1. \A j \in Installers : Holds(j) => Holds(j)' BY <1>1 DEF Holds
  <2> QED BY <2>1 DEF Remains
<1>5. ~meddled => x.previous # App!Foreign BY DEF HandlerInv, OwnOnly
<1>6. Dropping(i)' => Remains' BY <1>1 DEF Dropping, Remains
<1>7. app' \in All BY DEF HandlerInv, HandlerTypeOK
<1>8. HandlerInv' BY <1>4, <1>5, <1>6, <1>7, StepKeeps
<1> QED BY <1>3, <1>8

LEMMA StillSteps ==
    ASSUME Named, HandlerInv, NEW i \in Installers,
           App!Look(i) \/ App!Read(i) \/ App!Build(i) \/ App!Kill(i) \/ App!Again(i)
    PROVE  HandlerInv' /\ App!Apps' = App!Apps
<1> DEFINE r == installer[i]
<1>0. HandlerTypeOK /\ InstallerSane(i) /\ OwnOnly BY DEF HandlerInv
<1>1. r \in InstallerRecords /\
      r = [pc |-> r.pc, replacing |-> r.replacing, previous |-> r.previous, built |-> r.built]
  BY <1>0, InstallerForm
<1>2. ASSUME NEW pc \in Pcs, NEW replacing \in BOOLEAN, NEW built \in BOOLEAN,
             NEW x, x = [pc |-> pc, replacing |-> replacing, previous |-> r.previous, built |-> built]
      PROVE  x \in InstallerRecords /\ x.previous = r.previous
  BY <1>1, <1>2 DEF InstallerRecords
<1>3. ASSUME NEW x, App!Becomes(i, x) PROVE installer'[i] = x
  BY <1>0, <1>3 DEF HandlerTypeOK, App!Becomes
<1>4. CASE App!Look(i)
  <2>1. /\ r.pc = "idle" /\ UNCHANGED <<app, meddled>>
        /\ App!Goes(i, IF app = App!None THEN "build" ELSE "read")
    BY <1>4 DEF App!Look
  <2>2. PICK pc \in {"build", "read"} : App!Goes(i, pc) BY <2>1
  <2>3. PICK x : x = [installer[i] EXCEPT !.pc = pc] OBVIOUS
  <2>4. x = [pc |-> pc, replacing |-> r.replacing, previous |-> r.previous, built |-> r.built]
    BY <1>1, <2>3
  <2>5. /\ x \in InstallerRecords /\ x.previous = r.previous /\ x.pc = pc /\ x.replacing = r.replacing
    BY <1>1, <2>4 DEF InstallerRecords, Pcs
  <2>6. App!Becomes(i, x) /\ installer'[i] = x BY <1>3, <2>2, <2>3 DEF App!Goes
  <2>7. InstallerSane(i)' /\ ~Replacing(i)' /\ ~Holds(i)
    BY <1>0, <2>1, <2>5, <2>6 DEF InstallerSane, Replacing, Holds
  <2> QED BY <2>1, <2>5, <2>6, <2>7, Still
<1>5. CASE App!Read(i)
  <2>1. r.pc = "read" /\ UNCHANGED <<app, meddled>> BY <1>5 DEF App!Read
  <2> DEFINE replacing == app \in App!Handlers
             pc == IF replacing THEN "build" ELSE "failed"
  <2>2. replacing \in BOOLEAN /\ pc \in Pcs /\ (pc = "build" <=> replacing) /\ pc \in {"build", "failed"}
    BY DEF Pcs
  <2>3. app = App!Foreign => ~replacing BY Names
  <2>4. App!Becomes(i, [installer[i] EXCEPT !.pc = pc, !.replacing = replacing])
    BY <1>5 DEF App!Read
  <2> HIDE DEF replacing, pc
  <2>5. PICK x : x = [installer[i] EXCEPT !.pc = pc, !.replacing = replacing] OBVIOUS
  <2>6. x = [pc |-> pc, replacing |-> replacing, previous |-> r.previous, built |-> r.built]
    BY <1>1, <2>5
  <2>7. /\ x \in InstallerRecords /\ x.previous = r.previous /\ x.pc = pc /\ x.replacing = replacing
    BY <1>1, <2>2, <2>6 DEF InstallerRecords
  <2>8. App!Becomes(i, x) /\ installer'[i] = x BY <1>3, <2>4, <2>5
  <2>9. InstallerSane(i)' /\ (app = App!Foreign => ~Replacing(i)') /\ ~Holds(i)
    BY <1>0, <2>1, <2>2, <2>3, <2>7, <2>8 DEF InstallerSane, Replacing, Holds
  <2> QED BY <2>1, <2>2, <2>7, <2>8, <2>9, Still
<1>6. CASE App!Build(i)
  <2>1. r.pc = "build" /\ UNCHANGED <<app, meddled>> BY <1>6 DEF App!Build
  <2>2. r.previous = App!None /\ ~Holds(i) BY <1>0, <2>1 DEF InstallerSane, Holds
  <2>3. app = App!Foreign /\ ~meddled => ~r.replacing BY <1>0, <2>1 DEF OwnOnly, Replacing
  <2>4. CASE App!Becomes(i, [installer[i] EXCEPT !.built = TRUE,
                                             !.pc = IF installer[i].replacing THEN "aside" ELSE "place"])
    <3> DEFINE pc == IF installer[i].replacing THEN "aside" ELSE "place"
    <3>1. pc \in {"aside", "place"} /\ (pc = "aside" <=> r.replacing) BY <1>1 DEF InstallerRecords
    <3>2. App!Becomes(i, [installer[i] EXCEPT !.built = TRUE, !.pc = pc]) BY <2>4
    <3> HIDE DEF pc
    <3>3. PICK x : x = [installer[i] EXCEPT !.built = TRUE, !.pc = pc] OBVIOUS
    <3>4. x = [pc |-> pc, replacing |-> r.replacing, previous |-> r.previous, built |-> TRUE]
      BY <1>1, <3>3
    <3>5. /\ x \in InstallerRecords /\ x.previous = r.previous /\ x.pc = pc /\ x.replacing = r.replacing
      BY <1>1, <3>1, <3>4 DEF InstallerRecords, Pcs
    <3>6. App!Becomes(i, x) /\ installer'[i] = x BY <1>3, <3>2, <3>3
    <3>7. InstallerSane(i)' /\ (app = App!Foreign /\ ~meddled => ~Replacing(i)')
      BY <2>2, <2>3, <3>1, <3>5, <3>6 DEF InstallerSane, Replacing
    <3> QED BY <2>1, <2>2, <3>1, <3>5, <3>6, <3>7, Still
  <2>5. CASE App!Goes(i, "cleanup")
    <3>1. PICK x : x = [installer[i] EXCEPT !.pc = "cleanup"] OBVIOUS
    <3>2. x = [pc |-> "cleanup", replacing |-> r.replacing, previous |-> r.previous, built |-> r.built]
      BY <1>1, <3>1
    <3>3. /\ x \in InstallerRecords /\ x.previous = r.previous /\ x.pc = "cleanup"
      BY <1>1, <3>2 DEF InstallerRecords, Pcs
    <3>4. App!Becomes(i, x) /\ installer'[i] = x BY <1>3, <2>5, <3>1 DEF App!Goes
    <3>5. InstallerSane(i)' /\ ~Replacing(i)' BY <3>3, <3>4 DEF InstallerSane, Replacing
    <3>6. x.previous \notin App!Handlers BY <2>2, <3>3, Names
    <3> QED BY <2>1, <2>2, <3>3, <3>4, <3>5, <3>6, Still
  <2> QED BY <1>6, <2>4, <2>5 DEF App!Build
<1>7. CASE App!Kill(i)
  <2>1. App!Goes(i, "killed") /\ UNCHANGED <<app, meddled>> BY <1>7 DEF App!Kill
  <2>2. PICK x : x = [installer[i] EXCEPT !.pc = "killed"] OBVIOUS
  <2>3. x = [pc |-> "killed", replacing |-> r.replacing, previous |-> r.previous, built |-> r.built]
    BY <1>1, <2>2
  <2>4. /\ x \in InstallerRecords /\ x.previous = r.previous /\ x.pc = "killed"
    BY <1>1, <2>3 DEF InstallerRecords, Pcs
  <2>5. App!Becomes(i, x) /\ installer'[i] = x BY <1>3, <2>1, <2>2 DEF App!Goes
  <2>6. InstallerSane(i)' /\ ~Replacing(i)' BY <2>4, <2>5 DEF InstallerSane, Replacing
  <2> QED BY <2>1, <2>4, <2>5, <2>6, Still
<1>8. CASE App!Again(i)
  <2>1. /\ r.pc \in {"done", "failed"} /\ r.previous = App!None /\ UNCHANGED <<app, meddled>>
        /\ App!Becomes(i, [installer[i] EXCEPT !.pc = "idle", !.replacing = FALSE])
    BY <1>8 DEF App!Again
  <2>2. PICK x : x = [installer[i] EXCEPT !.pc = "idle", !.replacing = FALSE] OBVIOUS
  <2>3. x = [pc |-> "idle", replacing |-> FALSE, previous |-> r.previous, built |-> r.built]
    BY <1>1, <2>2
  <2>4. /\ x \in InstallerRecords /\ x.previous = r.previous /\ x.pc = "idle" /\ ~x.replacing
    BY <1>1, <2>3 DEF InstallerRecords, Pcs
  <2>5. App!Becomes(i, x) /\ installer'[i] = x BY <1>3, <2>1, <2>2
  <2>6. InstallerSane(i)' /\ ~Replacing(i)' /\ ~Holds(i)
    BY <2>1, <2>4, <2>5 DEF InstallerSane, Replacing, Holds
  <2> QED BY <2>1, <2>4, <2>5, <2>6, Still
<1> QED BY <1>4, <1>5, <1>6, <1>7, <1>8

\* What NothingLost asks of a step.
NoneLost ==
    ~meddled => /\ App!Foreign \in App!Apps => App!Foreign \in App!Apps'
                /\ App!Apps \cap App!Handlers # {} => App!Apps' \cap App!Handlers # {}

LEMMA AppsFacts ==
    \A a : a \in App!Apps <=> a = app \/ \E i \in Installers : installer[i].previous = a
BY DEF App!Apps

LEMMA SetAsideStep ==
    ASSUME Named, HandlerInv, NEW i \in Installers, App!SetAside(i)
    PROVE  HandlerInv' /\ NoneLost
<1> DEFINE r == installer[i]
<1>0. HandlerTypeOK /\ InstallerSane(i) /\ OwnOnly BY DEF HandlerInv
<1>1. r \in InstallerRecords /\
      r = [pc |-> r.pc, replacing |-> r.replacing, previous |-> r.previous, built |-> r.built]
  BY <1>0, InstallerForm
<1>2. r.pc = "aside" /\ r.previous = App!None /\ r.replacing /\ UNCHANGED meddled
  BY <1>0 DEF App!SetAside, InstallerSane
<1>3. ~meddled => app # App!Foreign BY <1>0, <1>2 DEF OwnOnly, Replacing
<1>4. CASE /\ app # App!None /\ app' = App!None
           /\ App!Becomes(i, [installer[i] EXCEPT !.pc = "place", !.previous = app])
  <2>1. PICK x : x = [installer[i] EXCEPT !.pc = "place", !.previous = app] OBVIOUS
  <2>2. x = [pc |-> "place", replacing |-> r.replacing, previous |-> app, built |-> r.built]
    BY <1>1, <2>1
  <2>3. x \in InstallerRecords /\ x.pc = "place" /\ x.previous = app /\ x.replacing = r.replacing
    BY <1>0, <1>1, <2>2 DEF InstallerRecords, Pcs, HandlerTypeOK
  <2>4. /\ App!Becomes(i, x) /\ installer'[i] = x
        /\ \A j \in Installers : j # i => installer'[j] = installer[j]
    BY <1>0, <1>4, <2>1 DEF HandlerTypeOK, App!Becomes
  <2>5. InstallerSane(i)' /\ ~Dropping(i)' BY <1>2, <2>3, <2>4 DEF InstallerSane, Dropping
  <2>6. ~meddled => app \in App!Handlers BY <1>0, <1>3, <1>4 DEF HandlerTypeOK, All
  <2>7. ~meddled => Remains' BY <2>3, <2>4, <2>6 DEF Remains, Holds
  <2>8. app' \in All /\ app' # App!Foreign BY <1>4, Names DEF All
  <2>9. HandlerInv' BY <1>2, <1>3, <2>3, <2>4, <2>5, <2>7, <2>8, StepKeeps
  <2>10. \A a \in App!Apps : a # App!None => a \in App!Apps'
    <3> SUFFICES ASSUME NEW a \in App!Apps, a # App!None
                 PROVE  a = app' \/ \E j \in Installers : installer'[j].previous = a
      BY DEF App!Apps
    <3>1. CASE a = app BY <2>3, <2>4, <3>1
    <3>2. CASE \E j \in Installers : installer[j].previous = a BY <1>2, <2>4, <3>2
    <3> QED BY <3>1, <3>2, AppsFacts
  <2>11. NoneLost BY <2>10, Names DEF NoneLost
  <2> QED BY <2>9, <2>11
<1>5. CASE App!Goes(i, "cleanup") /\ UNCHANGED app
  <2>1. PICK x : x = [installer[i] EXCEPT !.pc = "cleanup"] OBVIOUS
  <2>2. x = [pc |-> "cleanup", replacing |-> r.replacing, previous |-> r.previous, built |-> r.built]
    BY <1>1, <2>1
  <2>3. x \in InstallerRecords /\ x.pc = "cleanup" /\ x.previous = r.previous
    BY <1>1, <2>2 DEF InstallerRecords, Pcs
  <2>4. App!Becomes(i, x) /\ installer'[i] = x
    BY <1>0, <1>5, <2>1 DEF HandlerTypeOK, App!Becomes, App!Goes
  <2>5. InstallerSane(i)' /\ ~Replacing(i)' /\ ~Holds(i)
    BY <1>2, <2>3, <2>4 DEF InstallerSane, Replacing, Holds
  <2>6. x.previous \notin App!Handlers BY <1>2, <2>3, Names
  <2>7. HandlerInv' /\ App!Apps' = App!Apps BY <1>2, <1>5, <2>3, <2>4, <2>5, <2>6, Still
  <2> QED BY <2>7 DEF NoneLost
<1> QED BY <1>4, <1>5 DEF App!SetAside

LEMMA PlaceStep ==
    ASSUME Named, HandlerInv, NEW i \in Installers, App!Place(i)
    PROVE  HandlerInv' /\ NoneLost
<1> DEFINE r == installer[i]
<1>0. HandlerTypeOK /\ InstallerSane(i) /\ OwnOnly BY DEF HandlerInv
<1>1. r \in InstallerRecords /\
      r = [pc |-> r.pc, replacing |-> r.replacing, previous |-> r.previous, built |-> r.built]
  BY <1>0, InstallerForm
<1>2. /\ r.pc = "place" /\ (~r.replacing => r.previous = App!None) /\ UNCHANGED meddled
      /\ ~meddled => r.previous # App!Foreign
  BY <1>0 DEF App!Place, InstallerSane, OwnOnly
<1>3. CASE /\ app = App!None /\ app' = i
           /\ App!Becomes(i, [installer[i] EXCEPT !.pc = "cleanup", !.built = FALSE])
  <2>1. PICK x : x = [installer[i] EXCEPT !.pc = "cleanup", !.built = FALSE] OBVIOUS
  <2>2. x = [pc |-> "cleanup", replacing |-> r.replacing, previous |-> r.previous, built |-> FALSE]
    BY <1>1, <2>1
  <2>3. x \in InstallerRecords /\ x.pc = "cleanup" /\ x.previous = r.previous
    BY <1>1, <2>2 DEF InstallerRecords, Pcs
  <2>4. /\ App!Becomes(i, x) /\ installer'[i] = x
        /\ \A j \in Installers : j # i => installer'[j] = installer[j]
    BY <1>0, <1>3, <2>1 DEF HandlerTypeOK, App!Becomes
  <2>5. InstallerSane(i)' BY <2>3, <2>4 DEF InstallerSane
  <2>6. app' \in App!Handlers /\ app' \in All /\ app' # App!Foreign BY <1>3, Names DEF All
  <2>7. Remains' BY <2>6 DEF Remains
  <2>8. HandlerInv' BY <1>2, <2>3, <2>4, <2>5, <2>6, <2>7, StepKeeps
  <2>9. \A j \in Installers : installer'[j].previous = installer[j].previous BY <2>3, <2>4
  <2>10. \A a \in App!Apps : a # App!None => a \in App!Apps' BY <1>3, <2>9, AppsFacts DEF App!Apps
  <2>11. NoneLost BY <2>10, Names DEF NoneLost
  <2> QED BY <2>8, <2>11
<1>4. CASE /\ UNCHANGED app
           /\ App!Goes(i, IF installer[i].replacing THEN "restore" ELSE "cleanup")
  <2> DEFINE pc == IF installer[i].replacing THEN "restore" ELSE "cleanup"
  <2>0. pc \in {"restore", "cleanup"} /\ (pc = "restore" => r.replacing) /\ (pc = "cleanup" => ~r.replacing)
    OBVIOUS
  <2>1. App!Becomes(i, [installer[i] EXCEPT !.pc = pc]) BY <1>4 DEF App!Goes
  <2> HIDE DEF pc
  <2>2. PICK x : x = [installer[i] EXCEPT !.pc = pc] OBVIOUS
  <2>3. x = [pc |-> pc, replacing |-> r.replacing, previous |-> r.previous, built |-> r.built]
    BY <1>1, <2>2
  <2>4. x \in InstallerRecords /\ x.pc = pc /\ x.previous = r.previous /\ x.replacing = r.replacing
    BY <1>1, <2>0, <2>3 DEF InstallerRecords, Pcs
  <2>5. App!Becomes(i, x) /\ installer'[i] = x BY <1>0, <2>1, <2>2 DEF HandlerTypeOK, App!Becomes
  <2>6. InstallerSane(i)' BY <1>2, <2>0, <2>4, <2>5 DEF InstallerSane
  <2>7. app = App!Foreign /\ ~meddled => ~Replacing(i)'
    BY <1>0, <1>2, <2>4, <2>5 DEF Replacing, OwnOnly
  <2>8. x.pc = "cleanup" => x.previous \notin App!Handlers BY <1>2, <2>0, <2>4, Names
  <2>9. Holds(i) => x.pc \in {"place", "restore", "kept", "killed"}
    BY <1>2, <2>0, <2>4, Names DEF Holds
  <2>10. HandlerInv' /\ App!Apps' = App!Apps
    BY <1>2, <1>4, <2>4, <2>5, <2>6, <2>7, <2>8, <2>9, Still
  <2> QED BY <2>10 DEF NoneLost
<1> QED BY <1>3, <1>4 DEF App!Place

LEMMA RestoreStep ==
    ASSUME Named, HandlerInv, NEW i \in Installers, App!Restore(i)
    PROVE  HandlerInv' /\ NoneLost
<1> DEFINE r == installer[i]
<1>0. HandlerTypeOK /\ InstallerSane(i) /\ OwnOnly BY DEF HandlerInv
<1>1. r \in InstallerRecords /\
      r = [pc |-> r.pc, replacing |-> r.replacing, previous |-> r.previous, built |-> r.built]
  BY <1>0, InstallerForm
<1>2. /\ r.pc = "restore" /\ UNCHANGED meddled
      /\ ~meddled => r.previous # App!Foreign
  BY <1>0 DEF App!Restore, OwnOnly
<1>3. CASE /\ app = App!None /\ app' = installer[i].previous
           /\ App!Becomes(i, [installer[i] EXCEPT !.pc = "cleanup", !.previous = App!None])
  <2>1. PICK x : x = [installer[i] EXCEPT !.pc = "cleanup", !.previous = App!None] OBVIOUS
  <2>2. x = [pc |-> "cleanup", replacing |-> r.replacing, previous |-> App!None, built |-> r.built]
    BY <1>1, <2>1
  <2>3. x \in InstallerRecords /\ x.pc = "cleanup" /\ x.previous = App!None
    BY <1>1, <2>2 DEF InstallerRecords, Pcs, All
  <2>4. /\ App!Becomes(i, x) /\ installer'[i] = x
        /\ \A j \in Installers : j # i => installer'[j] = installer[j]
    BY <1>0, <1>3, <2>1 DEF HandlerTypeOK, App!Becomes
  <2>5. InstallerSane(i)' /\ ~Dropping(i)' BY <2>3, <2>4, Names DEF InstallerSane, Dropping
  <2>6. app' \in All /\ (~meddled => app' # App!Foreign) /\ x.previous # App!Foreign
    BY <1>1, <1>2, <1>3, <2>3, Names DEF InstallerRecords
  <2>7. Remains => Remains'
    <3>1. CASE Holds(i) BY <1>3, <3>1 DEF Remains, Holds
    <3>2. CASE ~Holds(i)
      <4>1. Remains => \E j \in Installers : j # i /\ Holds(j) BY <1>3, <3>2, Names DEF Remains
      <4> QED BY <2>4, <4>1 DEF Remains, Holds
    <3> QED BY <3>1, <3>2
  <2>8. HandlerInv' BY <1>2, <2>3, <2>4, <2>5, <2>6, <2>7, StepKeeps
  <2>9. \A a \in App!Apps : a # App!None => a \in App!Apps'
    <3> SUFFICES ASSUME NEW a \in App!Apps, a # App!None
                 PROVE  a = app' \/ \E j \in Installers : installer'[j].previous = a
      BY DEF App!Apps
    <3>1. PICK j \in Installers : installer[j].previous = a BY <1>3, AppsFacts
    <3>2. CASE j = i BY <1>3, <3>1, <3>2
    <3>3. CASE j # i BY <2>4, <3>1, <3>3
    <3> QED BY <3>2, <3>3
  <2>10. NoneLost BY <2>9, Names DEF NoneLost
  <2> QED BY <2>8, <2>10
<1>4. CASE UNCHANGED app /\ App!Goes(i, "kept")
  <2>1. PICK x : x = [installer[i] EXCEPT !.pc = "kept"] OBVIOUS
  <2>2. x = [pc |-> "kept", replacing |-> r.replacing, previous |-> r.previous, built |-> r.built]
    BY <1>1, <2>1
  <2>3. x \in InstallerRecords /\ x.pc = "kept" /\ x.previous = r.previous
    BY <1>1, <2>2 DEF InstallerRecords, Pcs
  <2>4. App!Becomes(i, x) /\ installer'[i] = x
    BY <1>0, <1>4, <2>1 DEF HandlerTypeOK, App!Becomes, App!Goes
  <2>5. InstallerSane(i)' /\ ~Replacing(i)' BY <2>3, <2>4 DEF InstallerSane, Replacing
  <2>6. HandlerInv' /\ App!Apps' = App!Apps BY <1>2, <1>4, <2>3, <2>4, <2>5, Still
  <2> QED BY <2>6 DEF NoneLost
<1> QED BY <1>3, <1>4 DEF App!Restore

\* The one step that drops an app: it was replaced, and its replacement is at
\* its place or with an installer that will not drop it.
LEMMA CleanupStep ==
    ASSUME Named, HandlerInv, NEW i \in Installers, App!Cleanup(i)
    PROVE  HandlerInv' /\ NoneLost
<1> DEFINE r == installer[i]
<1>0. HandlerTypeOK /\ InstallerSane(i) /\ OwnOnly BY DEF HandlerInv
<1>1. r \in InstallerRecords /\
      r = [pc |-> r.pc, replacing |-> r.replacing, previous |-> r.previous, built |-> r.built]
  BY <1>0, InstallerForm
<1>2. /\ r.pc = "cleanup" /\ UNCHANGED <<app, meddled>>
      /\ App!Becomes(i, [installer[i] EXCEPT !.pc = "done", !.previous = App!None, !.built = FALSE])
      /\ ~meddled => r.previous # App!Foreign
  BY <1>0 DEF App!Cleanup, OwnOnly
<1>3. PICK x : x = [installer[i] EXCEPT !.pc = "done", !.previous = App!None, !.built = FALSE] OBVIOUS
<1>4. x = [pc |-> "done", replacing |-> r.replacing, previous |-> App!None, built |-> FALSE]
  BY <1>1, <1>3
<1>5. x \in InstallerRecords /\ x.pc = "done" /\ x.previous = App!None
  BY <1>1, <1>4 DEF InstallerRecords, Pcs, All
<1>6. /\ App!Becomes(i, x) /\ installer'[i] = x
      /\ \A j \in Installers : j # i => installer'[j] = installer[j]
  BY <1>0, <1>2, <1>3 DEF HandlerTypeOK, App!Becomes
<1>7. InstallerSane(i)' /\ ~Dropping(i)' /\ ~Replacing(i)'
  BY <1>5, <1>6, Names DEF InstallerSane, Dropping, Replacing
<1>8. Remains => Remains'
  <2>1. \A j \in Installers : Holds(j) => j # i BY <1>2 DEF Holds
  <2> QED BY <1>2, <1>6, <2>1 DEF Remains, Holds
<1>9. app' \in All BY <1>0, <1>2 DEF HandlerTypeOK
<1>10. x.previous # App!Foreign BY <1>5, Names
<1>11. HandlerInv' BY <1>2, <1>5, <1>6, <1>7, <1>8, <1>9, <1>10, StepKeeps
<1>12. \A a \in App!Apps : a # r.previous => a \in App!Apps'
  <2> SUFFICES ASSUME NEW a \in App!Apps, a # r.previous
               PROVE  a = app' \/ \E j \in Installers : installer'[j].previous = a
    BY DEF App!Apps
  <2>1. CASE a = app BY <1>2, <2>1
  <2>2. CASE \E j \in Installers : installer[j].previous = a BY <1>6, <2>2
  <2> QED BY <2>1, <2>2, AppsFacts
<1>13. ASSUME ~meddled, r.previous \in App!Handlers PROVE App!Apps' \cap App!Handlers # {}
  <2>1. Remains BY <1>0, <1>2, <1>13 DEF OwnOnly, Dropping
  <2>2. Remains' BY <1>8, <2>1
  <2>3. CASE app' \in App!Handlers BY <2>3 DEF App!Apps
  <2>4. CASE \E j \in Installers : Holds(j)' BY <2>4 DEF Holds, App!Apps
  <2> QED BY <2>2, <2>3, <2>4 DEF Remains
<1>14. NoneLost BY <1>2, <1>12, <1>13 DEF NoneLost
<1> QED BY <1>11, <1>14

LEMMA MoveStep ==
    ASSUME Named, HandlerInv, NEW a \in {App!None, App!Foreign}, App!Move(a)
    PROVE  HandlerInv'
<1>1. /\ app' = a /\ UNCHANGED installer /\ (meddled => meddled')
      /\ ~meddled' => \A i \in Installers : ~App!AtWork(i)
  BY DEF App!Move
<1>2. HandlerTypeOK' BY <1>1 DEF HandlerInv, HandlerTypeOK, All
<1>3. \A i \in Installers : InstallerSane(i)' BY <1>1 DEF HandlerInv, InstallerSane
<1>4. OwnOnly'
  <2> SUFFICES ASSUME ~meddled'
               PROVE  /\ \A i \in Installers : installer[i].previous # App!Foreign
                      /\ \A i \in Installers : ~Replacing(i)' /\ ~Dropping(i)'
    BY <1>1 DEF OwnOnly
  <2>1. \A i \in Installers : installer[i].previous # App!Foreign BY <1>1 DEF HandlerInv, OwnOnly
  <2>2. \A i \in Installers : installer[i].pc \notin {"build", "aside", "place", "restore", "cleanup"}
    BY <1>1 DEF App!AtWork
  <2>3. \A i \in Installers : ~Replacing(i)' /\ ~Dropping(i)' BY <1>1, <2>2 DEF Replacing, Dropping
  <2> QED BY <2>1, <2>3
<1> QED BY <1>2, <1>3, <1>4 DEF HandlerInv

LEMMA Init_HandlerInv == Named /\ App!Init => HandlerInv
<1> SUFFICES ASSUME Named, App!Init PROVE HandlerInv OBVIOUS
<1>1. \A i \in Installers :
         installer[i] = [pc |-> "idle", replacing |-> FALSE, previous |-> App!None, built |-> FALSE]
  BY DEF App!Init
<1>2. HandlerTypeOK
  <2>1. [pc |-> "idle", replacing |-> FALSE, previous |-> App!None, built |-> FALSE] \in InstallerRecords
    BY DEF InstallerRecords, Pcs, All
  <2> QED BY <2>1 DEF App!Init, HandlerTypeOK, All, App!Handlers
<1>3. ASSUME NEW i \in Installers PROVE InstallerSane(i)
  <2>1. installer[i].pc = "idle" /\ ~installer[i].replacing /\ installer[i].previous = App!None
    BY <1>1
  <2> QED BY <2>1 DEF InstallerSane
<1>4. OwnOnly BY <1>1, Names DEF OwnOnly, Replacing, Dropping
<1> QED BY <1>2, <1>3, <1>4 DEF HandlerInv

LEMMA Next_HandlerInv == Named /\ HandlerInv /\ [App!Next]_(App!vars) => HandlerInv'
<1> SUFFICES ASSUME Named, HandlerInv, [App!Next]_(App!vars) PROVE HandlerInv' OBVIOUS
<1>1. CASE UNCHANGED App!vars
  BY <1>1 DEF App!vars, HandlerInv, HandlerTypeOK, InstallerSane, OwnOnly, Replacing, Dropping, Remains, Holds
<1>2. CASE App!Next
  BY <1>2, StillSteps, SetAsideStep, PlaceStep, RestoreStep, CleanupStep, MoveStep
  DEF App!Next, App!Installing, App!Step
<1> QED BY <1>1, <1>2

\* An app that Install did not make, and the last handler of its own, are never
\* given up, whatever fails and whoever else installs (install.go:140-145); a
\* user who changes the app while it is being replaced is the exception.
THEOREM InstallKeeps == ASSUME Named PROVE App!Spec => NothingLost
<1>1. HandlerInv /\ [App!Next]_(App!vars) => [App!Installing =>
          \/ meddled
          \/ /\ App!Foreign \in App!Apps => App!Foreign \in App!Apps'
             /\ App!Apps \cap App!Handlers # {} => App!Apps' \cap App!Handlers # {}]_(App!vars)
  <2> SUFFICES ASSUME HandlerInv, App!Installing PROVE NoneLost
    BY DEF NoneLost
  <2> QED
    BY StillSteps, SetAsideStep, PlaceStep, RestoreStep, CleanupStep DEF App!Installing, App!Step, NoneLost
<1>2. App!Init => HandlerInv BY Init_HandlerInv
<1>3. HandlerInv /\ [App!Next]_(App!vars) => HandlerInv' BY Next_HandlerInv
<1> QED BY <1>1, <1>2, <1>3, PTL DEF App!Spec, NothingLost, App!NothingLost
-----------------------------------------------------------------------------
(* The notes: a move of their directory. *)

Trees == [Files -> Nat]
MovePcs == {"idle", "before", "copy", "after", "compare", "commit", "mark", "rename", "rollback", "clean"}
Outcomes == {"none", "moved", "failed", "left"}
MoveRecords == [pc : MovePcs, outcome : Outcomes, at : Files,
                before : Trees, after : Trees]

MoveTypeOK ==
    /\ dirs \subseteq Places
    /\ tree \in [Places -> Trees]
    /\ move \in MoveRecords
    /\ last \in Trees
    /\ late \subseteq Files

\* What the move has read, compared and copied of a note not written since.
SourceLast == \A f \in Files \ late : tree["source"][f] = last[f]
DestinationLast == \A f \in Files \ late : tree["destination"][f] = last[f]
SourceStands == "source" \in dirs /\ "destination" \notin dirs

MoveSafe ==
    /\ "source" \in dirs => SourceLast
    /\ "source" \notin dirs => "destination" \in dirs /\ DestinationLast
    /\ move.pc \in {"before", "copy", "after", "compare", "commit"} => SourceStands
    /\ move.pc = "after" => \A f \in Files \ late : f < move.at => move.after[f] = last[f]
    /\ move.pc = "compare" => \A f \in Files \ late : move.after[f] = last[f]
    /\ move.pc = "commit" => \A f \in Files \ late : tree["staging"][f] = last[f]
    /\ move.pc \in {"mark", "rename"} => {"source", "destination"} \subseteq dirs /\ DestinationLast
    /\ move.pc = "rollback" => "source" \in dirs
    /\ move.pc = "clean" => "source" \notin dirs
    /\ move.outcome # "none" => move.pc = "idle"

MoveInv == MoveTypeOK /\ MoveSafe /\ OutcomeTrue

USE MoveAssumption, OverlaysAssumption
-----------------------------------------------------------------------------
LEMMA MoveTypes ==
    ASSUME MoveTypeOK
    PROVE  /\ move = [pc |-> move.pc, outcome |-> move.outcome, at |-> move.at,
                      before |-> move.before, after |-> move.after]
           /\ move.pc \in MovePcs /\ move.outcome \in Outcomes
           /\ move.at \in Files /\ move.before \in Trees /\ move.after \in Trees
           /\ 1 \in Files /\ Files \subseteq Nat /\ N \in Files
           /\ \A p \in Places : tree[p] \in Trees
           /\ NoFiles \in Trees
           /\ \A outcome \in Outcomes : Resting(outcome) \in MoveRecords
           /\ \A pc : MoveTo(pc) => move' = [pc |-> pc, outcome |-> move.outcome, at |-> 1,
                                             before |-> move.before, after |-> move.after]
<1>1. 1 \in Files /\ Files \subseteq Nat /\ N \in Files BY DEF Files
<1>2. NoFiles \in Trees BY DEF NoFiles, Trees, Absent
<1>3. \A outcome \in Outcomes : Resting(outcome) \in MoveRecords
  BY <1>1, <1>2 DEF Resting, MoveRecords, MovePcs
<1> QED BY <1>1, <1>2, <1>3 DEF MoveTypeOK, MoveRecords, MoveTo

\* A removal that fails touches the tree of its place only.
LEMMA Thinned ==
    ASSUME MoveTypeOK, NEW p \in Places, PartlyRemoved(p)
    PROVE  /\ tree' \in [Places -> Trees]
           /\ \A q \in Places : q # p => tree'[q] = tree[q]
<1>1. PICK gone \in SUBSET Files :
        tree' = [tree EXCEPT ![p] = [f \in Files |-> IF f \in gone THEN Absent ELSE tree[p][f]]]
  BY DEF PartlyRemoved
<1>2. [f \in Files |-> IF f \in gone THEN Absent ELSE tree[p][f]] \in Trees
  BY MoveTypes DEF Trees, Absent
<1> QED BY <1>1, <1>2 DEF MoveTypeOK

LEMMA Walks ==
    ASSUME MoveTypeOK, NEW record \in MoveRecords, NEW next \in MovePcs, Walk(record, next)
    PROVE  /\ move' = [pc |-> IF AtEnd THEN next ELSE move.pc, outcome |-> record.outcome,
                       at |-> IF AtEnd THEN 1 ELSE move.at + 1,
                       before |-> record.before, after |-> record.after]
           /\ move' \in MoveRecords
<1>1. record = [pc |-> record.pc, outcome |-> record.outcome, at |-> record.at,
                before |-> record.before, after |-> record.after]
  BY DEF MoveRecords
<1>2. move' = [pc |-> IF AtEnd THEN next ELSE move.pc, outcome |-> record.outcome,
               at |-> IF AtEnd THEN 1 ELSE move.at + 1,
               before |-> record.before, after |-> record.after]
  BY <1>1 DEF Walk
<1>3. (IF AtEnd THEN 1 ELSE move.at + 1) \in Files BY MoveTypes DEF AtEnd, Files
<1>4. (IF AtEnd THEN next ELSE move.pc) \in MovePcs BY MoveTypes
<1> QED BY <1>2, <1>3, <1>4 DEF MoveRecords

LEMMA Init_MoveInv == MoveInit => MoveInv
<1> SUFFICES ASSUME MoveInit PROVE MoveInv OBVIOUS
<1>1. 1 \in Files /\ Files \subseteq Nat BY DEF Files
<1>2. NoFiles \in Trees /\ [f \in Files |-> 1] \in Trees BY DEF NoFiles, Trees, Absent
<1>3. /\ move = [pc |-> "idle", outcome |-> "none", at |-> 1, before |-> NoFiles, after |-> NoFiles]
      /\ move.pc = "idle" /\ move.outcome = "none"
  BY DEF MoveInit, Resting
<1>4. MoveTypeOK
  <2>1. move \in MoveRecords BY <1>1, <1>2, <1>3 DEF MoveRecords, MovePcs, Outcomes
  <2> QED BY <1>2, <2>1 DEF MoveInit, MoveTypeOK, Places
<1>5. SourceLast BY DEF MoveInit, SourceLast, Places
<1>6. MoveSafe BY <1>3, <1>5 DEF MoveSafe, MoveInit
<1>7. OutcomeTrue BY <1>3 DEF OutcomeTrue
<1> QED BY <1>4, <1>6, <1>7 DEF MoveInv

LEMMA StartInv == MoveInv /\ MoveStart => MoveInv'
<1> SUFFICES ASSUME MoveInv, MoveStart PROVE MoveInv' OBVIOUS
<1>0. MoveTypeOK /\ MoveSafe BY DEF MoveInv
<1>1. /\ "source" \in dirs /\ "destination" \notin dirs
      /\ move' = [Resting("none") EXCEPT !.pc = "before"]
      /\ late' = {f \in late : tree["source"][f] # last[f]}
      /\ UNCHANGED <<dirs, tree, last>>
  BY DEF MoveStart
<1>2. move' = [pc |-> "before", outcome |-> "none", at |-> 1, before |-> NoFiles, after |-> NoFiles]
  BY <1>1 DEF Resting
<1>3. MoveTypeOK'
  <2>1. move' \in MoveRecords BY <1>0, <1>2, MoveTypes DEF MoveRecords, MovePcs, Outcomes
  <2> QED BY <1>0, <1>1, <2>1 DEF MoveTypeOK
<1>4. SourceLast' BY <1>0, <1>1 DEF SourceLast, MoveSafe
<1>5. MoveSafe' BY <1>1, <1>2, <1>4 DEF MoveSafe, SourceStands
<1>6. OutcomeTrue' BY <1>2 DEF OutcomeTrue
<1> QED BY <1>3, <1>5, <1>6 DEF MoveInv

LEMMA ManifestBeforeInv == MoveInv /\ ManifestBefore => MoveInv'
<1> SUFFICES ASSUME MoveInv, ManifestBefore PROVE MoveInv' OBVIOUS
<1>0. MoveTypeOK /\ MoveSafe BY DEF MoveInv
<1>1. /\ move.pc = "before" /\ UNCHANGED <<last, late>>
      /\ Walk([move EXCEPT !.before[move.at] = tree["source"][move.at]], "copy")
      /\ dirs' \in {dirs, dirs \cup {"staging"}}
      /\ tree' \in {tree, [tree EXCEPT !["staging"] = NoFiles]}
  BY DEF ManifestBefore, MoveAt
<1> DEFINE record == [move EXCEPT !.before[move.at] = tree["source"][move.at]]
<1>2. /\ record = [pc |-> move.pc, outcome |-> move.outcome, at |-> move.at,
                   before |-> [move.before EXCEPT ![move.at] = tree["source"][move.at]], after |-> move.after]
      /\ [move.before EXCEPT ![move.at] = tree["source"][move.at]] \in Trees
  BY <1>0, MoveTypes DEF Trees, Places
<1>3. record \in MoveRecords BY <1>0, <1>2, MoveTypes DEF MoveRecords
<1>4. record.outcome = move.outcome BY <1>2
<1>5. Walk(record, "copy") BY <1>1
<1> HIDE DEF record
<1>6. /\ move' = [pc |-> IF AtEnd THEN "copy" ELSE move.pc, outcome |-> move.outcome,
                  at |-> IF AtEnd THEN 1 ELSE move.at + 1, before |-> record.before, after |-> record.after]
      /\ move' \in MoveRecords
  BY <1>0, <1>3, <1>4, <1>5, Walks DEF MovePcs
<1>7. move'.pc \in {"before", "copy"} /\ move'.outcome = "none" BY <1>0, <1>1, <1>6, MoveTypes DEF MoveSafe
<1>8. MoveTypeOK' BY <1>0, <1>1, <1>6, MoveTypes DEF MoveTypeOK, Places
<1>9. tree'["source"] = tree["source"] BY <1>0, <1>1 DEF MoveTypeOK, Places
<1>10. MoveSafe' BY <1>0, <1>1, <1>7, <1>9 DEF MoveSafe, SourceStands, SourceLast
<1>11. OutcomeTrue' BY <1>7 DEF OutcomeTrue
<1> QED BY <1>8, <1>10, <1>11 DEF MoveInv

LEMMA CopyInv == MoveInv /\ CopyTree => MoveInv'
<1> SUFFICES ASSUME MoveInv, CopyTree PROVE MoveInv' OBVIOUS
<1>0. MoveTypeOK /\ MoveSafe BY DEF MoveInv
<1>1. /\ move.pc = "copy" /\ UNCHANGED <<dirs, last, late>> /\ Walk(move, "after")
      /\ tree' = [tree EXCEPT !["staging"][move.at] = tree["source"][move.at]]
  BY DEF CopyTree, MoveAt
<1>2. /\ move' = [pc |-> IF AtEnd THEN "after" ELSE move.pc, outcome |-> move.outcome,
                  at |-> IF AtEnd THEN 1 ELSE move.at + 1, before |-> move.before, after |-> move.after]
      /\ move' \in MoveRecords
  BY <1>0, <1>1, Walks DEF MoveTypeOK, MovePcs
<1>3. /\ move'.pc \in {"copy", "after"} /\ move'.outcome = "none"
      /\ move'.pc = "after" => move'.at = 1
  BY <1>0, <1>1, <1>2, MoveTypes DEF MoveSafe
<1>4. tree' = [tree EXCEPT !["staging"] = [tree["staging"] EXCEPT ![move.at] = tree["source"][move.at]]]
  BY <1>0, <1>1 DEF MoveTypeOK, Places
<1>5. [tree["staging"] EXCEPT ![move.at] = tree["source"][move.at]] \in Trees
  BY <1>0, MoveTypes DEF Trees, Places
<1>6. tree' \in [Places -> Trees] /\ tree'["source"] = tree["source"]
  BY <1>0, <1>4, <1>5 DEF MoveTypeOK, Places
<1>7. MoveTypeOK' BY <1>0, <1>1, <1>2, <1>6 DEF MoveTypeOK
<1>8. MoveSafe' BY <1>0, <1>1, <1>3, <1>6 DEF MoveSafe, SourceStands, SourceLast, Files
<1>9. OutcomeTrue' BY <1>3 DEF OutcomeTrue
<1> QED BY <1>7, <1>8, <1>9 DEF MoveInv

LEMMA ManifestAfterInv == MoveInv /\ ManifestAfter => MoveInv'
<1> SUFFICES ASSUME MoveInv, ManifestAfter PROVE MoveInv' OBVIOUS
<1>0. MoveTypeOK /\ MoveSafe BY DEF MoveInv
<1>1. /\ move.pc = "after" /\ UNCHANGED <<dirs, tree, last, late>>
      /\ Walk([move EXCEPT !.after[move.at] = tree["source"][move.at]], "compare")
  BY DEF ManifestAfter, MoveAt
<1> DEFINE read == [move.after EXCEPT ![move.at] = tree["source"][move.at]]
           record == [move EXCEPT !.after[move.at] = tree["source"][move.at]]
<1>2. /\ record = [pc |-> move.pc, outcome |-> move.outcome, at |-> move.at,
                   before |-> move.before, after |-> read]
      /\ read \in Trees
  BY <1>0, MoveTypes DEF Trees, Places
<1>3. record \in MoveRecords BY <1>0, <1>2, MoveTypes DEF MoveRecords
<1>4. record.outcome = move.outcome /\ record.after = read BY <1>2
<1>5. Walk(record, "compare") BY <1>1
<1>6. \A f \in Files : read[f] = IF f = move.at THEN tree["source"][f] ELSE move.after[f]
  BY <1>0, MoveTypes DEF Trees
<1> HIDE DEF record, read
<1>7. /\ move' = [pc |-> IF AtEnd THEN "compare" ELSE move.pc, outcome |-> move.outcome,
                  at |-> IF AtEnd THEN 1 ELSE move.at + 1, before |-> record.before, after |-> read]
      /\ move' \in MoveRecords
  BY <1>0, <1>3, <1>4, <1>5, Walks DEF MovePcs
<1>8. /\ move'.pc \in {"after", "compare"} /\ move'.outcome = "none" /\ move'.after = read
      /\ move'.pc = "after" => move'.at = move.at + 1
      /\ move'.pc = "compare" => move.at = N
  BY <1>0, <1>1, <1>7, MoveTypes DEF MoveSafe, AtEnd
<1>9. \A f \in Files \ late : f <= move.at => read[f] = last[f]
  <2> SUFFICES ASSUME NEW f \in Files \ late, f <= move.at PROVE read[f] = last[f] OBVIOUS
  <2>1. CASE f = move.at BY <1>0, <1>1, <1>6, <2>1 DEF MoveSafe, SourceStands, SourceLast
  <2>2. CASE f # move.at
    <3>1. f < move.at BY <1>0, <2>2, MoveTypes
    <3> QED BY <1>0, <1>1, <1>6, <2>2, <3>1 DEF MoveSafe
  <2> QED BY <2>1, <2>2
<1>10. MoveTypeOK' BY <1>0, <1>1, <1>7 DEF MoveTypeOK
<1>11. move'.pc = "after" => \A f \in Files \ late : f < move'.at => move'.after[f] = last[f]
  BY <1>0, <1>8, <1>9, MoveTypes
<1>12. move'.pc = "compare" => \A f \in Files \ late : move'.after[f] = last[f]
  BY <1>8, <1>9 DEF Files
<1>13. MoveSafe' BY <1>0, <1>1, <1>8, <1>11, <1>12 DEF MoveSafe, SourceStands, SourceLast
<1>14. OutcomeTrue' BY <1>8 DEF OutcomeTrue
<1> QED BY <1>10, <1>13, <1>14 DEF MoveInv

\* A failure on the way: what it removes, and the source stays as it is.
LEMMA FailsInv ==
    ASSUME MoveInv, "source" \in dirs, NEW removed \in {{}, {"staging"}, {"destination"}}, Fails(removed),
           "destination" \notin dirs \ removed, UNCHANGED <<tree, last, late>>
    PROVE  MoveInv'
<1>0. MoveTypeOK /\ MoveSafe BY DEF MoveInv
<1>1. /\ move' = [pc |-> "idle", outcome |-> "failed", at |-> 1, before |-> NoFiles, after |-> NoFiles]
      /\ move' \in MoveRecords /\ dirs' = dirs \ removed
  BY <1>0, MoveTypes DEF Fails, Resting, Outcomes
<1>2. MoveTypeOK' BY <1>0, <1>1 DEF MoveTypeOK
<1>3. MoveSafe' BY <1>0, <1>1 DEF MoveSafe, SourceLast
<1>4. OutcomeTrue' BY <1>0, <1>1 DEF OutcomeTrue, MoveSafe, SourceLast
<1> QED BY <1>2, <1>3, <1>4 DEF MoveInv

LEMMA CompareInv == MoveInv /\ Compare => MoveInv'
<1> SUFFICES ASSUME MoveInv, Compare PROVE MoveInv' OBVIOUS
<1>0. MoveTypeOK /\ MoveSafe BY DEF MoveInv
<1>1. move.pc = "compare" /\ UNCHANGED <<tree, last, late>> BY DEF Compare, MoveAt
<1>2. CASE Fails({"staging"}) BY <1>0, <1>1, <1>2, FailsInv DEF MoveSafe, SourceStands
<1>3. CASE move.before = move.after /\ move.before = tree["staging"] /\ MoveTo("commit") /\ UNCHANGED dirs
  <2>1. move' = [pc |-> "commit", outcome |-> move.outcome, at |-> 1,
                 before |-> move.before, after |-> move.after]
    BY <1>0, <1>3, MoveTypes
  <2>2. move' \in MoveRecords BY <1>0, <2>1, MoveTypes DEF MoveRecords, MovePcs
  <2>3. move.outcome = "none" BY <1>0, <1>1, MoveTypes DEF MoveSafe
  <2>4. MoveTypeOK' BY <1>0, <1>1, <1>3, <2>2 DEF MoveTypeOK
  <2>5. MoveSafe' BY <1>0, <1>1, <1>3, <2>1, <2>3 DEF MoveSafe, SourceStands, SourceLast
  <2>6. OutcomeTrue' BY <2>1, <2>3 DEF OutcomeTrue
  <2> QED BY <2>4, <2>5, <2>6 DEF MoveInv
<1> QED BY <1>2, <1>3 DEF Compare

LEMMA CommitInv == MoveInv /\ Commit => MoveInv'
<1> SUFFICES ASSUME MoveInv, Commit PROVE MoveInv' OBVIOUS
<1>0. MoveTypeOK /\ MoveSafe BY DEF MoveInv
<1>1. /\ move.pc = "commit" /\ UNCHANGED <<last, late>>
      /\ dirs' = (dirs \ {"staging"}) \cup {"destination"}
      /\ tree' = [tree EXCEPT !["destination"] = tree["staging"]]
      /\ move' = [pc |-> "mark", outcome |-> move.outcome, at |-> 1,
                  before |-> move.before, after |-> move.after]
  BY <1>0, MoveTypes DEF Commit, MoveAt
<1>2. move' \in MoveRecords BY <1>0, <1>1, MoveTypes DEF MoveRecords, MovePcs
<1>3. move'.outcome = "none" BY <1>0, <1>1, MoveTypes DEF MoveSafe
<1>4. /\ tree' \in [Places -> Trees] /\ tree'["source"] = tree["source"]
      /\ tree'["destination"] = tree["staging"]
  BY <1>0, <1>1, MoveTypes DEF MoveTypeOK, Places
<1>5. MoveTypeOK' BY <1>0, <1>1, <1>2, <1>4 DEF MoveTypeOK, Places
<1>6. DestinationLast' BY <1>0, <1>1, <1>4 DEF MoveSafe, DestinationLast
<1>7. MoveSafe' BY <1>0, <1>1, <1>3, <1>4, <1>6 DEF MoveSafe, SourceStands, SourceLast
<1>8. OutcomeTrue' BY <1>3 DEF OutcomeTrue
<1> QED BY <1>5, <1>7, <1>8 DEF MoveInv

\* On to the renaming of the source, or back.
LEMMA TurnsInv ==
    ASSUME MoveInv, move.pc \in {"mark", "rename"}, NEW pc \in {"rename", "rollback"}, MoveTo(pc),
           UNCHANGED <<dirs, tree, last, late>>
    PROVE  MoveInv'
<1>0. MoveTypeOK /\ MoveSafe BY DEF MoveInv
<1>1. move' = [pc |-> pc, outcome |-> move.outcome, at |-> 1, before |-> move.before, after |-> move.after]
  BY <1>0, MoveTypes
<1>2. move' \in MoveRecords BY <1>0, <1>1, MoveTypes DEF MoveRecords, MovePcs
<1>3. move.outcome = "none" BY <1>0, MoveTypes DEF MoveSafe
<1>4. MoveTypeOK' BY <1>0, <1>2 DEF MoveTypeOK
<1>5. MoveSafe' BY <1>0, <1>1, <1>3 DEF MoveSafe, SourceLast, DestinationLast
<1>6. OutcomeTrue' BY <1>1, <1>3 DEF OutcomeTrue
<1> QED BY <1>4, <1>5, <1>6 DEF MoveInv

LEMMA LookForMarkInv == MoveInv /\ LookForMark => MoveInv'
<1> SUFFICES ASSUME MoveInv, LookForMark PROVE MoveInv' OBVIOUS
<1> QED BY TurnsInv DEF LookForMark, MoveAt

LEMMA RollBackInv == MoveInv /\ RollBack => MoveInv'
<1> SUFFICES ASSUME MoveInv, RollBack PROVE MoveInv' OBVIOUS
<1>0. MoveTypeOK /\ MoveSafe BY DEF MoveInv
<1>1. "source" \in dirs /\ UNCHANGED <<last, late>> BY <1>0 DEF RollBack, MoveAt, MoveSafe
<1>2. CASE Fails({"destination"}) /\ UNCHANGED tree BY <1>1, <1>2, FailsInv
<1>3. CASE PartlyRemoved("destination") /\ move' = Resting("left") /\ UNCHANGED dirs
  <2>1. /\ move' = [pc |-> "idle", outcome |-> "left", at |-> 1, before |-> NoFiles, after |-> NoFiles]
        /\ move' \in MoveRecords
    BY <1>0, <1>3, MoveTypes DEF Resting, Outcomes
  <2>2. tree' \in [Places -> Trees] /\ tree'["source"] = tree["source"] BY <1>0, <1>3, Thinned DEF Places
  <2>3. MoveTypeOK' BY <1>0, <1>1, <1>3, <2>1, <2>2 DEF MoveTypeOK
  <2>4. SourceLast' BY <1>0, <1>1, <2>2 DEF MoveSafe, SourceLast
  <2>5. MoveSafe' BY <1>1, <1>3, <2>1, <2>4 DEF MoveSafe
  <2>6. OutcomeTrue' BY <1>1, <1>3, <2>1, <2>4 DEF OutcomeTrue, SourceLast
  <2> QED BY <2>3, <2>5, <2>6 DEF MoveInv
<1> QED BY <1>2, <1>3 DEF RollBack

LEMMA RenameSourceInv == MoveInv /\ RenameSource => MoveInv'
<1> SUFFICES ASSUME MoveInv, RenameSource PROVE MoveInv' OBVIOUS
<1>0. MoveTypeOK /\ MoveSafe BY DEF MoveInv
<1>1. /\ move.pc = "rename" /\ UNCHANGED <<last, late>>
      /\ dirs' = (dirs \ {"source"}) \cup {"tombstone"}
      /\ tree' = [tree EXCEPT !["tombstone"] = tree["source"]]
      /\ move' = [pc |-> "clean", outcome |-> move.outcome, at |-> 1,
                  before |-> move.before, after |-> move.after]
  BY <1>0, MoveTypes DEF RenameSource, MoveAt
<1>2. move' \in MoveRecords BY <1>0, <1>1, MoveTypes DEF MoveRecords, MovePcs
<1>3. move'.outcome = "none" BY <1>0, <1>1, MoveTypes DEF MoveSafe
<1>4. tree' \in [Places -> Trees] /\ tree'["destination"] = tree["destination"]
  BY <1>0, <1>1, MoveTypes DEF MoveTypeOK, Places
<1>5. MoveTypeOK' BY <1>0, <1>1, <1>2, <1>4 DEF MoveTypeOK, Places
<1>6. DestinationLast' BY <1>0, <1>1, <1>4 DEF MoveSafe, DestinationLast
<1>7. MoveSafe' BY <1>0, <1>1, <1>3, <1>6 DEF MoveSafe
<1>8. OutcomeTrue' BY <1>3 DEF OutcomeTrue
<1> QED BY <1>5, <1>7, <1>8 DEF MoveInv

LEMMA CleanInv == MoveInv /\ Clean => MoveInv'
<1> SUFFICES ASSUME MoveInv, Clean PROVE MoveInv' OBVIOUS
<1>0. MoveTypeOK /\ MoveSafe BY DEF MoveInv
<1>1. /\ move.pc = "clean" /\ UNCHANGED <<last, late>> /\ dirs' \in {dirs, dirs \ {"tombstone"}}
      /\ move' = [pc |-> "idle", outcome |-> "moved", at |-> 1, before |-> NoFiles, after |-> NoFiles]
      /\ move' \in MoveRecords
  BY <1>0, MoveTypes DEF Clean, MoveAt, Resting, Outcomes
<1>2. tree' \in [Places -> Trees] /\ tree'["destination"] = tree["destination"]
  <2>1. CASE UNCHANGED tree BY <1>0, <2>1 DEF MoveTypeOK
  <2>2. CASE PartlyRemoved("tombstone") BY <1>0, <2>2, Thinned DEF Places
  <2> QED BY <2>1, <2>2 DEF Clean
<1>3. MoveTypeOK' BY <1>0, <1>1, <1>2 DEF MoveTypeOK
<1>4. "source" \notin dirs /\ "destination" \in dirs /\ DestinationLast'
  BY <1>0, <1>1, <1>2 DEF MoveSafe, DestinationLast
<1>5. MoveSafe' BY <1>1, <1>4 DEF MoveSafe
<1>6. OutcomeTrue' BY <1>1, <1>4 DEF OutcomeTrue, DestinationLast
<1> QED BY <1>3, <1>5, <1>6 DEF MoveInv

LEMMA FailingInv == MoveInv /\ MoveFails => MoveInv'
<1> SUFFICES ASSUME MoveInv, MoveFails PROVE MoveInv' OBVIOUS
<1>0. MoveTypeOK /\ MoveSafe BY DEF MoveInv
<1>1. UNCHANGED <<tree, last, late>> BY DEF MoveFails
<1>2. CASE move.pc \in {"before", "copy", "after", "compare", "commit"} /\ Fails({"staging"})
  BY <1>0, <1>1, <1>2, FailsInv DEF MoveSafe, SourceStands
<1>3. CASE MoveAt("rename") /\ MoveTo("rollback") /\ UNCHANGED dirs
  BY <1>1, <1>3, TurnsInv DEF MoveAt
<1> QED BY <1>2, <1>3 DEF MoveFails

LEMMA KilledInv == MoveInv /\ MoveKilled => MoveInv'
<1> SUFFICES ASSUME MoveInv, MoveKilled PROVE MoveInv' OBVIOUS
<1>0. MoveTypeOK /\ MoveSafe BY DEF MoveInv
<1>1. /\ UNCHANGED <<last, late>> /\ dirs' = dirs \ {"staging"}
      /\ move' = [pc |-> "idle", outcome |-> "none", at |-> 1, before |-> NoFiles, after |-> NoFiles]
      /\ move' \in MoveRecords
  BY <1>0, MoveTypes DEF MoveKilled, Resting, Outcomes
<1>2. /\ tree' \in [Places -> Trees]
      /\ "source" \in dirs => tree'["source"] = tree["source"]
      /\ "source" \notin dirs => tree'["destination"] = tree["destination"]
  <2>1. CASE MoveAt("rollback") /\ PartlyRemoved("destination")
    BY <1>0, <2>1, Thinned DEF Places, MoveSafe, MoveAt
  <2>2. CASE MoveAt("clean") /\ PartlyRemoved("tombstone")
    BY <1>0, <2>2, Thinned DEF Places
  <2>3. CASE UNCHANGED tree BY <1>0, <2>3 DEF MoveTypeOK
  <2> QED BY <2>1, <2>2, <2>3 DEF MoveKilled
<1>3. MoveTypeOK' BY <1>0, <1>1, <1>2 DEF MoveTypeOK
<1>4. MoveSafe' BY <1>0, <1>1, <1>2 DEF MoveSafe, SourceLast, DestinationLast
<1>5. OutcomeTrue' BY <1>1 DEF OutcomeTrue
<1> QED BY <1>3, <1>4, <1>5 DEF MoveInv

LEMMA MoveBackInv == MoveInv /\ MoveBack => MoveInv'
<1> SUFFICES ASSUME MoveInv, MoveBack PROVE MoveInv' OBVIOUS
<1>0. MoveTypeOK /\ MoveSafe BY DEF MoveInv
<1>1. /\ "source" \notin dirs /\ dirs' = (dirs \ {"destination"}) \cup {"source"}
      /\ tree' = [tree EXCEPT !["source"] = tree["destination"]]
      /\ move' = [pc |-> "idle", outcome |-> "none", at |-> 1, before |-> NoFiles, after |-> NoFiles]
      /\ move' \in MoveRecords /\ UNCHANGED <<last, late>>
  BY <1>0, MoveTypes DEF MoveBack, Resting, Outcomes
<1>2. tree' \in [Places -> Trees] /\ tree'["source"] = tree["destination"]
  BY <1>0, <1>1, MoveTypes DEF MoveTypeOK, Places
<1>3. MoveTypeOK' BY <1>0, <1>1, <1>2 DEF MoveTypeOK, Places
<1>4. SourceLast' BY <1>0, <1>1, <1>2 DEF MoveSafe, SourceLast, DestinationLast
<1>5. MoveSafe' BY <1>1, <1>4 DEF MoveSafe
<1>6. OutcomeTrue' BY <1>1 DEF OutcomeTrue
<1> QED BY <1>3, <1>5, <1>6 DEF MoveInv

\* A note written behind the move's back is late; before it is not.
LEMMA WriteInv ==
    ASSUME MoveInv, NEW f \in Files, NEW c \in Contents \cup {Absent}, Write(f, c)
    PROVE  MoveInv'
<1>0. MoveTypeOK /\ MoveSafe /\ OutcomeTrue BY DEF MoveInv
<1> DEFINE p == IF "source" \in dirs THEN "source" ELSE "destination"
<1>1. /\ tree' = [tree EXCEPT ![p][f] = c] /\ last' = [last EXCEPT ![f] = c]
      /\ late' = IF Looked(f) THEN late \cup {f} ELSE late
      /\ UNCHANGED <<dirs, move>>
  BY DEF Write
<1>2. c \in Nat /\ p \in {"source", "destination"} BY DEF Absent
<1>3. tree' = [tree EXCEPT ![p] = [tree[p] EXCEPT ![f] = c]] BY <1>0, <1>1, <1>2 DEF MoveTypeOK, Places
<1> HIDE DEF p
<1>4. [tree[p] EXCEPT ![f] = c] \in Trees BY <1>0, <1>2, MoveTypes DEF Trees, Places
<1>5. /\ tree' \in [Places -> Trees]
      /\ tree'[p] = [tree[p] EXCEPT ![f] = c]
      /\ \A q \in Places : q # p => tree'[q] = tree[q]
  BY <1>0, <1>2, <1>3, <1>4 DEF MoveTypeOK, Places
<1>6. last' \in Trees /\ last'[f] = c /\ \A g \in Files : g # f => last'[g] = last[g]
  BY <1>0, <1>1, <1>2 DEF MoveTypeOK, Trees
<1>7. late' \subseteq Files /\ late \subseteq late' /\ (Looked(f) => f \in late')
  BY <1>0, <1>1 DEF MoveTypeOK
<1>8. tree'[p][f] = c /\ \A g \in Files : g # f => tree'[p][g] = tree[p][g]
  BY <1>0, <1>2, <1>5, MoveTypes DEF Trees, Places
<1>9. MoveTypeOK' BY <1>0, <1>1, <1>5, <1>6, <1>7 DEF MoveTypeOK
<1>10. CASE "source" \in dirs
  <2>1. p = "source" BY <1>10 DEF p
  <2>2. SourceLast' BY <1>0, <1>6, <1>7, <1>8, <1>10, <2>1 DEF MoveSafe, SourceLast
  <2>3. move.pc = "after" => \A g \in Files \ late' : g < move.at => move.after[g] = last'[g]
    BY <1>0, <1>6, <1>7 DEF MoveSafe, Looked, MoveAt
  <2>4. move.pc = "compare" => \A g \in Files \ late' : move.after[g] = last'[g]
    BY <1>0, <1>6, <1>7 DEF MoveSafe, Looked
  <2>5. move.pc = "commit" => \A g \in Files \ late' : tree'["staging"][g] = last'[g]
    <3>1. tree'["staging"] = tree["staging"] BY <1>5, <2>1 DEF Places
    <3> QED BY <1>0, <1>6, <1>7, <3>1 DEF MoveSafe, Looked
  <2>6. move.pc \in {"mark", "rename"} => DestinationLast'
    <3>1. tree'["destination"] = tree["destination"] BY <1>5, <2>1 DEF Places
    <3> QED BY <1>0, <1>6, <1>7, <3>1 DEF MoveSafe, Looked, DestinationLast
  <2>7. MoveSafe' BY <1>0, <1>1, <1>10, <2>2, <2>3, <2>4, <2>5, <2>6 DEF MoveSafe, SourceStands
  <2>8. OutcomeTrue' BY <1>0, <1>1, <1>10, <2>2 DEF OutcomeTrue, SourceLast
  <2> QED BY <1>9, <2>7, <2>8 DEF MoveInv
<1>11. CASE "source" \notin dirs
  <2>1. p = "destination" BY <1>11 DEF p
  <2>2. DestinationLast' BY <1>0, <1>6, <1>7, <1>8, <1>11, <2>1 DEF MoveSafe, DestinationLast
  <2>3. MoveSafe' BY <1>0, <1>1, <1>11, <2>2 DEF MoveSafe, SourceStands
  <2>4. OutcomeTrue' BY <1>0, <1>1, <1>11, <2>2 DEF OutcomeTrue, DestinationLast
  <2> QED BY <1>9, <2>3, <2>4 DEF MoveInv
<1> QED BY <1>10, <1>11

LEMMA Next_MoveInv == MoveInv /\ [Next]_vars => MoveInv'
<1> SUFFICES ASSUME MoveInv, [Next]_vars PROVE MoveInv' OBVIOUS
<1>1. CASE MoveNext
  BY <1>1, StartInv, ManifestBeforeInv, CopyInv, ManifestAfterInv, CompareInv, CommitInv, LookForMarkInv,
     RollBackInv, RenameSourceInv, CleanInv, FailingInv, KilledInv, MoveBackInv, WriteInv DEF MoveNext
<1>2. CASE UNCHANGED <<dirs, tree, move, last, late>>
  BY <1>2 DEF MoveInv, MoveTypeOK, MoveSafe, OutcomeTrue, SourceStands, SourceLast, DestinationLast
<1>3. CASE CacheNext
  <2>1. UNCHANGED <<dirs, tree, move, last, late>>
    BY <1>3 DEF CacheNext, Request, ScanRead, LoadRow, LoadParts, Save, Killed, moveVars
  <2> QED BY <1>2, <2>1
<1> QED BY <1>1, <1>2, <1>3 DEF Next, vars, moveVars

\* What was written to a note before the move's last look at it is in a tree
\* that remains, through failures and kills.
THEOREM NotesKept == Spec => []KeptUnlessLate
<1>1. MoveInv => KeptUnlessLate
  <2> SUFFICES ASSUME MoveInv, NEW f \in Files \ late
               PROVE \E p \in dirs \cap {"source", "destination", "tombstone"} : tree[p][f] = last[f]
    BY DEF KeptUnlessLate
  <2>1. CASE "source" \in dirs BY <2>1 DEF MoveInv, MoveSafe, SourceLast
  <2>2. CASE "source" \notin dirs BY <2>2 DEF MoveInv, MoveSafe, DestinationLast
  <2> QED BY <2>1, <2>2
<1> QED BY <1>1, Init_MoveInv, Next_MoveInv, PTL DEF Spec, Init

\* A move that answers "moved" left the notes at the destination only, and any other
\* answer leaves them at the source: in both cases with all that was written before the
\* move's last look at them, through failing and interrupted removals.
THEOREM OutcomesTrue == Spec => []OutcomeTrue
<1>1. MoveInv => OutcomeTrue BY DEF MoveInv
<1> QED BY <1>1, Init_MoveInv, Next_MoveInv, PTL DEF Spec, Init
-----------------------------------------------------------------------------
(* The cache. *)

\* A nonempty set of numbers has a least one: among the intervals up to its
\* members one has no other inside.
LEMMA FirstIn ==
    ASSUME NEW S \in SUBSET Nat, S # {}
    PROVE  First(S) \in S
<1> DEFINE Below == {0 .. x : x \in S}
<1>1. \A x \in Nat : 0 .. x \in FiniteSubsetsOf(Nat) BY FS_Interval DEF FiniteSubsetsOf
<1>2. Below \subseteq FiniteSubsetsOf(Nat) /\ Below # {}
  <2>1. \A b \in Below : \E x \in S : b = 0 .. x OBVIOUS
  <2>2. \E b : b \in Below OBVIOUS
  <2> HIDE DEF Below
  <2> QED BY <1>1, <2>1, <2>2
<1>3. IsWellFoundedOn(StrictSubsetOrdering(Nat), FiniteSubsetsOf(Nat))
  BY FS_StrictSubsetOrderingWellFounded
<1> HIDE DEF Below
<1>4. PICK b \in Below : \A c \in Below : ~(<<c, b>> \in StrictSubsetOrdering(Nat))
  BY <1>2, <1>3, WFMin
<1>5. PICK x \in S : b = 0 .. x BY DEF Below
<1>6. ASSUME NEW y \in S PROVE x <= y
  <2>1. 0 .. y \in Below BY DEF Below
  <2>2. ~(0 .. y \subseteq 0 .. x /\ 0 .. y # 0 .. x)
    <3>1. \A c, d \in SUBSET Nat :
            c \subseteq d /\ c # d => <<c, d>> \in StrictSubsetOrdering(Nat)
      BY DEF StrictSubsetOrdering
    <3>2. 0 .. y \in SUBSET Nat /\ 0 .. x \in SUBSET Nat OBVIOUS
    <3> DEFINE c == 0 .. y
               d == 0 .. x
    <3>3. c \in Below /\ d = b /\ c \in SUBSET Nat /\ d \in SUBSET Nat BY <1>5, <2>1, <3>2
    <3> HIDE DEF c, d
    <3>4. ~(c \subseteq d /\ c # d) BY <1>4, <3>1, <3>3
    <3> QED BY <3>4 DEF c, d
  <2>3. ASSUME y < x PROVE FALSE
    <3>1. 0 .. y \subseteq 0 .. x BY <2>3
    <3>2. x \in 0 .. x /\ x \notin 0 .. y BY <2>3
    <3> QED BY <2>2, <3>1, <3>2
  <2> QED BY <2>3
<1> QED BY <1>6 DEF First

Docs == Nat \X Nat
Rows == [doc : Docs, parts : Docs]
Requests == [pc : {"scan", "rows", "parts"}, matches : BOOLEAN, overlay : Trees, todo : SUBSET Files,
             scan : Trees, answer : [Files -> Rows], changed : SUBSET Files,
             invalidated : SUBSET Files, raced : BOOLEAN]
CacheTypeOK ==
    /\ tree["source"] \in Trees
    /\ db \in [meta : Nat, rows : [Files -> Rows]]
    /\ req \in [Clients -> Requests \cup {NoRequest}]

Sound(row) == row.doc[1] = Current /\ row.parts = row.doc
Loading(c) == req[c].pc \in {"rows", "parts"}

\* What a request has made of each note it is through with.
Through(c, f) ==
    LET r == req[c] IN
    /\ r.answer[f].doc = Parse(Current, Text(c, f))
    /\ r.answer[f].parts = r.answer[f].doc \/ r.raced
    /\ ~r.matches => f \in r.changed \cup r.invalidated

RequestSafe(c) ==
    LET r == req[c] IN
    /\ r.pc = "scan" => r.changed = {}
    /\ r.pc # "idle" /\ r.matches => db.meta = Current
    /\ Loading(c) => /\ r.todo \subseteq Scanned(c)
                     /\ r.changed \subseteq Scanned(c) \ r.todo
                     /\ \A f \in r.changed : r.answer[f] = RowOf(Parse(Current, Text(c, f)))
                     /\ \A f \in Scanned(c) \ r.todo : Through(c, f)
    /\ r.pc = "parts" =>
          /\ r.todo # {}
          /\ r.matches
          /\ r.answer[First(r.todo)].doc = Parse(Current, Text(c, First(r.todo)))
          /\ r.raced \/ db.rows[First(r.todo)].parts = r.answer[First(r.todo)].doc

CacheInv == CacheTypeOK /\ CacheSound /\ \A c \in Clients : RequestSafe(c)

LEMMA CacheTypes ==
    ASSUME CacheTypeOK, NEW c \in Clients, req[c] # NoRequest
    PROVE  /\ req[c] \in Requests
           /\ req[c] = [pc |-> req[c].pc, matches |-> req[c].matches, overlay |-> req[c].overlay,
                        todo |-> req[c].todo, scan |-> req[c].scan, answer |-> req[c].answer,
                        changed |-> req[c].changed, invalidated |-> req[c].invalidated,
                        raced |-> req[c].raced]
BY DEF CacheTypeOK, Requests

LEMMA NoFilesIn == NoFiles \in Trees /\ 1 \in Files /\ Files \subseteq Nat
BY DEF NoFiles, Trees, Absent, Files

LEMMA RowTypes ==
    /\ Nothing \in Docs /\ NoRow \in Rows
    /\ \A p \in Docs : RowOf(p) \in Rows /\ RowOf(p).doc = p /\ RowOf(p).parts = p
    /\ \A x \in Nat : Parse(Current, x) \in Docs /\ Parse(Current, x)[1] = Current
    /\ NoRow.doc = Nothing
BY DEF Nothing, Docs, NoRow, Rows, RowOf, Parse, Current

\* A helper that ends leaves the others as they are.
LEMMA EndsKeep ==
    ASSUME CacheInv, NEW c \in Clients, Ends(c), UNCHANGED db, tree'["source"] \in Trees
    PROVE  CacheInv'
<1>1. CacheTypeOK' BY DEF CacheInv, CacheTypeOK, Ends, Goes
<1>2. CacheSound' BY DEF CacheInv, CacheSound
<1>3. ASSUME NEW d \in Clients PROVE RequestSafe(d)'
  <2>1. CASE d = c
    <3>1. req'[d] = NoRequest /\ req'[d].pc = "idle" BY <2>1 DEF CacheInv, CacheTypeOK, Ends, Goes, NoRequest
    <3> QED BY <3>1 DEF RequestSafe, Loading
  <2>2. CASE d # c
    <3>1. req'[d] = req[d] BY <2>2 DEF CacheInv, CacheTypeOK, Ends, Goes
    <3> QED BY <3>1 DEF CacheInv, RequestSafe, Loading, Scanned, Through, Text, Overlaid
  <2> QED BY <2>1, <2>2
<1> QED BY <1>1, <1>2, <1>3 DEF CacheInv

\* A step of one helper that leaves the file alone.
LEMMA MoveKeeps ==
    ASSUME CacheInv, NEW c \in Clients, NEW r \in Requests, req' = [req EXCEPT ![c] = r],
           UNCHANGED <<db, tree>>, RequestSafe(c)'
    PROVE  CacheInv'
<1>1. CacheTypeOK' BY DEF CacheInv, CacheTypeOK
<1>2. CacheSound' BY DEF CacheInv, CacheSound
<1>3. ASSUME NEW d \in Clients PROVE RequestSafe(d)'
  <2>1. CASE d = c BY <2>1
  <2>2. CASE d # c
    <3>1. req'[d] = req[d] BY <2>2 DEF CacheInv, CacheTypeOK
    <3> QED BY <3>1 DEF CacheInv, RequestSafe, Loading, Scanned, Through, Text, Overlaid
  <2> QED BY <2>1, <2>2
<1> QED BY <1>1, <1>2, <1>3 DEF CacheInv

LEMMA RequestInv ==
    ASSUME CacheInv, NEW c \in Clients, NEW text \in Overlays, Request(c, text)
    PROVE  CacheInv'
<1> DEFINE r == [pc |-> "scan", matches |-> db.meta = Current,
                 overlay |-> [NoFiles EXCEPT ![1] = text],
                 todo |-> Present, scan |-> NoFiles,
                 answer |-> [f \in Files |-> NoRow],
                 changed |-> {}, invalidated |-> {}, raced |-> FALSE]
<1>1. req' = [req EXCEPT ![c] = r] /\ UNCHANGED <<db, tree>> BY DEF Request, moveVars
<1>2. r \in Requests
  <2>1. [NoFiles EXCEPT ![1] = text] \in Trees BY NoFilesIn DEF Trees
  <2>2. Present \subseteq Files /\ (db.meta = Current) \in BOOLEAN BY DEF Present
  <2>3. [f \in Files |-> NoRow] \in [Files -> Rows] BY RowTypes
  <2> QED BY <2>1, <2>2, <2>3, NoFilesIn DEF Requests
<1>3. r.pc = "scan" /\ r.changed = {} /\ (r.matches => db.meta = Current) OBVIOUS
<1> HIDE DEF r
<1>4. req'[c] = r BY <1>1 DEF CacheInv, CacheTypeOK
<1>5. RequestSafe(c)' BY <1>1, <1>3, <1>4 DEF RequestSafe, Loading
<1> QED BY <1>1, <1>2, <1>5, MoveKeeps

LEMMA ScanReadInv ==
    ASSUME CacheInv, NEW c \in Clients, ScanRead(c)
    PROVE  CacheInv'
<1>0. CacheTypeOK /\ RequestSafe(c) BY DEF CacheInv
<1>1. req[c].pc = "scan" /\ UNCHANGED <<db, tree>> BY DEF ScanRead, ReqAt, moveVars
<1>2. req[c] # NoRequest BY <1>1 DEF NoRequest
<1> DEFINE r == req[c]
           f == First(r.todo)
           scan == [r.scan EXCEPT ![f] = tree["source"][f]]
           found == {g \in Files : scan[g] # Absent}
           rest == r.todo \ {f}
           last1 == [r EXCEPT !.scan = scan, !.pc = "rows", !.todo = found]
           more == [r EXCEPT !.scan = scan, !.todo = rest]
<1>3. Ends(c) \/ Goes(c, last1) \/ Goes(c, more) BY DEF ScanRead
<1>4. scan \in Trees
  <2>1. r.scan \in Trees /\ tree["source"] \in Trees BY <1>0, <1>2, CacheTypes DEF Requests, CacheTypeOK
  <2>2. CASE f \in Files BY <2>1, <2>2 DEF Trees
  <2>3. CASE f \notin Files
    <3>1. scan = r.scan BY <2>1, <2>3 DEF Trees
    <3> QED BY <2>1, <3>1
  <2> QED BY <2>2, <2>3
<1>5. found \subseteq Files /\ rest \subseteq Files BY <1>0, <1>2, CacheTypes DEF Requests
<1>6. found = {g \in Files : scan[g] # Absent} OBVIOUS
<1> HIDE DEF scan, found, rest
<1>7. CASE Ends(c) BY <1>0, <1>1, <1>7, EndsKeep DEF CacheTypeOK
<1>8. r = [pc |-> r.pc, matches |-> r.matches, overlay |-> r.overlay, todo |-> r.todo, scan |-> r.scan,
           answer |-> r.answer, changed |-> r.changed, invalidated |-> r.invalidated, raced |-> r.raced]
  BY <1>0, <1>2, CacheTypes
<1>9. CASE Goes(c, last1)
  <2>1. PICK x : x = last1 OBVIOUS
  <2>2. x = [pc |-> "rows", matches |-> r.matches, overlay |-> r.overlay,
             todo |-> found, scan |-> scan, answer |-> r.answer,
             changed |-> r.changed, invalidated |-> r.invalidated, raced |-> r.raced]
    BY <1>8, <2>1
  <2>3. x \in Requests BY <1>0, <1>2, <1>4, <1>5, <2>2, CacheTypes DEF Requests
  <2>4. req' = [req EXCEPT ![c] = x] BY <1>9, <2>1 DEF Goes
  <2>5. req'[c] = x BY <1>0, <2>4 DEF CacheTypeOK
  <2>6. /\ x.pc = "rows" /\ x.todo = {g \in Files : x.scan[g] # Absent}
        /\ x.changed = {} /\ x.matches = r.matches
    BY <1>0, <1>1, <1>6, <2>2 DEF RequestSafe
  <2>7. RequestSafe(c)' BY <1>0, <1>1, <2>5, <2>6 DEF RequestSafe, Loading, Scanned, Through
  <2> QED BY <1>1, <2>3, <2>4, <2>7, MoveKeeps
<1>10. CASE Goes(c, more)
  <2>1. PICK x : x = more OBVIOUS
  <2>2. x = [pc |-> r.pc, matches |-> r.matches, overlay |-> r.overlay,
             todo |-> rest, scan |-> scan, answer |-> r.answer,
             changed |-> r.changed, invalidated |-> r.invalidated, raced |-> r.raced]
    BY <1>8, <2>1
  <2>3. x \in Requests BY <1>0, <1>2, <1>4, <1>5, <2>2, CacheTypes DEF Requests
  <2>4. req' = [req EXCEPT ![c] = x] BY <1>10, <2>1 DEF Goes
  <2>5. req'[c] = x BY <1>0, <2>4 DEF CacheTypeOK
  <2>6. x.pc = "scan" /\ x.changed = {} /\ x.matches = r.matches
    BY <1>0, <1>1, <2>2 DEF RequestSafe
  <2>7. RequestSafe(c)' BY <1>0, <1>1, <2>5, <2>6 DEF RequestSafe, Loading
  <2> QED BY <1>1, <2>3, <2>4, <2>7, MoveKeeps
<1> QED BY <1>3, <1>7, <1>9, <1>10

\* What a hit finds in the file is what the parser would make of the note.
LEMMA HitSound ==
    ASSUME CacheInv, NEW c \in Clients, NEW f \in Files, Hit(c, f), req[c] # NoRequest
    PROVE  /\ db.rows[f] \in Rows /\ db.rows[f].parts = db.rows[f].doc
           /\ db.rows[f].doc = Parse(Current, Text(c, f)) /\ req[c].matches
<1>1. /\ db.rows[f] # NoRow /\ req[c].matches /\ ~Overlaid(c, f)
      /\ db.rows[f].doc[2] = req[c].scan[f]
  BY DEF Hit
<1>2. db.meta = Current
  <2>1. req[c].pc # "idle" BY CacheTypes DEF CacheInv, Requests
  <2> QED BY <1>1, <2>1 DEF CacheInv, RequestSafe
<1>3. db.rows[f] \in Rows BY DEF CacheInv, CacheTypeOK
<1>4. db.rows[f].doc[1] = Current /\ db.rows[f].parts = db.rows[f].doc
  BY <1>1, <1>2 DEF CacheInv, CacheSound
<1>5. db.rows[f].doc = <<db.rows[f].doc[1], db.rows[f].doc[2]>> BY <1>3 DEF Rows, Docs
<1>6. Text(c, f) = req[c].scan[f] BY <1>1 DEF Text, Overlaid
<1>7. db.rows[f].doc = Parse(Current, Text(c, f)) BY <1>1, <1>4, <1>5, <1>6 DEF Parse
<1> QED BY <1>1, <1>3, <1>4, <1>7

LEMMA LoadRowInv ==
    ASSUME CacheInv, NEW c \in Clients, LoadRow(c)
    PROVE  CacheInv'
<1>0. CacheTypeOK /\ RequestSafe(c) BY DEF CacheInv
<1>1. req[c].pc = "rows" /\ req[c].todo # {} /\ UNCHANGED <<db, tree>> BY DEF LoadRow, ReqAt, moveVars
<1>2. req[c] # NoRequest BY <1>1 DEF NoRequest
<1> DEFINE r == req[c]
           f == First(r.todo)
           parsed == RowOf(Parse(Current, Text(c, f)))
           loaded == [r.answer EXCEPT ![f].doc = db.rows[f].doc]
           rest == r.todo \ {f}
           answer == [r.answer EXCEPT ![f] = parsed]
           changed == IF Overlaid(c, f) THEN r.changed ELSE r.changed \cup {f}
           invalidated == IF Overlaid(c, f) /\ ~r.matches THEN r.invalidated \cup {f} ELSE r.invalidated
           hit == [r EXCEPT !.pc = "parts", !.answer = loaded]
           miss == [r EXCEPT !.todo = rest, !.answer = answer, !.changed = changed, !.invalidated = invalidated]
<1>3. IF Hit(c, f) THEN Goes(c, hit) ELSE Goes(c, miss) BY DEF LoadRow
<1>4. r \in Requests /\
      r = [pc |-> r.pc, matches |-> r.matches, overlay |-> r.overlay, todo |-> r.todo, scan |-> r.scan,
           answer |-> r.answer, changed |-> r.changed, invalidated |-> r.invalidated, raced |-> r.raced]
  BY <1>0, <1>2, CacheTypes
<1>5. /\ r.todo \subseteq Scanned(c) /\ r.changed \subseteq Scanned(c) \ r.todo
      /\ \A g \in r.changed : r.answer[g] = RowOf(Parse(Current, Text(c, g)))
      /\ \A g \in Scanned(c) \ r.todo : Through(c, g)
      /\ r.matches => db.meta = Current
  BY <1>0, <1>1 DEF RequestSafe, Loading
<1>6. f \in r.todo /\ f \in Files /\ f \notin r.changed
  <2>1. r.todo \in SUBSET Nat BY <1>4, NoFilesIn DEF Requests
  <2> QED BY <1>1, <1>4, <1>5, <2>1, FirstIn DEF Requests
<1>7. Text(c, f) \in Nat BY <1>4, <1>6 DEF Text, Requests, Trees
<1>8. r.answer[f] \in Rows /\ r.answer \in [Files -> Rows] BY <1>4, <1>6 DEF Requests
<1>9. CASE Hit(c, f)
  <2>0. /\ db.rows[f] \in Rows /\ db.rows[f].parts = db.rows[f].doc
        /\ db.rows[f].doc = Parse(Current, Text(c, f)) /\ r.matches
    BY <1>2, <1>6, <1>9, HitSound
  <2>1. /\ loaded \in [Files -> Rows] /\ loaded[f].doc = db.rows[f].doc
        /\ \A g \in Files : g # f => loaded[g] = r.answer[g]
    <3>1. loaded = [r.answer EXCEPT ![f] = [doc |-> db.rows[f].doc, parts |-> r.answer[f].parts]]
      BY <1>6, <1>8 DEF Rows
    <3>2. [doc |-> db.rows[f].doc, parts |-> r.answer[f].parts] \in Rows BY <1>8, <2>0 DEF Rows
    <3> QED BY <1>6, <1>8, <3>1, <3>2
  <2> HIDE DEF loaded
  <2>2. PICK x : x = hit OBVIOUS
  <2>3. x = [pc |-> "parts", matches |-> r.matches, overlay |-> r.overlay,
             todo |-> r.todo, scan |-> r.scan, answer |-> loaded,
             changed |-> r.changed, invalidated |-> r.invalidated, raced |-> r.raced]
    BY <1>4, <2>2
  <2>4. x \in Requests BY <1>4, <2>1, <2>3 DEF Requests
  <2>5. req' = [req EXCEPT ![c] = x] BY <1>3, <1>9, <2>2 DEF Goes
  <2>6. req'[c] = x BY <1>0, <2>5 DEF CacheTypeOK
  <2>7. /\ x.pc = "parts" /\ x.matches = r.matches /\ x.overlay = r.overlay /\ x.scan = r.scan
        /\ x.todo = r.todo /\ x.answer = loaded /\ x.changed = r.changed
        /\ x.invalidated = r.invalidated /\ x.raced = r.raced
    BY <2>3
  <2>8. Scanned(c)' = Scanned(c) /\ \A g : Text(c, g)' = Text(c, g) BY <2>6, <2>7 DEF Scanned, Text
  <2>9. ASSUME NEW g \in Scanned(c) \ r.todo PROVE Through(c, g)'
    BY <1>5, <1>6, <2>1, <2>6, <2>7, <2>8 DEF Through, Scanned
  <2>10. \A g \in r.changed : loaded[g] = RowOf(Parse(Current, Text(c, g)))
    BY <1>4, <1>5, <1>6, <2>1 DEF Requests
  <2>11. RequestSafe(c)'
    BY <1>1, <1>5, <2>0, <2>1, <2>6, <2>7, <2>8, <2>9, <2>10 DEF RequestSafe, Loading
  <2> QED BY <1>1, <2>4, <2>5, <2>11, MoveKeeps
<1>10. CASE ~Hit(c, f)
  <2>1. parsed \in Rows /\ parsed.doc = Parse(Current, Text(c, f)) /\ parsed.parts = parsed.doc
    BY <1>7, RowTypes
  <2>2. /\ answer \in [Files -> Rows] /\ answer[f] = parsed
        /\ \A g \in Files : g # f => answer[g] = r.answer[g]
    BY <1>6, <1>8, <2>1
  <2>3. /\ rest \subseteq r.todo /\ f \notin rest /\ \A g \in r.todo : g = f \/ g \in rest
        /\ changed \subseteq Files /\ changed \subseteq r.changed \cup {f} /\ r.changed \subseteq changed
        /\ invalidated \subseteq Files /\ r.invalidated \subseteq invalidated
        /\ ~r.matches => f \in changed \cup invalidated
    BY <1>4, <1>6 DEF Requests
  <2>4. parsed = RowOf(Parse(Current, Text(c, f))) OBVIOUS
  <2> HIDE DEF parsed, answer, rest, changed, invalidated
  <2>5. PICK x : x = miss OBVIOUS
  <2>6. x = [pc |-> r.pc, matches |-> r.matches, overlay |-> r.overlay,
             todo |-> rest, scan |-> r.scan, answer |-> answer,
             changed |-> changed, invalidated |-> invalidated, raced |-> r.raced]
    BY <1>4, <2>5
  <2>7. x \in Requests BY <1>4, <2>2, <2>3, <2>6 DEF Requests
  <2>8. req' = [req EXCEPT ![c] = x] BY <1>3, <1>10, <2>5 DEF Goes
  <2>9. req'[c] = x BY <1>0, <2>8 DEF CacheTypeOK
  <2>10. /\ x.pc = "rows" /\ x.matches = r.matches /\ x.overlay = r.overlay /\ x.scan = r.scan
         /\ x.todo = rest /\ x.answer = answer /\ x.changed = changed
         /\ x.invalidated = invalidated /\ x.raced = r.raced
    BY <1>1, <2>6
  <2>11. Scanned(c)' = Scanned(c) /\ \A g : Text(c, g)' = Text(c, g) BY <2>9, <2>10 DEF Scanned, Text
  <2>12. ASSUME NEW g \in Scanned(c) \ rest PROVE Through(c, g)'
    <3>1. CASE g = f BY <2>1, <2>2, <2>3, <2>9, <2>10, <2>11, <3>1 DEF Through
    <3>2. CASE g # f
      <4>1. g \in Scanned(c) \ r.todo /\ g \in Files BY <2>3, <3>2 DEF Scanned
      <4> QED BY <1>5, <2>2, <2>3, <2>9, <2>10, <2>11, <3>2, <4>1 DEF Through
    <3> QED BY <3>1, <3>2
  <2>13. \A g \in changed : answer[g] = RowOf(Parse(Current, Text(c, g)))
    BY <1>4, <1>5, <1>6, <2>2, <2>3, <2>4 DEF Requests
  <2>14. rest \subseteq Scanned(c) /\ changed \subseteq Scanned(c) \ rest BY <1>5, <1>6, <2>3
  <2>15. RequestSafe(c)'
    BY <1>1, <1>5, <2>9, <2>10, <2>11, <2>12, <2>13, <2>14 DEF RequestSafe, Loading
  <2> QED BY <1>1, <2>7, <2>8, <2>15, MoveKeeps
<1> QED BY <1>3, <1>9, <1>10

LEMMA LoadPartsInv ==
    ASSUME CacheInv, NEW c \in Clients, LoadParts(c)
    PROVE  CacheInv'
<1>0. CacheTypeOK /\ RequestSafe(c) BY DEF CacheInv
<1>1. req[c].pc = "parts" /\ UNCHANGED <<db, tree>> BY DEF LoadParts, ReqAt, moveVars
<1>2. req[c] # NoRequest BY <1>1 DEF NoRequest
<1> DEFINE r == req[c]
           f == First(r.todo)
           rest == r.todo \ {f}
           loaded == [r.answer EXCEPT ![f].parts = db.rows[f].parts]
           through == [r EXCEPT !.pc = "rows", !.todo = rest, !.answer = loaded]
<1>3. Goes(c, through) BY DEF LoadParts
<1>4. r \in Requests /\
      r = [pc |-> r.pc, matches |-> r.matches, overlay |-> r.overlay, todo |-> r.todo, scan |-> r.scan,
           answer |-> r.answer, changed |-> r.changed, invalidated |-> r.invalidated, raced |-> r.raced]
  BY <1>0, <1>2, CacheTypes
<1>5. /\ r.todo \subseteq Scanned(c) /\ r.changed \subseteq Scanned(c) \ r.todo
      /\ \A g \in r.changed : r.answer[g] = RowOf(Parse(Current, Text(c, g)))
      /\ \A g \in Scanned(c) \ r.todo : Through(c, g)
      /\ db.meta = Current /\ r.todo # {} /\ r.matches
      /\ r.answer[f].doc = Parse(Current, Text(c, f))
      /\ r.raced \/ db.rows[f].parts = r.answer[f].doc
  BY <1>0, <1>1 DEF RequestSafe, Loading
<1>6. f \in r.todo /\ f \in Files /\ f \notin r.changed
  <2>1. r.todo \in SUBSET Nat BY <1>4, NoFilesIn DEF Requests
  <2> QED BY <1>4, <1>5, <2>1, FirstIn DEF Requests
<1>7. r.answer[f] \in Rows /\ r.answer \in [Files -> Rows] /\ db.rows[f] \in Rows
  BY <1>0, <1>4, <1>6 DEF Requests, CacheTypeOK
<1>8. /\ loaded \in [Files -> Rows] /\ loaded[f].doc = r.answer[f].doc /\ loaded[f].parts = db.rows[f].parts
      /\ \A g \in Files : g # f => loaded[g] = r.answer[g]
  <2>1. loaded = [r.answer EXCEPT ![f] = [doc |-> r.answer[f].doc, parts |-> db.rows[f].parts]]
    BY <1>6, <1>7 DEF Rows
  <2>2. [doc |-> r.answer[f].doc, parts |-> db.rows[f].parts] \in Rows BY <1>7 DEF Rows
  <2> QED BY <1>6, <1>7, <2>1, <2>2
<1>9. rest \subseteq r.todo /\ f \notin rest /\ \A g \in r.todo : g = f \/ g \in rest OBVIOUS
<1> HIDE DEF loaded, rest
<1>10. PICK x : x = through OBVIOUS
<1>11. x = [pc |-> "rows", matches |-> r.matches, overlay |-> r.overlay,
            todo |-> rest, scan |-> r.scan, answer |-> loaded,
            changed |-> r.changed, invalidated |-> r.invalidated, raced |-> r.raced]
  BY <1>4, <1>10
<1>12. x \in Requests BY <1>4, <1>8, <1>9, <1>11 DEF Requests
<1>13. req' = [req EXCEPT ![c] = x] BY <1>3, <1>10 DEF Goes
<1>14. req'[c] = x BY <1>0, <1>13 DEF CacheTypeOK
<1>15. /\ x.pc = "rows" /\ x.matches = r.matches /\ x.overlay = r.overlay /\ x.scan = r.scan
       /\ x.todo = rest /\ x.answer = loaded /\ x.changed = r.changed
       /\ x.invalidated = r.invalidated /\ x.raced = r.raced
  BY <1>11
<1>16. Scanned(c)' = Scanned(c) /\ \A g : Text(c, g)' = Text(c, g) BY <1>14, <1>15 DEF Scanned, Text
<1>17. ASSUME NEW g \in Scanned(c) \ rest PROVE Through(c, g)'
  <2>1. CASE g = f BY <1>5, <1>8, <1>14, <1>15, <1>16, <2>1 DEF Through
  <2>2. CASE g # f
    <3>1. g \in Scanned(c) \ r.todo /\ g \in Files BY <1>9, <2>2 DEF Scanned
    <3> QED BY <1>5, <1>8, <1>14, <1>15, <1>16, <2>2, <3>1 DEF Through
  <2> QED BY <2>1, <2>2
<1>18. \A g \in r.changed : loaded[g] = RowOf(Parse(Current, Text(c, g)))
  BY <1>4, <1>5, <1>6, <1>8 DEF Requests
<1>19. rest \subseteq Scanned(c) /\ r.changed \subseteq Scanned(c) \ rest BY <1>5, <1>6, <1>9
<1>20. RequestSafe(c)'
  BY <1>1, <1>5, <1>14, <1>15, <1>16, <1>17, <1>18, <1>19 DEF RequestSafe, Loading
<1> QED BY <1>1, <1>12, <1>13, <1>20, MoveKeeps

\* The transaction leaves rows of the current parser only: what was not parsed
\* now was there before, and is not when the parser was another.
LEMMA SaveInv ==
    ASSUME CacheInv, NEW c \in Clients, Save(c)
    PROVE  CacheInv'
<1>0. CacheTypeOK /\ RequestSafe(c) /\ CacheSound BY DEF CacheInv
<1>1. /\ req[c].pc = "rows" /\ req[c].todo = {} /\ UNCHANGED tree
      /\ db' = IF Changes(c) THEN [meta |-> Current, rows |-> SavedRows(c)] ELSE db
      /\ req' = [d \in Clients |-> IF d = c THEN NoRequest
                                   ELSE IF Raced(c, d) THEN [req[d] EXCEPT !.raced = TRUE]
                                   ELSE req[d]]
  BY DEF Save, ReqAt, moveVars
<1>2. req[c] # NoRequest BY <1>1 DEF NoRequest
<1>3. /\ req[c] \in Requests /\ req[c].changed \subseteq Files
      /\ \A f \in req[c].changed : req[c].answer[f] = RowOf(Parse(Current, Text(c, f)))
      /\ \A f \in Scanned(c) : ~req[c].matches => f \in req[c].changed \cup req[c].invalidated
      /\ req[c].matches => db.meta = Current
  BY <1>0, <1>1, <1>2, CacheTypes DEF RequestSafe, Loading, Requests, Through
<1>4. \A f \in Files : Text(c, f) \in Nat BY <1>3 DEF Text, Requests, Trees
<1>5. \A f \in req[c].changed : req[c].answer[f] \in Rows /\ Sound(req[c].answer[f])
  BY <1>3, <1>4, RowTypes DEF Sound
<1>6. db' \in [meta : Nat, rows : [Files -> Rows]] /\ db'.meta = Current
  <2>1. SavedRows(c) \in [Files -> Rows]
    <3>1. \A f \in Files : db.rows[f] \in Rows BY <1>0 DEF CacheTypeOK
    <3> QED BY <1>5, <3>1, RowTypes DEF SavedRows
  <2>2. CASE Changes(c) BY <1>1, <2>1, <2>2 DEF Current
  <2>3. CASE ~Changes(c) BY <1>0, <1>1, <2>3 DEF Changes, CacheTypeOK
  <2> QED BY <2>2, <2>3
<1>7. CacheSound'
  <2>1. CASE ~Changes(c) BY <1>0, <1>1, <2>1 DEF CacheSound
  <2>2. CASE Changes(c)
    <3> SUFFICES ASSUME NEW f \in Files, SavedRows(c)[f] # NoRow PROVE Sound(SavedRows(c)[f])
      BY <1>1, <2>2 DEF CacheSound, Sound
    <3>1. CASE f \in req[c].changed BY <1>5, <3>1 DEF SavedRows
    <3>2. CASE f \notin req[c].changed
      <4>1. /\ SavedRows(c)[f] = db.rows[f] /\ db.rows[f] # NoRow
            /\ f \in Scanned(c) /\ f \notin req[c].invalidated
        BY <3>2 DEF SavedRows
      <4>2. db.meta = Current BY <1>3, <3>2, <4>1
      <4> QED BY <1>0, <4>1, <4>2 DEF CacheSound, Sound
    <3> QED BY <3>1, <3>2
  <2> QED BY <2>1, <2>2
<1>8. ASSUME NEW d \in Clients PROVE /\ req'[d] \in Requests \cup {NoRequest}
                                     /\ RequestSafe(d)'
  <2>1. CASE d = c
    <3>1. req'[d] = NoRequest /\ req'[d].pc = "idle" BY <1>1, <2>1 DEF NoRequest
    <3> QED BY <3>1 DEF RequestSafe, Loading
  <2>2. CASE d # c /\ ~Raced(c, d)
    <3>1. req'[d] = req[d] BY <1>1, <2>2
    <3>2. ~Loading(d) /\ req[d].pc # "parts" BY <2>2 DEF Raced, Loading
    <3>3. req'[d] \in Requests \cup {NoRequest} BY <1>0, <3>1 DEF CacheTypeOK
    <3> QED BY <1>6, <3>1, <3>2, <3>3 DEF CacheInv, RequestSafe, Loading
  <2>3. CASE d # c /\ Raced(c, d)
    <3>1. req[d].pc \in {"rows", "parts"} /\ req[d] # NoRequest BY <2>3 DEF Raced, NoRequest
    <3>2. PICK x : x = [req[d] EXCEPT !.raced = TRUE] OBVIOUS
    <3>0. /\ req[d] \in Requests
          /\ req[d] = [pc |-> req[d].pc, matches |-> req[d].matches, overlay |-> req[d].overlay,
                       todo |-> req[d].todo, scan |-> req[d].scan, answer |-> req[d].answer,
                       changed |-> req[d].changed, invalidated |-> req[d].invalidated,
                       raced |-> req[d].raced]
      BY <1>0, <3>1, CacheTypes
    <3>3. /\ req[d] \in Requests
          /\ x = [pc |-> req[d].pc, matches |-> req[d].matches, overlay |-> req[d].overlay,
                  todo |-> req[d].todo, scan |-> req[d].scan, answer |-> req[d].answer,
                  changed |-> req[d].changed, invalidated |-> req[d].invalidated, raced |-> TRUE]
      BY <3>0, <3>2
    <3>4. x \in Requests BY <3>3 DEF Requests
    <3>5. req'[d] = x BY <1>1, <2>3, <3>2
    <3>6. /\ x.pc = req[d].pc /\ x.matches = req[d].matches /\ x.overlay = req[d].overlay
          /\ x.scan = req[d].scan /\ x.todo = req[d].todo /\ x.answer = req[d].answer
          /\ x.changed = req[d].changed /\ x.invalidated = req[d].invalidated /\ x.raced = TRUE
      BY <3>3
    <3>7. Scanned(d)' = Scanned(d) /\ \A g : Text(d, g)' = Text(d, g) BY <3>5, <3>6 DEF Scanned, Text
    <3>8. \A g : Through(d, g) => Through(d, g)' BY <3>5, <3>6, <3>7 DEF Through
    <3>9. RequestSafe(d) BY DEF CacheInv
    <3>10. RequestSafe(d)' BY <1>6, <3>1, <3>5, <3>6, <3>7, <3>8, <3>9 DEF RequestSafe, Loading
    <3> QED BY <3>4, <3>5, <3>10
  <2> QED BY <2>1, <2>2, <2>3
<1>9. CacheTypeOK'
  <2>1. req' \in [Clients -> Requests \cup {NoRequest}] BY <1>1, <1>8
  <2> QED BY <1>0, <1>1, <1>6, <2>1 DEF CacheTypeOK
<1> QED BY <1>7, <1>8, <1>9 DEF CacheInv

LEMMA Init_CacheInv == Init => CacheInv
<1> SUFFICES ASSUME Init PROVE CacheInv OBVIOUS
<1>1. tree["source"] \in Trees BY Init_MoveInv, MoveTypes DEF Init, MoveInv, Places
<1>2. db.meta # Current /\ db \in [meta : Nat, rows : [Files -> Rows]]
  <2>1. [f \in Files |-> NoRow] \in [Files -> Rows] BY RowTypes
  <2>2. RowOf(Parse(1, 1)) \in Rows BY RowTypes DEF Parse, Docs
  <2>3. [f \in Files |-> RowOf(Parse(1, 1))] \in [Files -> Rows] BY <2>2
  <2>4. CASE db = [meta |-> 0, rows |-> [f \in Files |-> NoRow]] BY <2>1, <2>4 DEF Current
  <2>5. CASE db = [meta |-> 1, rows |-> [f \in Files |-> RowOf(Parse(1, 1))]] BY <2>3, <2>5 DEF Current
  <2> QED BY <2>4, <2>5 DEF Init
<1>3. req = [c \in Clients |-> NoRequest] /\ NoRequest.pc = "idle" BY DEF Init, NoRequest
<1>4. CacheTypeOK BY <1>1, <1>2, <1>3 DEF CacheTypeOK
<1>5. CacheSound BY <1>2 DEF CacheSound
<1>6. \A c \in Clients : RequestSafe(c) BY <1>3 DEF RequestSafe, Loading
<1> QED BY <1>4, <1>5, <1>6 DEF CacheInv

LEMMA Next_CacheInv == MoveInv /\ CacheInv /\ [Next]_vars => CacheInv'
<1> SUFFICES ASSUME MoveInv, CacheInv, [Next]_vars PROVE CacheInv' OBVIOUS
<1>1. tree'["source"] \in Trees BY Next_MoveInv DEF MoveInv, MoveTypeOK, Places
<1>2. CASE UNCHANGED cacheVars
  BY <1>1, <1>2 DEF cacheVars, CacheInv, CacheTypeOK, CacheSound, RequestSafe, Loading, Scanned, Through,
     Text, Overlaid
<1>3. CASE CacheNext
  <2>1. ASSUME NEW c \in Clients, Killed(c) PROVE CacheInv'
    BY <1>1, <2>1, EndsKeep DEF Killed
  <2> QED BY <1>3, <2>1, RequestInv, ScanReadInv, LoadRowInv, LoadPartsInv, SaveInv DEF CacheNext
<1> QED BY <1>2, <1>3 DEF Next, vars

LEMMA CacheSafe == Spec => []CacheInv
BY Init_MoveInv, Next_MoveInv, Init_CacheInv, Next_CacheInv, PTL DEF Spec, Init

\* Every row of a file of the current parser version is what the current parser
\* makes of the hashed contents.
THEOREM RowsSound == Spec => []CacheSound
<1>1. CacheInv => CacheSound BY DEF CacheInv
<1> QED BY <1>1, CacheSafe, PTL

\* An answer describes the text read in the request; links of other contents
\* come only of another helper's save.
THEOREM FreshAnswers == Spec => []AnswersFresh
<1>1. CacheInv => AnswersFresh
  <2> SUFFICES ASSUME CacheInv, NEW c \in Clients, NEW f \in Answered(c)
               PROVE  /\ req[c].answer[f].doc = Parse(Current, Text(c, f))
                      /\ req[c].answer[f].parts = req[c].answer[f].doc \/ req[c].raced
    BY DEF AnswersFresh
  <2>1. req[c].pc = "rows" /\ f \in Scanned(c) \ req[c].todo BY DEF Answered
  <2> QED BY <2>1 DEF CacheInv, RequestSafe, Loading, Through
<1> QED BY <1>1, CacheSafe, PTL
=============================================================================
