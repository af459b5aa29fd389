----------------------------- MODULE AgentProofs -----------------------------
(***************************************************************************)
(* For any number of calls and any command lines: what an exit code of     *)
(* imoogi-agent says happened, an event whose call is over is never begun, *)
(* and the receiver finds well formed what the parser let through.         *)
(***************************************************************************)
EXTENDS AgentEvents, WellFoundedInduction, TLAPS

Events == {NoEvent} \cup UNION {Requests[c] : c \in Calls}
CallRecords == [pc : {"idle", "ready", "written", "waiting", "ended", "done", "left", "killed"},
                event : Events, code : {NoCode, 0, 1, 2, 3}]
ServingAt == {"look", "load", "dispatch", "shown"}
EmacsRecords == [at : {"free", "down"} \cup ServingAt, loaded : BOOLEAN,
                 call : Calls \cup {Nothing}, event : Events]

AgentTypeOK ==
    /\ call \in [Calls -> CallRecords]
    /\ file \in [Calls -> Events]
    /\ queue \in Seq(Calls)
    /\ emacs \in EmacsRecords
    /\ reply = [c \in Calls |-> reply[c]]
    /\ shown \subseteq Calls

(* A request waits once, and nothing has become of it yet; the same holds of the
   one that is served until its event is shown. *)
QueueFresh ==
    /\ \A i \in 1 .. Len(queue) :
          /\ reply[queue[i]] = Nothing /\ queue[i] \notin shown /\ queue[i] # emacs.call
          /\ call[queue[i]].pc \notin {"idle", "ready", "written"} /\ call[queue[i]].code \in {NoCode, 1}
    /\ \A i, j \in 1 .. Len(queue) : queue[i] = queue[j] => i = j
ServedFresh ==
    IF emacs.at \in ServingAt
    THEN /\ emacs.call \in Calls
         /\ reply[emacs.call] = Nothing
         /\ emacs.call \in shown <=> emacs.at = "shown"
         /\ call[emacs.call].pc \notin {"idle", "ready", "written"} /\ call[emacs.call].code \in {NoCode, 1}
    ELSE emacs.call = Nothing

(* What is behind every call: its file, its answer and its code. *)
CallTrue(c) ==
    /\ call[c].pc \in {"idle", "ready", "done"} => file[c] = NoEvent
    /\ call[c].pc \in {"idle", "ready", "written"} => reply[c] = Nothing /\ c \notin shown
    /\ call[c].pc \in {"idle", "ready", "written", "waiting"} => call[c].code = NoCode
    /\ call[c].pc \in {"ended", "done", "left"} => call[c].code # NoCode
    /\ reply[c] = "ok" => c \in shown
    /\ c \in shown => reply[c] \in {"ok", "gone", Nothing}
    /\ call[c].code = 0 => c \in shown /\ reply[c] # Nothing
    /\ call[c].code = 2 => reply[c] = Nothing /\ c \notin shown /\ emacs.call # c
    /\ call[c].code = 3 => reply[c] # Nothing /\ reply[c] # "ok"

AgentInv == AgentTypeOK /\ QueueFresh /\ ServedFresh /\ \A c \in Calls : CallTrue(c)

-----------------------------------------------------------------------------
(* What a scan keeps word by word, it has at the end of the line.  The least
   number of a set of naturals takes the place of an induction. *)
LEMMA NatMin ==
    ASSUME NEW T, T \subseteq Nat, T # {}
    PROVE  \E x \in T : \A y \in T : x <= y
<1> DEFINE R == {p \in Nat \X Nat : p[1] < p[2]}
<1>1. IsWellFoundedOn(R, Nat) BY NatLessThanWellFounded, Zenon DEF OpToRel
<1>2. \E x \in T : \A y \in T : ~ (<<y, x>> \in R) 
  <2> HIDE DEF R
  <2> QED BY <1>1, WFMin, Zenon
<1>3. PICK x \in T : \A y \in T : ~ (<<y, x>> \in R) BY <1>2
<1>4. ASSUME NEW y \in T PROVE x <= y
  <2>1. <<y, x>> \notin R BY <1>3
  <2> QED BY <2>1
<1> QED BY <1>4

LEMMA MaxFacts ==
    ASSUME NEW n \in Nat, NEW s, s \subseteq 1 .. n, s # {}
    PROVE  Max(s) \in s /\ \A y \in s : Max(s) >= y
<1> DEFINE T == {n - x : x \in s}
<1>1. T \subseteq Nat /\ T # {}
  <2>1. \A x \in s : n - x \in Nat OBVIOUS
  <2> QED BY <2>1
<1>2. PICK t \in T : \A y \in T : t <= y
  <2> HIDE DEF T
  <2> QED BY <1>1, NatMin
<1>3. PICK m \in s : t = n - m OBVIOUS
<1>4. \A y \in s : m >= y BY <1>2, <1>3
<1> QED BY <1>4 DEF Max

ScanStep(g, line, s) == IF s = {} THEN Scan0 ELSE ScanWord(g[s \ {Max(s)}], line[Max(s)])
ScansTo(g, line, k) == g = [s \in SUBSET (1 .. k) |-> ScanStep(g, line, s)]

LEMMA FoldExists ==
    ASSUME NEW line, NEW n \in Nat
    PROVE  \E g : ScansTo(g, line, n)
<1> DEFINE T == {k \in 0 .. n : ~ \E g : ScansTo(g, line, k)}
<1>1. \E g : ScansTo(g, line, 0)
  <2> DEFINE g == [s \in SUBSET (1 .. 0) |-> Scan0]
  <2>1. ScansTo(g, line, 0) BY DEF ScansTo, ScanStep
  <2> QED BY <2>1
<1>2. ASSUME NEW k \in Nat, NEW g, ScansTo(g, line, k)
      PROVE  \E h : ScansTo(h, line, k + 1)
  <2> DEFINE V(s) == IF k + 1 \in s THEN ScanWord(g[s \ {k + 1}], line[k + 1]) ELSE g[s]
             h == [s \in SUBSET (1 .. k + 1) |-> V(s)]
  <2>1. ASSUME NEW s \in SUBSET (1 .. k + 1) PROVE V(s) = ScanStep(h, line, s)
    <3>1. CASE k + 1 \in s
      <4>1. Max(s) = k + 1
        <5>1. \A i \in s : i <= k + 1 /\ i \in Int OBVIOUS
        <5>2. k + 1 \in Nat /\ s \subseteq 1 .. k + 1 /\ s # {} BY <3>1
        <5> HIDE DEF h
        <5>3. Max(s) \in s /\ \A y \in s : Max(s) >= y BY <5>2, MaxFacts
        <5>4. PICK m : m = Max(s) OBVIOUS
        <5>5. m \in s /\ m >= k + 1 BY <3>1, <5>3, <5>4
        <5>6. m = k + 1 BY <5>1, <5>5
        <5> QED BY <5>4, <5>6
      <4>2. s \ {k + 1} \in SUBSET (1 .. k + 1) /\ k + 1 \notin s \ {k + 1} OBVIOUS
      <4>3. h[s \ {k + 1}] = g[s \ {k + 1}] BY <4>2
      <4> HIDE DEF h
      <4> QED BY <3>1, <4>1, <4>3 DEF ScanStep
    <3>2. CASE k + 1 \notin s
      <4>1. s \in SUBSET (1 .. k) BY <3>2
      <4>2. g[s] = ScanStep(g, line, s) BY <1>2, <4>1 DEF ScansTo
      <4>3. s # {} => h[s \ {Max(s)}] = g[s \ {Max(s)}]
        <5>1. s \ {Max(s)} \in SUBSET (1 .. k + 1) /\ k + 1 \notin s \ {Max(s)}
          <6>1. k + 1 \notin s \ {Max(s)} BY <3>2
          <6>2. s \ {Max(s)} \subseteq s OBVIOUS
          <6> HIDE DEF V, h
          <6> QED BY <6>1, <6>2
        <5> HIDE DEF V
        <5>2. h[s \ {Max(s)}] = V(s \ {Max(s)}) BY <5>1
        <5>3. V(s \ {Max(s)}) = g[s \ {Max(s)}] BY <5>1 DEF V
        <5> QED BY <5>2, <5>3
      <4> HIDE DEF h
      <4> QED BY <3>2, <4>2, <4>3 DEF ScanStep
    <3> QED BY <3>1, <3>2
  <2>2. h = [s \in SUBSET (1 .. k + 1) |-> ScanStep(h, line, s)]
    <3> HIDE DEF V
    <3> QED BY <2>1, Zenon
  <2> HIDE DEF h
  <2> QED BY <2>2 DEF ScansTo
<1>3. CASE T = {}
  <2> QED BY <1>3
<1>4. CASE T # {}
  <2>1. PICK k \in T : \A y \in T : k <= y
    <3>1. T \subseteq Nat OBVIOUS
    <3> HIDE DEF T
    <3> QED BY <1>4, <3>1, NatMin
  <2>2. k # 0 /\ k \in 0 .. n BY <1>1
  <2>3. k - 1 \in 0 .. n /\ k - 1 \notin T BY <2>1, <2>2
  <2>4. PICK g : ScansTo(g, line, k - 1) BY <2>3
  <2>5. \E h : ScansTo(h, line, (k - 1) + 1) BY <1>2, <2>2, <2>4
  <2>6. (k - 1) + 1 = k BY <2>2
  <2> QED BY <2>1, <2>5, <2>6
<1> QED BY <1>3, <1>4

LEMMA FoldKeeps ==
    ASSUME NEW W, NEW line \in Seq(W), NEW Good,
           Scan0 \in Good, \A g \in Good, w \in W : ScanWord(g, w) \in Good
    PROVE  FoldLeft(ScanWord, Scan0, line) \in Good
<1> DEFINE n == Len(line)
           I == CHOOSE g : g = [s \in SUBSET DOMAIN line |->
                        IF s = {} THEN Scan0 ELSE ScanWord(g[s \ {Max(s)}], line[Max(s)])]
           T == {k \in 0 .. n : \E s \in SUBSET (1 .. k) : I[s] \notin Good}
<1>0. n \in Nat /\ DOMAIN line = 1 .. n /\ \A i \in 1 .. n : line[i] \in W OBVIOUS
<1>1. FoldLeft(ScanWord, Scan0, line) = I[1 .. n]
  <2>1. FoldLeft(ScanWord, Scan0, line) = I[DOMAIN line] BY DEF FoldLeft, MapThenFoldSet
  <2> HIDE DEF I
  <2> QED BY <1>0, <2>1
<1>2. ScansTo(I, line, n)
  <2>1. I = CHOOSE g : ScansTo(g, line, n) BY <1>0 DEF ScansTo, ScanStep
  <2> HIDE DEF I, n
  <2> QED BY <1>0, <2>1, FoldExists
<1>3. \A s \in SUBSET (1 .. n) : I[s] = ScanStep(I, line, s)
  <2> HIDE DEF I, n
  <2> QED BY <1>2 DEF ScansTo
<1> HIDE DEF I, n
<1>4. T = {}
  <2> SUFFICES ASSUME T # {} PROVE FALSE OBVIOUS
  <2>1. PICK k \in T : \A y \in T : k <= y
    <3>1. T \subseteq Nat OBVIOUS
    <3> HIDE DEF T
    <3> QED BY <3>1, NatMin
  <2>2. PICK s \in SUBSET (1 .. k) : I[s] \notin Good OBVIOUS
  <2>3. k \in 0 .. n /\ s \subseteq 1 .. n BY <1>0
  <2>4. s # {} BY <1>3, <2>2, <2>3 DEF ScanStep
  <2>5. Max(s) \in s /\ \A y \in s : Max(s) >= y BY <1>0, <2>3, <2>4, MaxFacts
  <2>6. k - 1 \in 0 .. n /\ s \ {Max(s)} \in SUBSET (1 .. k - 1)
    <3>0. k \in Nat /\ k <= n /\ s \subseteq 1 .. k BY <2>2, <2>3, <1>0
    <3>1. PICK m : m = Max(s) OBVIOUS
    <3>2. m \in s /\ \A y \in s : m >= y BY <2>5, <3>1
    <3>3. m \in 1 .. k BY <3>0, <3>2
    <3>4. k - 1 \in 0 .. n BY <1>0, <3>0, <3>3
    <3>5. ASSUME NEW i \in s \ {m} PROVE i \in 1 .. k - 1
      <4>1. i \in 1 .. k /\ i # m /\ m >= i BY <3>0, <3>2
      <4> QED BY <3>0, <3>3, <4>1
    <3>6. s \ {m} \subseteq 1 .. k - 1 BY <3>5
    <3> QED BY <3>1, <3>4, <3>6
  <2>7. I[s \ {Max(s)}] \in Good
    <3>1. k - 1 \notin T
      <4>1. k \in Nat /\ ~(k <= k - 1) BY <2>3, <1>0
      <4> HIDE DEF T
      <4> QED BY <2>1, <4>1
    <3> QED BY <2>6, <3>1
  <2>8. I[s] = ScanWord(I[s \ {Max(s)}], line[Max(s)]) BY <1>3, <2>3, <2>4 DEF ScanStep
  <2>9. line[Max(s)] \in W BY <1>0, <2>3, <2>5
  <2> QED BY <2>2, <2>7, <2>8, <2>9
<1>5. n \in 0 .. n /\ n \notin T BY <1>0, <1>4
<1> QED BY <1>1, <1>5
-----------------------------------------------------------------------------
USE CallsAssumption DEF Nothing, NoCode
-----------------------------------------------------------------------------
(* One call changes its record. *)
LEMMA CallFacts ==
    ASSUME AgentTypeOK, NEW c \in Calls
    PROVE  /\ call[c] = [pc |-> call[c].pc, event |-> call[c].event, code |-> call[c].code]
           /\ call[c] \in CallRecords
           /\ \A rec \in CallRecords : [call EXCEPT ![c] = rec] \in [Calls -> CallRecords]
           /\ \A pc, code : Ended(c, code) => call' = [call EXCEPT ![c] = [pc |-> "ended", event |-> call[c].event, code |-> code]]
           /\ \A pc : call' = [call EXCEPT ![c].pc = pc]
                        => call' = [call EXCEPT ![c] = [pc |-> pc, event |-> call[c].event, code |-> call[c].code]]
           /\ \A pc : call' = [call EXCEPT ![c].pc = pc, ![c].event = NoEvent]
                        => call' = [call EXCEPT ![c] = [pc |-> pc, event |-> NoEvent, code |-> call[c].code]]
BY DEF AgentTypeOK, CallRecords, Ended

LEMMA Init_AgentInv == Init => AgentInv
<1> SUFFICES ASSUME Init PROVE AgentInv OBVIOUS
<1>1. NoEvent \in Events BY DEF Events
<1>0. /\ emacs.at \in {"free", "down"} /\ emacs.call = Nothing /\ emacs.event = NoEvent
      /\ emacs.loaded \in BOOLEAN
      /\ emacs = [at |-> emacs.at, loaded |-> emacs.loaded, call |-> emacs.call, event |-> emacs.event]
  BY DEF Init
<1>2. AgentTypeOK
  <2>1. [pc |-> "idle", event |-> NoEvent, code |-> NoCode] \in CallRecords BY <1>1 DEF CallRecords
  <2>2. emacs \in EmacsRecords BY <1>0, <1>1 DEF EmacsRecords
  <2> QED BY <1>1, <2>1, <2>2 DEF Init, AgentTypeOK
<1>3. QueueFresh BY DEF Init, QueueFresh
<1>4. ServedFresh BY <1>0 DEF ServedFresh, ServingAt
<1>5. \A c \in Calls : CallTrue(c) BY <1>0 DEF Init, CallTrue
<1> QED BY <1>2, <1>3, <1>4, <1>5 DEF AgentInv
-----------------------------------------------------------------------------
(* A step of one process: a new record for its call, and perhaps a new file. *)
LEMMA ProcessKeeps ==
    ASSUME AgentInv, NEW c \in Calls, NEW rec \in CallRecords,
           call' = [call EXCEPT ![c] = rec],
           file' \in [Calls -> Events], \A d \in Calls \ {c} : file'[d] = file[d],
           UNCHANGED <<queue, emacs, reply, shown>>,
           rec.pc \in {"idle", "ready", "done"} => file'[c] = NoEvent,
           rec.pc \in {"idle", "ready", "written"} => call[c].pc \in {"idle", "ready", "written"},
           rec.pc \in {"idle", "ready", "written", "waiting"} => rec.code = NoCode,
           rec.pc \in {"ended", "done", "left"} => rec.code # NoCode,
           \/ rec.code = call[c].code
           \/ rec.code \in {NoCode, 1}
           \/ rec.code = 0 /\ reply[c] = "ok"
           \/ rec.code = 2 /\ call[c].pc = "idle"
           \/ rec.code = 3 /\ reply[c] # Nothing /\ reply[c] # "ok"
    PROVE  AgentInv'
<1>0. CallTrue(c) /\ AgentTypeOK /\ QueueFresh /\ ServedFresh BY DEF AgentInv
<1>1. call'[c] = rec /\ \A d \in Calls \ {c} : call'[d] = call[d] BY <1>0 DEF AgentTypeOK
<1>2. AgentTypeOK' BY <1>0 DEF AgentTypeOK
<1>3. \/ rec.code \in {NoCode, 1} \/ rec.code = call[c].code
      \/ reply[c] # Nothing \/ call[c].pc = "idle"
  OBVIOUS
<1>4. QueueFresh'
  <2> SUFFICES ASSUME NEW i \in 1 .. Len(queue)
               PROVE  /\ call'[queue[i]].pc \notin {"idle", "ready", "written"}
                      /\ call'[queue[i]].code \in {NoCode, 1}
    BY <1>0 DEF QueueFresh
  <2>1. queue[i] \in Calls BY <1>0 DEF AgentTypeOK
  <2>2. /\ reply[queue[i]] = Nothing
        /\ call[queue[i]].pc \notin {"idle", "ready", "written"} /\ call[queue[i]].code \in {NoCode, 1}
    BY <1>0 DEF QueueFresh
  <2>3. CASE queue[i] = c BY <1>1, <1>3, <2>2, <2>3
  <2>4. CASE queue[i] # c BY <1>1, <2>1, <2>2, <2>4
  <2> QED BY <2>3, <2>4
<1>5. ServedFresh'
  <2>1. CASE emacs.at \notin ServingAt BY <1>0, <2>1 DEF ServedFresh
  <2>2. CASE emacs.at \in ServingAt /\ emacs.call = c BY <1>0, <1>1, <1>3, <2>2 DEF ServedFresh
  <2>3. CASE emacs.at \in ServingAt /\ emacs.call # c BY <1>0, <1>1, <2>3 DEF ServedFresh
  <2> QED BY <2>1, <2>2, <2>3
<1>6. ASSUME NEW d \in Calls PROVE CallTrue(d)'
  <2>1. CASE d # c BY <1>1, <2>1 DEF AgentInv, CallTrue
  <2>2. CASE d = c
    <3>1. rec.code = 2 => reply[c] = Nothing /\ c \notin shown /\ emacs.call # c
      BY <1>0, CallsAssumption DEF CallTrue, ServedFresh
    <3>2. rec.code = 0 => c \in shown /\ reply[c] # Nothing BY <1>0 DEF CallTrue
    <3>3. rec.code = 3 => reply[c] # Nothing /\ reply[c] # "ok" BY <1>0 DEF CallTrue
    <3> QED BY <1>0, <1>1, <2>2, <3>1, <3>2, <3>3 DEF CallTrue
  <2> QED BY <2>1, <2>2
<1> QED BY <1>2, <1>4, <1>5, <1>6 DEF AgentInv

LEMMA ProcessInv ==
    ASSUME AgentInv, NEW c \in Calls, Start(c) \/ Process(c) \/ Kill(c)
    PROVE  AgentInv'
<1>0. CallTrue(c) /\ AgentTypeOK /\ QueueFresh /\ ServedFresh BY DEF AgentInv
<1>a. NoCode \notin {0, 1, 2, 3} BY DEF NoCode
<1>1. /\ call[c].pc \in {"idle", "ready", "written", "waiting", "ended", "done", "left", "killed"}
      /\ call[c].event \in Events /\ call[c].code \in {NoCode, 0, 1, 2, 3}
  BY <1>0, CallFacts DEF CallRecords
<1>2. \A d : file \in [Calls -> Events] /\ (d \in Calls => file[d] \in Events) BY <1>0 DEF AgentTypeOK
<1>3. NoEvent \in Events BY DEF Events
<1>4. CASE Start(c)
  <2>1. PICK r \in Requests[c] :
          call' = [call EXCEPT ![c] =
              IF Failed(r)
              THEN [pc |-> "done", event |-> NoEvent, code |-> IF r.type = "usage" THEN 2 ELSE 1]
              ELSE [pc |-> "ready", event |-> r, code |-> NoCode]]
    BY <1>4 DEF Start
  <2>2. r \in Events BY DEF Events
  <2> DEFINE rec == IF Failed(r)
                    THEN [pc |-> "done", event |-> NoEvent, code |-> IF r.type = "usage" THEN 2 ELSE 1]
                    ELSE [pc |-> "ready", event |-> r, code |-> NoCode]
  <2>3. /\ rec \in CallRecords /\ rec.pc \in {"done", "ready"}
        /\ rec.code \in {NoCode, 1, 2} /\ (rec.pc = "ready" <=> rec.code = NoCode)
    <3>1. CASE Failed(r) BY <1>3, <1>a, <3>1 DEF CallRecords
    <3>2. CASE ~Failed(r) BY <2>2, <3>2 DEF CallRecords
    <3> QED BY <3>1, <3>2
  <2>4. call' = [call EXCEPT ![c] = rec] BY <2>1
  <2>5. call[c].pc = "idle" /\ UNCHANGED <<file, queue, emacs, reply, shown>> BY <1>4 DEF Start
  <2>6. file'[c] = NoEvent BY <1>0, <2>5 DEF CallTrue
  <2> HIDE DEF rec
  <2> QED BY <1>2, <2>3, <2>4, <2>5, <2>6, <1>a, ProcessKeeps
<1>5. CASE WriteEventFile(c)
  <2>0. call[c].pc = "ready" /\ UNCHANGED <<queue, emacs, reply, shown>> BY <1>5 DEF WriteEventFile
  <2>1. CASE file' = [file EXCEPT ![c] = call[c].event] /\ call' = [call EXCEPT ![c].pc = "written"]
    <3> DEFINE rec == [pc |-> "written", event |-> call[c].event, code |-> call[c].code]
    <3>1. call' = [call EXCEPT ![c] = rec] BY <1>0, <2>1, CallFacts
    <3>2. /\ rec \in CallRecords /\ rec.pc = "written" /\ rec.code = call[c].code
          /\ rec.code = NoCode
      BY <1>0, <1>1, <2>0 DEF CallRecords, CallTrue
    <3>3. file' \in [Calls -> Events] /\ \A d \in Calls \ {c} : file'[d] = file[d]
      BY <1>1, <1>2, <2>1
    <3> HIDE DEF rec
    <3> QED BY <2>0, <3>1, <3>2, <3>3, <1>a, ProcessKeeps
  <2>2. CASE Ended(c, 1) /\ UNCHANGED file
    <3> DEFINE rec == [pc |-> "ended", event |-> call[c].event, code |-> 1]
    <3>1. call' = [call EXCEPT ![c] = rec] BY <1>0, <2>2, CallFacts
    <3>2. rec \in CallRecords /\ rec.pc = "ended" /\ rec.code = 1 BY <1>1 DEF CallRecords
    <3> HIDE DEF rec
    <3> QED BY <1>2, <2>0, <2>2, <3>1, <3>2, <1>a, ProcessKeeps
  <2> QED BY <1>5, <2>1, <2>2 DEF WriteEventFile
<1>6. CASE Expire(c)
  <2> DEFINE rec == [pc |-> "ended", event |-> call[c].event, code |-> 1]
  <2>1. Ended(c, 1) /\ UNCHANGED <<file, queue, emacs, reply, shown>> BY <1>6 DEF Expire
  <2>2. call' = [call EXCEPT ![c] = rec] BY <1>0, <2>1, CallFacts
  <2>3. rec \in CallRecords /\ rec.pc = "ended" /\ rec.code = 1 BY <1>1 DEF CallRecords
  <2> HIDE DEF rec
  <2> QED BY <1>2, <2>1, <2>2, <2>3, <1>a, ProcessKeeps
<1>7. CASE Classify(c)
  <2>1. PICK code \in Codes(reply[c]) : Ended(c, code) BY <1>7 DEF Classify
  <2>2. reply[c] # Nothing /\ UNCHANGED <<file, queue, emacs, reply, shown>> BY <1>7 DEF Classify
  <2> DEFINE rec == [pc |-> "ended", event |-> call[c].event, code |-> code]
  <2>3. code \in {0, 1, 3} /\ (code = 0 => reply[c] = "ok") /\ (code = 3 => reply[c] # "ok")
    <3>1. CASE reply[c] = "ok" BY <3>1 DEF Codes
    <3>2. CASE reply[c] = "gone" BY <3>2 DEF Codes
    <3>3. CASE reply[c] \notin {"ok", "gone"} BY <3>3 DEF Codes
    <3> QED BY <3>1, <3>2, <3>3
  <2>4. call' = [call EXCEPT ![c] = rec] BY <1>0, <2>1, CallFacts
  <2>5. rec \in CallRecords /\ rec.pc = "ended" /\ rec.code = code BY <1>1, <2>3 DEF CallRecords
  <2> HIDE DEF rec
  <2> QED BY <1>2, <2>2, <2>3, <2>4, <2>5, <1>a, ProcessKeeps
<1>8. CASE Finish(c)
  <2>1. call[c].pc = "ended" /\ call[c].code # NoCode /\ UNCHANGED <<queue, emacs, reply, shown>>
    BY <1>0, <1>8 DEF Finish, CallTrue
  <2>2. CASE call' = [call EXCEPT ![c].pc = "done", ![c].event = NoEvent] /\ file' = [file EXCEPT ![c] = NoEvent]
    <3> DEFINE rec == [pc |-> "done", event |-> NoEvent, code |-> call[c].code]
    <3>1. call' = [call EXCEPT ![c] = rec] BY <1>0, <2>2, CallFacts
    <3>2. rec \in CallRecords /\ rec.pc = "done" /\ rec.code = call[c].code BY <1>1, <1>3 DEF CallRecords
    <3>3. file' \in [Calls -> Events] /\ file'[c] = NoEvent /\ \A d \in Calls \ {c} : file'[d] = file[d]
      BY <1>2, <1>3, <2>2
    <3> HIDE DEF rec
    <3> QED BY <2>1, <3>1, <3>2, <3>3, <1>a, ProcessKeeps
  <2>3. CASE call' = [call EXCEPT ![c].pc = "left", ![c].event = NoEvent] /\ UNCHANGED file
    <3> DEFINE rec == [pc |-> "left", event |-> NoEvent, code |-> call[c].code]
    <3>1. call' = [call EXCEPT ![c] = rec] BY <1>0, <2>3, CallFacts
    <3>2. rec \in CallRecords /\ rec.pc = "left" /\ rec.code = call[c].code BY <1>1, <1>3 DEF CallRecords
    <3> HIDE DEF rec
    <3> QED BY <1>2, <2>1, <2>3, <3>1, <3>2, <1>a, ProcessKeeps
  <2> QED BY <1>8, <2>2, <2>3 DEF Finish
<1>9. CASE Kill(c)
  <2> DEFINE rec == [pc |-> "killed", event |-> call[c].event, code |-> call[c].code]
  <2>1. call' = [call EXCEPT ![c].pc = "killed"] /\ UNCHANGED <<file, queue, emacs, reply, shown>>
    BY <1>9 DEF Kill
  <2>2. call' = [call EXCEPT ![c] = rec] BY <1>0, <2>1, CallFacts
  <2>3. rec \in CallRecords /\ rec.pc = "killed" /\ rec.code = call[c].code BY <1>1 DEF CallRecords
  <2> HIDE DEF rec
  <2> QED BY <1>2, <2>1, <2>2, <2>3, <1>a, ProcessKeeps
<1>10. CASE Connect(c)
  <2>0. call[c].pc = "written" /\ UNCHANGED <<file, emacs, reply, shown>> BY <1>10 DEF Connect
  <2>1. CASE Ended(c, 1) /\ UNCHANGED queue
    <3> DEFINE rec == [pc |-> "ended", event |-> call[c].event, code |-> 1]
    <3>1. call' = [call EXCEPT ![c] = rec] BY <1>0, <2>1, CallFacts
    <3>2. rec \in CallRecords /\ rec.pc = "ended" /\ rec.code = 1 BY <1>1 DEF CallRecords
    <3> HIDE DEF rec
    <3> QED BY <1>2, <2>0, <2>1, <3>1, <3>2, <1>a, ProcessKeeps
  <2>2. CASE call' = [call EXCEPT ![c].pc = "waiting"] /\ queue' = Append(queue, c)
    <3> DEFINE rec == [pc |-> "waiting", event |-> call[c].event, code |-> call[c].code]
    <3>1. call' = [call EXCEPT ![c] = rec] BY <1>0, <2>2, CallFacts
    <3>2. rec \in CallRecords /\ rec.pc = "waiting" /\ rec.code = NoCode
      BY <1>0, <1>1, <2>0 DEF CallRecords, CallTrue
    <3> HIDE DEF rec
    <3>3. call'[c] = rec /\ \A d \in Calls \ {c} : call'[d] = call[d] BY <1>0, <3>1 DEF AgentTypeOK
    <3>4. AgentTypeOK' BY <1>0, <2>0, <2>2, <3>1, <3>2 DEF AgentTypeOK
    <3>5. c # emacs.call /\ reply[c] = Nothing /\ c \notin shown
      BY <1>0, <2>0, CallsAssumption DEF ServedFresh, CallTrue
    <3>6. /\ \A i \in 1 .. Len(queue) : queue[i] \in Calls /\ queue[i] # c
          /\ Len(queue) \in Nat /\ Len(queue') = Len(queue) + 1
          /\ \A i \in 1 .. Len(queue) : queue'[i] = queue[i]
          /\ queue'[Len(queue) + 1] = c
      BY <1>0, <2>0, <2>2 DEF AgentTypeOK, QueueFresh
    <3>7. QueueFresh'
      <4>1. ASSUME NEW i \in 1 .. Len(queue')
            PROVE  /\ reply'[queue'[i]] = Nothing /\ queue'[i] \notin shown' /\ queue'[i] # emacs'.call
                   /\ call'[queue'[i]].pc \notin {"idle", "ready", "written"}
                   /\ call'[queue'[i]].code \in {NoCode, 1}
        <5>1. CASE i = Len(queue) + 1 BY <2>0, <3>2, <3>3, <3>5, <3>6, <5>1
        <5>2. CASE i \in 1 .. Len(queue) BY <1>0, <2>0, <3>3, <3>6, <5>2 DEF QueueFresh
        <5> QED BY <3>6, <5>1, <5>2
      <4>2. ASSUME NEW i \in 1 .. Len(queue'), NEW j \in 1 .. Len(queue'), queue'[i] = queue'[j]
            PROVE  i = j
        BY <1>0, <3>6, <4>2 DEF QueueFresh
      <4> QED BY <4>1, <4>2 DEF QueueFresh
    <3>8. ServedFresh'
      <4>1. emacs.at \in ServingAt => emacs.call \in Calls \ {c} BY <1>0, <3>5 DEF ServedFresh
      <4> QED BY <1>0, <2>0, <3>3, <4>1 DEF ServedFresh
    <3>9. ASSUME NEW d \in Calls PROVE CallTrue(d)'
      <4>1. CASE d # c BY <2>0, <3>3, <4>1 DEF AgentInv, CallTrue
      <4>2. CASE d = c BY <1>0, <2>0, <3>2, <3>3, <3>5, <4>2 DEF CallTrue
      <4> QED BY <4>1, <4>2
    <3> QED BY <3>4, <3>7, <3>8, <3>9 DEF AgentInv
  <2> QED BY <1>10, <2>1, <2>2 DEF Connect
<1> QED BY <1>4, <1>5, <1>6, <1>7, <1>8, <1>9, <1>10 DEF Process
-----------------------------------------------------------------------------
(* The server answers the request it works on. *)
LEMMA AnswerKeeps ==
    ASSUME AgentInv, emacs.at \in ServingAt, NEW word, Answer(word),
           word # Nothing, word = "ok" <=> emacs.call \in shown,
           UNCHANGED <<call, file, queue, shown>>
    PROVE  AgentInv'
<1>0. AgentTypeOK /\ QueueFresh /\ ServedFresh /\ \A c \in Calls : CallTrue(c) BY DEF AgentInv
<1>1. /\ emacs.call \in Calls /\ reply[emacs.call] = Nothing
      /\ call[emacs.call].pc \notin {"idle", "ready", "written"}
      /\ call[emacs.call].code \in {NoCode, 1}
  BY <1>0 DEF ServedFresh
<1>2. /\ emacs' = [at |-> "free", loaded |-> emacs.loaded, call |-> Nothing, event |-> NoEvent]
      /\ emacs.loaded \in BOOLEAN
  BY <1>0 DEF AgentTypeOK, EmacsRecords, Answer
<1>3. reply'[emacs.call] = word /\ \A c \in Calls \ {emacs.call} : reply'[c] = reply[c]
  BY <1>0, <1>1 DEF AgentTypeOK, Answer
<1>4. AgentTypeOK'
  <2>1. emacs' \in EmacsRecords BY <1>2 DEF EmacsRecords, Events
  <2>2. reply' = [c \in Calls |-> reply'[c]] BY <1>0 DEF AgentTypeOK, Answer
  <2> QED BY <1>0, <2>1, <2>2 DEF AgentTypeOK
<1>5. QueueFresh'
  <2> SUFFICES ASSUME NEW i \in 1 .. Len(queue)
               PROVE  reply'[queue[i]] = Nothing /\ queue[i] # Nothing
    BY <1>0, <1>2 DEF QueueFresh
  <2>1. queue[i] \in Calls BY <1>0 DEF AgentTypeOK
  <2> QED BY <1>0, <1>3, <2>1, CallsAssumption DEF QueueFresh
<1>6. ServedFresh' BY <1>2 DEF ServedFresh, ServingAt
<1>7. ASSUME NEW c \in Calls PROVE CallTrue(c)'
  <2>1. CASE c # emacs.call BY <1>0, <1>2, <1>3, <2>1, CallsAssumption DEF CallTrue
  <2>2. CASE c = emacs.call BY <1>0, <1>1, <1>3, <2>2 DEF CallTrue
  <2> QED BY <2>1, <2>2
<1> QED BY <1>4, <1>5, <1>6, <1>7 DEF AgentInv

(* It goes one step further with it. *)
LEMMA ServeKeeps ==
    ASSUME AgentInv, emacs.at \in ServingAt,
           NEW at \in ServingAt, NEW event \in Events,
           emacs' = [at |-> at, loaded |-> emacs.loaded, call |-> emacs.call, event |-> event],
           UNCHANGED <<call, file, queue, reply>>,
           at = "shown" => shown' = shown \cup {emacs.call},
           at # "shown" => UNCHANGED shown /\ emacs.at # "shown"
    PROVE  AgentInv'
<1>0. AgentTypeOK /\ QueueFresh /\ ServedFresh /\ \A c \in Calls : CallTrue(c) BY DEF AgentInv
<1>1. /\ emacs.call \in Calls /\ reply[emacs.call] = Nothing
      /\ call[emacs.call].pc \notin {"idle", "ready", "written"}
      /\ call[emacs.call].code \in {NoCode, 1}
      /\ emacs.call \in shown <=> emacs.at = "shown"
  BY <1>0 DEF ServedFresh
<1>2. shown' \subseteq Calls /\ \A c \in Calls \ {emacs.call} : c \in shown' <=> c \in shown
  BY <1>0, <1>1 DEF AgentTypeOK
<1>3. emacs.call \in shown' <=> at = "shown" BY <1>1
<1>4. AgentTypeOK'
  <2>1. emacs' \in EmacsRecords BY <1>0, <1>1 DEF EmacsRecords, AgentTypeOK
  <2> QED BY <1>0, <1>2, <2>1 DEF AgentTypeOK
<1>5. QueueFresh'
  <2> SUFFICES ASSUME NEW i \in 1 .. Len(queue)
               PROVE  queue[i] \notin shown' /\ queue[i] # emacs.call
    BY <1>0 DEF QueueFresh
  <2>1. queue[i] \in Calls BY <1>0 DEF AgentTypeOK
  <2> QED BY <1>0, <1>2, <2>1 DEF QueueFresh
<1>6. ServedFresh' BY <1>1, <1>3 DEF ServedFresh
<1>7. ASSUME NEW c \in Calls PROVE CallTrue(c)'
  <2>1. CASE c # emacs.call BY <1>0, <1>2, <2>1 DEF CallTrue
  <2>2. CASE c = emacs.call BY <1>0, <1>1, <1>3, <2>2 DEF CallTrue
  <2> QED BY <2>1, <2>2
<1> QED BY <1>4, <1>5, <1>6, <1>7 DEF AgentInv

LEMMA TakeInv == AgentInv /\ Take => AgentInv'
<1> SUFFICES ASSUME AgentInv, Take PROVE AgentInv' OBVIOUS
<1>0. AgentTypeOK /\ QueueFresh /\ ServedFresh /\ \A c \in Calls : CallTrue(c) BY DEF AgentInv
<1>1. /\ emacs.at = "free" /\ emacs.call = Nothing /\ queue # <<>> /\ queue' = Tail(queue)
      /\ UNCHANGED <<call, file, shown>>
  BY <1>0 DEF Take, ServedFresh, ServingAt
<1>2. /\ Head(queue) = queue[1] /\ queue[1] \in Calls /\ queue' \in Seq(Calls)
      /\ Len(queue) \in Nat \ {0} /\ Len(queue') = Len(queue) - 1
      /\ \A i \in 1 .. Len(queue') : queue'[i] = queue[i + 1] /\ i + 1 \in 2 .. Len(queue)
      /\ \A i \in 1 .. Len(queue) : queue[i] \in Calls
  BY <1>0, <1>1 DEF AgentTypeOK
<1> DEFINE first == queue[1]
<1>3. /\ reply[first] = Nothing /\ first \notin shown
      /\ call[first].pc \notin {"idle", "ready", "written"} /\ call[first].code \in {NoCode, 1}
  BY <1>0, <1>2 DEF QueueFresh
<1>4. \A i \in 1 .. Len(queue') : queue'[i] # first BY <1>0, <1>2 DEF QueueFresh
<1>5. emacs.loaded \in BOOLEAN /\ emacs.event \in Events
      /\ emacs = [at |-> emacs.at, loaded |-> emacs.loaded, call |-> emacs.call, event |-> emacs.event]
  BY <1>0 DEF AgentTypeOK, EmacsRecords
<1> HIDE DEF first
<1>6. CASE emacs' = [emacs EXCEPT !.at = "look", !.call = Head(queue)] /\ UNCHANGED reply
  <2>1. emacs' = [at |-> "look", loaded |-> emacs.loaded, call |-> first, event |-> emacs.event]
    BY <1>2, <1>5, <1>6 DEF first
  <2>2. emacs' \in EmacsRecords /\ first \in Calls BY <1>2, <1>5, <2>1 DEF EmacsRecords, ServingAt, first
  <2>3. AgentTypeOK' BY <1>0, <1>1, <1>2, <1>6, <2>2 DEF AgentTypeOK
  <2>4. QueueFresh'
    <3>1. ASSUME NEW i \in 1 .. Len(queue')
          PROVE  /\ reply'[queue'[i]] = Nothing /\ queue'[i] \notin shown' /\ queue'[i] # emacs'.call
                 /\ call'[queue'[i]].pc \notin {"idle", "ready", "written"}
                 /\ call'[queue'[i]].code \in {NoCode, 1}
      BY <1>0, <1>1, <1>2, <1>4, <1>6, <2>1 DEF QueueFresh
    <3>2. ASSUME NEW i \in 1 .. Len(queue'), NEW j \in 1 .. Len(queue'), queue'[i] = queue'[j]
          PROVE  i = j
      BY <1>0, <1>2, <3>2 DEF QueueFresh
    <3> QED BY <3>1, <3>2 DEF QueueFresh
  <2>0. emacs'.at = "look" /\ emacs'.call = first BY <2>1
  <2>5. ServedFresh' BY <1>1, <1>3, <1>6, <2>0, <2>2 DEF ServedFresh, ServingAt
  <2>6. ASSUME NEW c \in Calls PROVE CallTrue(c)'
    <3>1. CASE c = first BY <1>0, <1>1, <1>3, <1>6, <2>0, <3>1 DEF CallTrue
    <3>2. CASE c # first BY <1>0, <1>1, <1>6, <2>0, <3>2 DEF CallTrue
    <3> QED BY <3>1, <3>2
  <2> QED BY <2>3, <2>4, <2>5, <2>6 DEF AgentInv
<1>7. CASE reply' = [reply EXCEPT ![Head(queue)] = "not-loaded"] /\ UNCHANGED emacs
  <2>1. reply'[first] = "not-loaded" /\ \A c \in Calls \ {first} : reply'[c] = reply[c]
    BY <1>0, <1>2, <1>7 DEF AgentTypeOK, first
  <2>2. reply' = [c \in Calls |-> reply'[c]] BY <1>0, <1>7 DEF AgentTypeOK
  <2>3. AgentTypeOK' BY <1>0, <1>1, <1>2, <1>7, <2>2 DEF AgentTypeOK
  <2>4. QueueFresh'
    <3>1. ASSUME NEW i \in 1 .. Len(queue')
          PROVE  /\ reply'[queue'[i]] = Nothing /\ queue'[i] \notin shown' /\ queue'[i] # emacs'.call
                 /\ call'[queue'[i]].pc \notin {"idle", "ready", "written"}
                 /\ call'[queue'[i]].code \in {NoCode, 1}
      <4>1. /\ queue'[i] = queue[i + 1] /\ i + 1 \in 1 .. Len(queue) /\ queue[i + 1] \in Calls
            /\ queue'[i] # first
        BY <1>2, <1>4
      <4> QED BY <1>0, <1>1, <1>7, <2>1, <4>1 DEF QueueFresh
    <3>2. ASSUME NEW i \in 1 .. Len(queue'), NEW j \in 1 .. Len(queue'), queue'[i] = queue'[j]
          PROVE  i = j
      BY <1>0, <1>2, <3>2 DEF QueueFresh
    <3> QED BY <3>1, <3>2 DEF QueueFresh
  <2>5. ServedFresh' BY <1>0, <1>1, <1>7 DEF ServedFresh, ServingAt
  <2>6. ASSUME NEW c \in Calls PROVE CallTrue(c)'
    BY <1>0, <1>1, <1>3, <1>7, <2>1 DEF CallTrue
  <2> QED BY <2>3, <2>4, <2>5, <2>6 DEF AgentInv
<1> QED BY <1>6, <1>7 DEF Take

(* What the server finds too large or malformed is not what it calls "ok". *)
LEMMA VerdictFacts ==
    \A e : Verdicts(e) \subseteq {"too-large", "unknown-type", "bad-field", "bad-path", "payload-too-large", "ok"}
<1> SUFFICES ASSUME NEW e
             PROVE Verdicts(e) \subseteq {"too-large", "unknown-type", "bad-field", "bad-path", "payload-too-large", "ok"}
  OBVIOUS
<1>1. PathVerdicts(e) \subseteq {"ok", "bad-path", "payload-too-large"}
  BY DEF PathVerdicts
<1> QED BY <1>1 DEF Verdicts

LEMMA ServingInv ==
    ASSUME AgentInv, Look \/ Load \/ Dispatch \/ Respond
    PROVE  AgentInv'
<1>0. /\ AgentTypeOK /\ ServedFresh
      /\ emacs.at \in ServingAt => emacs.call \in Calls /\ (emacs.call \in shown <=> emacs.at = "shown")
  BY DEF AgentInv, ServedFresh
<1>1. /\ emacs = [at |-> emacs.at, loaded |-> emacs.loaded, call |-> emacs.call, event |-> emacs.event]
      /\ emacs.event \in Events
  BY <1>0 DEF AgentTypeOK, EmacsRecords
<1>2. CASE Look
  <2>1. emacs.at = "look" /\ UNCHANGED <<call, file, queue, shown>> BY <1>2 DEF Look
  <2>2. CASE Answer("unreadable") BY <1>0, <2>1, <2>2, AnswerKeeps DEF ServingAt
  <2>3. CASE emacs' = [emacs EXCEPT !.at = "load"] /\ UNCHANGED reply
    <3>1. emacs' = [at |-> "load", loaded |-> emacs.loaded, call |-> emacs.call, event |-> emacs.event]
      BY <1>1, <2>3
    <3> QED BY <1>1, <2>1, <2>3, <3>1, ServeKeeps DEF ServingAt
  <2> QED BY <1>2, <2>2, <2>3 DEF Look
<1>3. CASE Load
  <2>1. emacs.at = "load" /\ UNCHANGED <<call, file, queue, shown>> BY <1>3 DEF Load
  <2>2. ASSUME NEW word \in {"untrusted", "handler", "too-large", "unknown-type", "bad-field", "bad-path",
                             "payload-too-large"},
               Answer(word)
        PROVE AgentInv'
    BY <1>0, <2>1, <2>2, AnswerKeeps DEF ServingAt
  <2>3. CASE Answer("untrusted") \/ Answer("handler") BY <2>2, <2>3
  <2>4. CASE \E verdict \in Verdicts(file[emacs.call]) :
               IF verdict = "ok"
               THEN emacs' = [emacs EXCEPT !.at = "dispatch", !.event = file[emacs.call]] /\ UNCHANGED reply
               ELSE Answer(verdict)
    <3>1. PICK verdict \in Verdicts(file[emacs.call]) :
               IF verdict = "ok"
               THEN emacs' = [emacs EXCEPT !.at = "dispatch", !.event = file[emacs.call]] /\ UNCHANGED reply
               ELSE Answer(verdict)
      BY <2>4
    <3>2. CASE verdict = "ok"
      <4>1. emacs' = [at |-> "dispatch", loaded |-> emacs.loaded, call |-> emacs.call,
                      event |-> file[emacs.call]]
        <5>1. emacs' = [[emacs EXCEPT !.at = "dispatch"] EXCEPT !.event = file[emacs.call]] BY <3>1, <3>2
        <5> DEFINE first == [emacs EXCEPT !.at = "dispatch"]
        <5>2. first = [at |-> "dispatch", loaded |-> emacs.loaded, call |-> emacs.call, event |-> emacs.event]
          BY <1>1
        <5>3. emacs' = [first EXCEPT !.event = file[emacs.call]] BY <5>1
        <5> HIDE DEF first
        <5> QED BY <5>2, <5>3
      <4>2. file[emacs.call] \in Events BY <1>0, <2>1 DEF AgentTypeOK, ServingAt
      <4> QED BY <2>1, <3>1, <3>2, <4>1, <4>2, ServeKeeps DEF ServingAt
    <3>3. CASE verdict # "ok"
      <4>1. verdict \in {"too-large", "unknown-type", "bad-field", "bad-path", "payload-too-large"}
        BY <3>3, VerdictFacts
      <4> QED BY <2>2, <3>1, <3>3, <4>1
    <3> QED BY <3>2, <3>3
  <2> QED BY <1>3, <2>3, <2>4 DEF Load
<1>4. CASE Dispatch
  <2>1. emacs.at = "dispatch" /\ UNCHANGED <<call, file, queue>> BY <1>4 DEF Dispatch
  <2>2. CASE Answer("handler") /\ UNCHANGED shown BY <1>0, <2>1, <2>2, AnswerKeeps DEF ServingAt
  <2>3. CASE /\ shown' = shown \cup {emacs.call}
             /\ emacs' = [emacs EXCEPT !.at = "shown"]
             /\ UNCHANGED reply
    <3>1. emacs' = [at |-> "shown", loaded |-> emacs.loaded, call |-> emacs.call, event |-> emacs.event]
      BY <1>1, <2>3
    <3> QED BY <1>1, <2>1, <2>3, <3>1, ServeKeeps DEF ServingAt
  <2> QED BY <1>4, <2>2, <2>3 DEF Dispatch
<1>5. CASE Respond
  <2>1. emacs.at = "shown" /\ Answer("ok") /\ UNCHANGED <<call, file, queue, shown>> BY <1>5 DEF Respond
  <2> QED BY <1>0, <2>1, AnswerKeeps DEF ServingAt
<1> QED BY <1>2, <1>3, <1>4, <1>5

LEMMA EmacsInv ==
    ASSUME AgentInv, Quit \/ Boot
    PROVE  AgentInv'
<1>0. AgentTypeOK /\ QueueFresh /\ ServedFresh /\ \A c \in Calls : CallTrue(c) BY DEF AgentInv
<1>1. /\ emacs = [at |-> emacs.at, loaded |-> emacs.loaded, call |-> emacs.call, event |-> emacs.event]
      /\ emacs.event \in Events /\ emacs.loaded \in BOOLEAN /\ NoEvent \in Events
  BY <1>0 DEF AgentTypeOK, EmacsRecords, Events
<1>2. CASE Quit
  <2>1. /\ reply' = [c \in Calls |->
              IF call[c].pc = "waiting" /\ reply[c] = Nothing THEN "gone" ELSE reply[c]]
        /\ emacs' = [emacs EXCEPT !.at = "down", !.call = Nothing, !.event = NoEvent]
        /\ queue' = <<>> /\ UNCHANGED <<call, file, shown>>
    BY <1>2 DEF Quit
  <2>2. emacs' = [at |-> "down", loaded |-> emacs.loaded, call |-> Nothing, event |-> NoEvent]
    BY <1>1, <2>1
  <2>3. /\ reply' = [c \in Calls |-> reply'[c]]
        /\ \A c \in Calls : IF call[c].pc = "waiting" /\ reply[c] = Nothing
                            THEN reply'[c] = "gone" ELSE reply'[c] = reply[c]
    BY <2>1
  <2>4. AgentTypeOK'
    <3>1. emacs' \in EmacsRecords BY <1>1, <2>2 DEF EmacsRecords
    <3> QED BY <1>0, <2>1, <2>3, <3>1 DEF AgentTypeOK
  <2>5. QueueFresh' BY <2>1 DEF QueueFresh
  <2>6. ServedFresh' BY <2>2 DEF ServedFresh, ServingAt
  <2>7. ASSUME NEW c \in Calls PROVE CallTrue(c)'
    <3>1. CASE call[c].pc = "waiting" /\ reply[c] = Nothing
      BY <1>0, <2>1, <2>2, <2>3, <3>1 DEF CallTrue
    <3>2. CASE ~(call[c].pc = "waiting" /\ reply[c] = Nothing)
      BY <1>0, <2>1, <2>2, <2>3, <3>2, CallsAssumption DEF CallTrue
    <3> QED BY <3>1, <3>2
  <2> QED BY <2>4, <2>5, <2>6, <2>7 DEF AgentInv
<1>3. CASE Boot
  <2>1. PICK loaded \in BOOLEAN : emacs' = [emacs EXCEPT !.at = "free", !.loaded = loaded]
    BY <1>3 DEF Boot
  <2>2. emacs.at = "down" /\ UNCHANGED <<call, file, queue, reply, shown>> BY <1>3 DEF Boot
  <2>3. emacs.call = Nothing BY <1>0, <2>2 DEF ServedFresh, ServingAt
  <2>4. emacs' = [at |-> "free", loaded |-> loaded, call |-> Nothing, event |-> emacs.event]
    BY <1>1, <2>1, <2>3
  <2>5. AgentTypeOK'
    <3>1. emacs' \in EmacsRecords BY <1>1, <2>4 DEF EmacsRecords
    <3> QED BY <1>0, <2>2, <3>1 DEF AgentTypeOK
  <2>6. emacs'.call = emacs.call /\ emacs'.at = "free" BY <2>3, <2>4
  <2>7. QueueFresh' BY <1>0, <2>2, <2>6 DEF QueueFresh
  <2>8. ServedFresh' BY <2>3, <2>6 DEF ServedFresh, ServingAt
  <2>9. ASSUME NEW c \in Calls PROVE CallTrue(c)' BY <1>0, <2>2, <2>6 DEF CallTrue
  <2> QED BY <2>5, <2>7, <2>8, <2>9 DEF AgentInv
<1> QED BY <1>2, <1>3

LEMMA Next_AgentInv == AgentInv /\ [Next]_vars => AgentInv'
<1> SUFFICES ASSUME AgentInv, [Next]_vars PROVE AgentInv' OBVIOUS
<1>1. CASE UNCHANGED vars
  BY <1>1 DEF vars, AgentInv, AgentTypeOK, QueueFresh, ServedFresh, CallTrue
<1> QED BY <1>1, ProcessInv, TakeInv, ServingInv, EmacsInv DEF Next, Server

THEOREM AgentSafe == Spec => []AgentInv
BY Init_AgentInv, Next_AgentInv, PTL DEF Spec
-----------------------------------------------------------------------------
(* What an exit code says happened: 0, the event was shown; 2, nothing of the
   call reached Emacs; 3, it was not shown, unless Emacs ended with the
   request. *)
THEOREM CodesTrue == Spec => []ExitCodesTrue
<1>1. AgentInv => ExitCodesTrue
  <2> SUFFICES ASSUME AgentInv, NEW c \in Calls, Over(c)
               PROVE  /\ call[c].code = 0 => c \in shown
                      /\ call[c].code = 2 => reply[c] = Nothing /\ c \notin shown /\ emacs.call # c
                      /\ call[c].code = 3 => c \notin shown \/ reply[c] = "gone"
    BY DEF ExitCodesTrue
  <2> QED BY DEF AgentInv, CallTrue
<1> QED BY <1>1, AgentSafe, PTL

(* Emacs never begins with the event of a call that is over, unless the file could
   not be removed; and then the call was told 1. *)
THEOREM NothingLate == Spec => NeverLate
<1>1. AgentInv /\ [Next]_vars =>
        [\A c \in Calls : Over(c) /\ Opened(c)' =>
              Opened(c) \/ (call[c].pc = "left" /\ call[c].code = 1)]_vars
  <2> SUFFICES ASSUME AgentInv, Next, NEW c \in Calls, Over(c), Opened(c)',
                      ~ (call[c].pc = "left" /\ call[c].code = 1)
               PROVE  Opened(c)
    OBVIOUS
  <2>0. /\ AgentTypeOK /\ ServedFresh /\ call[c].code # NoCode
        /\ call[c].pc = "left" \/ file[c] = NoEvent
    BY DEF AgentInv, CallTrue, Over
  <2>1. emacs'.call = c /\ emacs'.at \in {"dispatch", "shown"} BY DEF Opened
  <2>2. emacs = [at |-> emacs.at, loaded |-> emacs.loaded, call |-> emacs.call, event |-> emacs.event]
    BY <2>0 DEF AgentTypeOK, EmacsRecords
  <2>3. ~(\E word : Answer(word)) BY <2>1, <2>2 DEF Answer
  <2>4. CASE UNCHANGED emacs BY <2>1, <2>4 DEF Opened
  <2>5. CASE Take
    <3>1. CASE emacs' = [emacs EXCEPT !.at = "look", !.call = Head(queue)]
      <4>1. emacs' = [at |-> "look", loaded |-> emacs.loaded, call |-> Head(queue), event |-> emacs.event]
        BY <2>2, <3>1
      <4> QED BY <2>1, <4>1
    <3> QED BY <2>4, <2>5, <3>1 DEF Take
  <2>6. CASE Look BY <2>1, <2>2, <2>3, <2>6 DEF Look
  <2>7. CASE Load
    <3>1. emacs'.call = emacs.call /\ file[emacs.call] # NoEvent BY <2>2, <2>3, <2>7 DEF Load
    <3>2. emacs.at \in ServingAt BY <2>7 DEF Load, ServingAt
    <3>3. call[c].code = 1 BY <2>0, <2>1, <3>1, <3>2 DEF ServedFresh
    <3> QED BY <2>0, <2>1, <3>1, <3>3
  <2>8. CASE Dispatch BY <2>1, <2>2, <2>3, <2>8 DEF Dispatch, Opened
  <2>9. CASE Respond BY <2>3, <2>9 DEF Respond
  <2>10. CASE Quit BY <2>1, <2>2, <2>10 DEF Quit
  <2>11. CASE Boot BY <2>1, <2>2, <2>11 DEF Boot
  <2>12. CASE \E d \in Calls : Start(d) \/ Process(d) \/ Kill(d)
    <3>1. UNCHANGED emacs
      BY <2>12 DEF Start, Process, Kill, WriteEventFile, Connect, Classify, Expire, Finish
    <3> QED BY <2>4, <3>1
  <2> QED BY <2>5, <2>6, <2>7, <2>8, <2>9, <2>10, <2>11, <2>12 DEF Next, Server
<1> QED BY <1>1, AgentSafe, PTL DEF Spec, NeverLate
-----------------------------------------------------------------------------
(* What the parser makes of a line: a refusal, or an event that the receiver
   finds well formed.  (The provers do not know that a literal is a STRING.) *)
WordSet == STRING \ {Nothing}
Values == STRING \cup {Nothing, "abs", "remote", "usage", "environment"} \cup Types
Scans == [words : Seq(WordSet), options : [Options -> Values], wants : Options \cup {Nothing},
          literal : BOOLEAN, failed : BOOLEAN]
EventRecords ==
    [type : Values, project : Values, session : Values, text : Values, path : Values, line : Values,
     column : Values, artifactType : Values, title : Values, status : Values, summary : Values]
WellFormed(e) == e \in EventRecords /\ e.type \in Types /\ FieldsOK(e)
Accepted(e) == WellFormed(e) /\ ~TooLarge(e)

LEMMA OptionsFacts == Nothing \notin Options /\ "--title" \in Options /\ "--type" \in Options
   /\ "--artifact" \in Options /\ Common \subseteq Options
<1>1. \A sub : Allowed(sub) \subseteq {"--type", "--title", "--artifact"} BY DEF Allowed
<1>2. "artifact" \in Subcommands /\ "finish" \in Subcommands BY DEF Subcommands
<1>3. Allowed("artifact") = {"--type", "--title"} /\ Allowed("finish") = {"--artifact"} BY DEF Allowed
<1>4. Options \subseteq Common \cup {"--type", "--title", "--artifact"} BY <1>1 DEF Options
<1>5. {"--type", "--title", "--artifact"} \subseteq Options BY <1>2, <1>3 DEF Options
<1> QED BY <1>4, <1>5 DEF Common, Options

LEMMA ScanKeeps ==
    ASSUME NEW s \in Scans, NEW w \in WordSet
    PROVE  ScanWord(s, w) \in Scans
<1>0. PICK words \in Seq(WordSet), options \in [Options -> Values], wants \in Options \cup {Nothing},
           literal \in BOOLEAN, failed \in BOOLEAN :
             s = [words |-> words, options |-> options, wants |-> wants, literal |-> literal, failed |-> failed]
  BY DEF Scans
<1>1. [s EXCEPT !.words = Append(@, w)] \in Scans
  <2>1. Append(words, w) \in Seq(WordSet) OBVIOUS
  <2>2. s.words = words BY <1>0
  <2>3. PICK longer \in Seq(WordSet) : longer = Append(words, w) BY <2>1
  <2>4. [s EXCEPT !.words = longer] \in Scans BY DEF Scans
  <2> QED BY <2>2, <2>3, <2>4
<1>2. [s EXCEPT !.literal = TRUE] \in Scans /\ [s EXCEPT !.failed = TRUE] \in Scans BY DEF Scans
<1>3. w \in Options => [s EXCEPT !.wants = w] \in Scans BY DEF Scans
<1>4. s.wants # Nothing => [s EXCEPT !.options[s.wants] = w, !.wants = Nothing] \in Scans
  <2>0. s.wants = wants BY <1>0
  <2>1. w \in Values BY DEF WordSet, Values
  <2>2. PICK given \in [Options -> Values] : given = [options EXCEPT ![wants] = w] BY <2>1
  <2>3. s.options = options BY <1>0
  <2>4. [s EXCEPT !.options = given, !.wants = Nothing] \in Scans BY DEF Scans
  <2>5. [s EXCEPT !.options[wants] = w, !.wants = Nothing]
          = [s EXCEPT !.options = [s.options EXCEPT ![wants] = w], !.wants = Nothing]
    OBVIOUS
  <2> QED BY <2>0, <2>2, <2>3, <2>4, <2>5
<1> QED BY <1>1, <1>2, <1>3, <1>4 DEF ScanWord

LEMMA ScanStarts == Scan0 \in Scans
<1>1. [o \in Options |-> Nothing] \in [Options -> Values] BY DEF Values
<1>2. <<>> \in Seq(WordSet) OBVIOUS
<1> HIDE DEF Nothing
<1> QED BY <1>1, <1>2 DEF Scan0, Scans

LEMMA PathFacts ==
    ASSUME NEW e \in EventRecords, NEW w, NEW cwd
    PROVE  \/ Failed(WithPath(e, w, cwd)) /\ WithPath(e, w, cwd) \in EventRecords
           \/ \E p \in {"abs", "remote"} : WithPath(e, w, cwd) = [e EXCEPT !.path = p]
<1>1. Failed(Usage) /\ Usage \in EventRecords BY DEF Failed, Usage, Refusal, NoEvent, EventRecords, Values
<1>2. Failed(NoDirectory) /\ NoDirectory \in EventRecords BY DEF Failed, NoDirectory, Refusal, NoEvent, EventRecords, Values
<1> QED BY <1>1, <1>2 DEF WithPath

LEMMA RefusalFacts ==
    /\ Usage \in EventRecords /\ Failed(Usage)
    /\ NoDirectory \in EventRecords /\ Failed(NoDirectory)
BY DEF Failed, Usage, NoDirectory, Refusal, NoEvent, EventRecords, Values

WellFormedOrRefused(e) == e \in EventRecords /\ (Failed(e) \/ WellFormed(e))

LEMMA MessageGood ==
    ASSUME NEW words \in Seq(WordSet)
    PROVE  WellFormedOrRefused(MessageEvent(words))
<1>1. CASE Len(words) # 1 \/ words[1] = "empty" BY <1>1, RefusalFacts DEF MessageEvent, WellFormedOrRefused
<1>2. CASE ~(Len(words) # 1 \/ words[1] = "empty")
  <2>0. PICK w : w = words[1] OBVIOUS
  <2>1. w \in WordSet /\ w # "empty" BY <1>2, <2>0
  <2>2. w \in Values /\ w # Nothing BY <2>1 DEF WordSet, Values
  <2>3. MessageEvent(words) =
           [type |-> "message", project |-> Nothing, session |-> Nothing, text |-> w, path |-> Nothing,
            line |-> Nothing, column |-> Nothing, artifactType |-> Nothing, title |-> Nothing,
            status |-> Nothing, summary |-> Nothing]
    BY <1>2, <2>0 DEF MessageEvent, NoEvent
  <2>4. MessageEvent(words) \in EventRecords BY <2>2, <2>3 DEF EventRecords, Values, Types
  <2>5. FieldsOK(MessageEvent(words)) BY <2>1, <2>2, <2>3 DEF FieldsOK, Optional, Kind
  <2> QED BY <2>3, <2>4, <2>5 DEF WellFormedOrRefused, WellFormed, Types
<1> QED BY <1>1, <1>2

(* A new event, and what its updates make of it. *)
Fresh(type, line, column, artifactType, title, status, summary) ==
    [type |-> type, project |-> Nothing, session |-> Nothing, text |-> Nothing, path |-> Nothing,
     line |-> line, column |-> column, artifactType |-> artifactType, title |-> title,
     status |-> status, summary |-> summary]

LEMMA NoEventIsFresh == NoEvent = Fresh(Nothing, Nothing, Nothing, Nothing, Nothing, Nothing, Nothing)
BY DEF NoEvent, Fresh

LEMMA PathGood ==
    ASSUME NEW type \in {"open-file", "goto-location", "artifact-created", "task-finished"},
           NEW line \in Values, NEW column \in Values, NEW artifactType \in Values, NEW title \in Values,
           NEW status \in Values, NEW summary \in Values, NEW w, NEW cwd, NEW e,
           e = Fresh(type, line, column, artifactType, title, status, summary),
           type = "goto-location" => PositiveInt(line) /\ (column = Nothing \/ PositiveInt(column)),
           type = "task-finished" => status \in {"success", "failed"}
    PROVE  WellFormedOrRefused(WithPath(e, w, cwd)) /\ (type = "task-finished" => WellFormedOrRefused(e))
<1> DEFINE With(p) ==
       [type |-> type, project |-> Nothing, session |-> Nothing, text |-> Nothing, path |-> p,
        line |-> line, column |-> column, artifactType |-> artifactType, title |-> title,
        status |-> status, summary |-> summary]
<1>1. ASSUME NEW p \in {"abs", "remote"} PROVE WellFormedOrRefused(With(p))
  <2>1. With(p) \in EventRecords BY DEF EventRecords, Values, Types
  <2>2. FieldsOK(With(p)) BY DEF FieldsOK, Optional, Kind, PositiveInt
  <2> QED BY <2>1, <2>2 DEF WellFormedOrRefused, WellFormed, Types
<1>2. type = "task-finished" => WellFormedOrRefused(With(Nothing))
  <2> SUFFICES ASSUME type = "task-finished" PROVE WellFormedOrRefused(With(Nothing)) OBVIOUS
  <2>1. With(Nothing) \in EventRecords BY DEF EventRecords, Values, Types
  <2>2. FieldsOK(With(Nothing)) BY DEF FieldsOK, Optional, Kind, PositiveInt
  <2> QED BY <2>1, <2>2 DEF WellFormedOrRefused, WellFormed, Types
<1>3. \A p : [e EXCEPT !.path = p] = With(p) BY DEF Fresh
<1>4. e = With(Nothing) BY DEF Fresh
<1>5. WellFormedOrRefused(Usage) /\ WellFormedOrRefused(NoDirectory) BY RefusalFacts DEF WellFormedOrRefused
<1> HIDE DEF With
<1>6. WellFormedOrRefused(WithPath(e, w, cwd)) BY <1>1, <1>3, <1>5 DEF WithPath
<1> QED BY <1>2, <1>4, <1>6

LEMMA PayloadGood ==
    ASSUME NEW sub \in Subcommands, NEW words \in Seq(WordSet), NEW options \in [Options -> Values], NEW cwd
    PROVE  WellFormedOrRefused(Payload(sub, words, options, cwd))
<1>1. ASSUME NEW i \in 1 .. Len(words) PROVE words[i] \in Values BY DEF WordSet, Values
<1>2. WellFormedOrRefused(Usage) BY RefusalFacts DEF WellFormedOrRefused
<1>3. Nothing \in Values BY DEF Values
<1>4. CASE sub = "message" BY <1>4, MessageGood DEF Payload
<1>5. CASE sub = "open-file"
  <2> DEFINE e == [NoEvent EXCEPT !.type = "open-file"]
  <2>1. e = Fresh("open-file", Nothing, Nothing, Nothing, Nothing, Nothing, Nothing)
    BY NoEventIsFresh DEF Fresh
  <2> HIDE DEF e
  <2>2. WellFormedOrRefused(WithPath(e, words[1], cwd)) BY <1>3, <2>1, PathGood
  <2>3. WellFormedOrRefused(OpenEvent(words, cwd)) BY <1>2, <2>2 DEF OpenEvent, e
  <2> QED BY <1>5, <2>3 DEF Payload
<1>6. CASE sub = "goto"
  <2>1. CASE Len(words) \notin 2..3 \/ \E i \in 2..Len(words) : ~PositiveInt(words[i])
    BY <1>2, <1>6, <2>1 DEF Payload, GotoEvent
  <2>2. CASE ~(Len(words) \notin 2..3 \/ \E i \in 2..Len(words) : ~PositiveInt(words[i]))
    <3>0. PICK line, column : line = words[2] /\ column = IF Len(words) = 3 THEN words[3] ELSE Nothing
      OBVIOUS
    <3> DEFINE e == [NoEvent EXCEPT !.type = "goto-location", !.line = line, !.column = column]
    <3>1. e = Fresh("goto-location", line, column, Nothing, Nothing, Nothing, Nothing)
      <4>1. PICK e0 : e0 = [NoEvent EXCEPT !.type = "goto-location"] OBVIOUS
      <4>2. PICK e1 : e1 = [e0 EXCEPT !.line = line] OBVIOUS
      <4>3. e = [e1 EXCEPT !.column = column] BY <4>1, <4>2
      <4> HIDE DEF e
      <4>4. e0 = Fresh("goto-location", Nothing, Nothing, Nothing, Nothing, Nothing, Nothing)
        BY <4>1, NoEventIsFresh DEF Fresh
      <4>5. e1 = Fresh("goto-location", line, Nothing, Nothing, Nothing, Nothing, Nothing)
        <5>1. [Fresh("goto-location", Nothing, Nothing, Nothing, Nothing, Nothing, Nothing) EXCEPT !.line = line] = Fresh("goto-location", line, Nothing, Nothing, Nothing, Nothing, Nothing)
          BY DEF Fresh
        <5> QED BY <4>2, <4>4, <5>1, Zenon
      <4>6. [Fresh("goto-location", line, Nothing, Nothing, Nothing, Nothing, Nothing) EXCEPT !.column = column] = Fresh("goto-location", line, column, Nothing, Nothing, Nothing, Nothing)
        BY DEF Fresh
      <4> QED BY <4>3, <4>5, <4>6, Zenon
    <3>2. line \in Values /\ PositiveInt(line) BY <1>1, <2>2, <3>0
    <3>3. column \in Values /\ (column = Nothing \/ PositiveInt(column)) BY <1>1, <1>3, <2>2, <3>0
    <3>4. GotoEvent(words, cwd) = WithPath(e, words[1], cwd) BY <2>2, <3>0 DEF GotoEvent
    <3> HIDE DEF e
    <3>5. WellFormedOrRefused(WithPath(e, words[1], cwd)) BY <1>3, <3>1, <3>2, <3>3, PathGood
    <3> QED BY <1>6, <3>4, <3>5 DEF Payload
  <2> QED BY <2>1, <2>2
<1>7. CASE sub = "artifact"
  <2>0. PICK type \in Values, title \in Values : type = options["--type"] /\ title = options["--title"]
    BY OptionsFacts
  <2> DEFINE e == [NoEvent EXCEPT !.type = "artifact-created", !.artifactType = type, !.title = title]
  <2>1. e = Fresh("artifact-created", Nothing, Nothing, type, title, Nothing, Nothing)
    <3>1. PICK e0 : e0 = [NoEvent EXCEPT !.type = "artifact-created"] OBVIOUS
    <3>2. PICK e1 : e1 = [e0 EXCEPT !.artifactType = type] OBVIOUS
    <3>3. e = [e1 EXCEPT !.title = title] BY <3>1, <3>2
    <3> HIDE DEF e
    <3>4. e0 = Fresh("artifact-created", Nothing, Nothing, Nothing, Nothing, Nothing, Nothing)
      BY <3>1, NoEventIsFresh DEF Fresh
    <3>5. e1 = Fresh("artifact-created", Nothing, Nothing, type, Nothing, Nothing, Nothing)
      <4>1. [Fresh("artifact-created", Nothing, Nothing, Nothing, Nothing, Nothing, Nothing) EXCEPT !.artifactType = type] = Fresh("artifact-created", Nothing, Nothing, type, Nothing, Nothing, Nothing)
        BY DEF Fresh
      <4> QED BY <3>2, <3>4, <4>1, Zenon
    <3>6. [Fresh("artifact-created", Nothing, Nothing, type, Nothing, Nothing, Nothing) EXCEPT !.title = title] = Fresh("artifact-created", Nothing, Nothing, type, title, Nothing, Nothing)
      BY DEF Fresh
    <3> QED BY <3>3, <3>5, <3>6, Zenon
  <2> HIDE DEF e
  <2>3. WellFormedOrRefused(WithPath(e, words[1], cwd)) BY <1>3, <2>1, PathGood
  <2>4. WellFormedOrRefused(ArtifactEvent(words, options, cwd)) BY <1>2, <2>0, <2>3 DEF ArtifactEvent, e
  <2> QED BY <1>7, <2>4 DEF Payload
<1>8. CASE sub = "finish"
  <2>1. CASE Len(words) \notin 1..2 \/ words[1] \notin {"success", "failed"}
    BY <1>2, <1>8, <2>1 DEF Payload, FinishEvent
  <2>2. CASE ~(Len(words) \notin 1..2 \/ words[1] \notin {"success", "failed"})
    <3>0. PICK status, summary : status = words[1] /\ summary = IF Len(words) = 2 THEN words[2] ELSE Nothing
      OBVIOUS
    <3> DEFINE e == [NoEvent EXCEPT !.type = "task-finished", !.status = status, !.summary = summary]
    <3>1. e = Fresh("task-finished", Nothing, Nothing, Nothing, Nothing, status, summary)
      <4>1. PICK e0 : e0 = [NoEvent EXCEPT !.type = "task-finished"] OBVIOUS
      <4>2. PICK e1 : e1 = [e0 EXCEPT !.status = status] OBVIOUS
      <4>3. e = [e1 EXCEPT !.summary = summary] BY <4>1, <4>2
      <4> HIDE DEF e
      <4>4. e0 = Fresh("task-finished", Nothing, Nothing, Nothing, Nothing, Nothing, Nothing)
        BY <4>1, NoEventIsFresh DEF Fresh
      <4>5. e1 = Fresh("task-finished", Nothing, Nothing, Nothing, Nothing, status, Nothing)
        <5>1. [Fresh("task-finished", Nothing, Nothing, Nothing, Nothing, Nothing, Nothing) EXCEPT !.status = status] = Fresh("task-finished", Nothing, Nothing, Nothing, Nothing, status, Nothing)
          BY DEF Fresh
        <5> QED BY <4>2, <4>4, <5>1, Zenon
      <4>6. [Fresh("task-finished", Nothing, Nothing, Nothing, Nothing, status, Nothing) EXCEPT !.summary = summary] = Fresh("task-finished", Nothing, Nothing, Nothing, Nothing, status, summary)
        BY DEF Fresh
      <4> QED BY <4>3, <4>5, <4>6, Zenon
    <3>2. /\ status \in Values /\ status \in {"success", "failed"}
          /\ summary \in Values
      BY <1>1, <1>3, <2>2, <3>0
    <3>3. FinishEvent(words, options, cwd) =
            IF options["--artifact"] = Nothing THEN e ELSE WithPath(e, options["--artifact"], cwd)
      BY <2>2, <3>0 DEF FinishEvent
    <3> HIDE DEF e
    <3>4. WellFormedOrRefused(WithPath(e, options["--artifact"], cwd)) /\ WellFormedOrRefused(e)
      BY <1>3, <3>1, <3>2, PathGood
    <3> QED BY <1>8, <3>3, <3>4 DEF Payload
  <2> QED BY <2>1, <2>2
<1> QED BY <1>4, <1>5, <1>6, <1>7, <1>8 DEF Subcommands

LEMMA ScanGood ==
    ASSUME NEW line \in Seq(WordSet)
    PROVE  ParseArgs(line) \in Scans
<1>1. Scan0 \in Scans /\ \A s \in Scans, w \in WordSet : ScanWord(s, w) \in Scans BY ScanStarts, ScanKeeps
<1> QED BY <1>1, FoldKeeps DEF ParseArgs

LEMMA ParseGood ==
    ASSUME NEW line \in Seq(WordSet), NEW cwd, NEW variable
    PROVE  LET r == ParseRequest(line, cwd, variable) IN Failed(r) \/ Accepted(r)
<1> DEFINE scanned == ParseArgs(line)
           options == scanned.options
           sub == Head(scanned.words)
           payload == Payload(sub, Tail(scanned.words), options, cwd)
           project == options["--project"]
           session == options["--session"]
           event == [payload EXCEPT !.project = project, !.session = session]
           r == ParseRequest(line, cwd, variable)
<1>1. scanned.words \in Seq(WordSet) /\ options \in [Options -> Values] BY ScanGood DEF Scans
<1>2. project \in Values /\ session \in Values BY <1>1, OptionsFacts DEF Common
<1>3. \/ r = Usage
      \/ scanned.words # <<>> /\ sub \in Subcommands /\ Failed(payload) /\ r = payload
      \/ scanned.words # <<>> /\ sub \in Subcommands /\ ~Failed(payload) /\ ~TooLarge(event) /\ r = event
  BY DEF ParseRequest
<1> HIDE DEF scanned, options, r
<1>4. scanned.words # <<>> /\ sub \in Subcommands => WellFormedOrRefused(payload)
  <2> SUFFICES ASSUME scanned.words # <<>>, sub \in Subcommands PROVE WellFormedOrRefused(payload)
    OBVIOUS
  <2>1. PICK ws \in Seq(WordSet) : ws = scanned.words /\ ws # <<>> BY <1>1
  <2>2. PICK rest \in Seq(WordSet) : rest = Tail(ws)
    <3>1. Tail(ws) \in Seq(WordSet) BY <2>1
    <3> QED BY <3>1
  <2> QED BY <1>1, <2>1, <2>2, PayloadGood
<1>5. ASSUME WellFormed(payload) PROVE WellFormed(event)
  <2> HIDE DEF payload, project, session
  <2>0. PICK p : p = project OBVIOUS
  <2>1. PICK s : s = session OBVIOUS
  <2>2. PICK e : e = payload OBVIOUS
  <2>3. e \in EventRecords BY <1>5, <2>2 DEF WellFormed
  <2>4. [e EXCEPT !.project = p, !.session = s] =
          [type |-> e.type, project |-> p, session |-> s, text |-> e.text, path |-> e.path, line |-> e.line,
           column |-> e.column, artifactType |-> e.artifactType, title |-> e.title, status |-> e.status,
           summary |-> e.summary]
    <3>1. PICK ty, pr, se, te, pa, li, co, ar, ti, st, su :
             e = [type |-> ty, project |-> pr, session |-> se, text |-> te, path |-> pa, line |-> li,
                  column |-> co, artifactType |-> ar, title |-> ti, status |-> st, summary |-> su]
      BY <2>3 DEF EventRecords
    <3>2. PICK g : g = [e EXCEPT !.project = p] OBVIOUS
    <3>3. g = [type |-> ty, project |-> p, session |-> se, text |-> te, path |-> pa, line |-> li,
               column |-> co, artifactType |-> ar, title |-> ti, status |-> st, summary |-> su]
      BY <3>1, <3>2
    <3>4. [e EXCEPT !.project = p, !.session = s] = [g EXCEPT !.session = s] BY <3>2
    <3>5. [g EXCEPT !.session = s]
            = [type |-> ty, project |-> p, session |-> s, text |-> te, path |-> pa, line |-> li,
               column |-> co, artifactType |-> ar, title |-> ti, status |-> st, summary |-> su]
      BY <3>3
    <3> QED BY <3>1, <3>4, <3>5
  <2>5. event = [e EXCEPT !.project = p, !.session = s] BY <2>0, <2>1, <2>2
  <2> HIDE DEF event
  <2>6. p \in Values /\ s \in Values BY <1>2, <2>0, <2>1
  <2>7. event \in EventRecords BY <2>3, <2>4, <2>5, <2>6 DEF EventRecords
  <2>8. FieldsOK(e) /\ e.type \in Types BY <1>5, <2>2 DEF WellFormed
  <2>9. FieldsOK(event) BY <2>4, <2>5, <2>8 DEF FieldsOK, Optional, Kind
  <2> QED BY <2>4, <2>5, <2>7, <2>8, <2>9 DEF WellFormed
<1> HIDE DEF payload, event, sub
<1>6. Failed(r) \/ Accepted(r) BY <1>3, <1>4, <1>5, RefusalFacts DEF Accepted, WellFormedOrRefused
<1> QED BY <1>6 DEF r

LEMMA AcceptedVerdicts ==
    ASSUME NEW e, Accepted(e)
    PROVE  Verdicts(e) \subseteq {"bad-path", "payload-too-large", "ok"}
<1>1. PathVerdicts(e) \subseteq {"ok", "bad-path", "payload-too-large"} BY DEF PathVerdicts
<1> QED BY <1>1 DEF Verdicts, Accepted, WellFormed
-----------------------------------------------------------------------------
(* Every event, and every file, is one the parser accepted. *)
EventsAccepted ==
    \A c \in Calls : /\ call[c].event = NoEvent \/ Accepted(call[c].event)
                     /\ file[c] = NoEvent \/ Accepted(file[c])
WireInv == EventsAccepted /\ WireAgrees

LEMMA WireNext == AgentInv /\ WireInv /\ [Next]_vars => WireInv'
<1> SUFFICES ASSUME AgentInv, WireInv, [Next]_vars PROVE WireInv' OBVIOUS
<1>0. /\ AgentTypeOK /\ ServedFresh /\ EventsAccepted /\ WireAgrees
      /\ emacs.at \in ServingAt => emacs.call \in Calls
      /\ reply = [c \in Calls |-> reply[c]] /\ file \in [Calls -> Events] /\ call \in [Calls -> CallRecords]
  BY DEF AgentInv, ServedFresh, WireInv, AgentTypeOK
<1>1. ASSUME NEW c \in Calls, Start(c) PROVE WireInv'
  <2>1. PICK r \in Requests[c] :
          call' = [call EXCEPT ![c] =
              IF Failed(r)
              THEN [pc |-> "done", event |-> NoEvent, code |-> IF r.type = "usage" THEN 2 ELSE 1]
              ELSE [pc |-> "ready", event |-> r, code |-> NoCode]]
    BY <1>1 DEF Start
  <2>2. PICK line \in Lines[c], cwd \in BOOLEAN, variable \in {"empty", "zero"} :
          r = ParseRequest(line, cwd, variable)
    BY DEF Requests
  <2>3. line \in Seq(WordSet) BY LinesAssumption DEF WordSet
  <2>4. Failed(r) \/ Accepted(r) BY <2>2, <2>3, ParseGood
  <2>5. call'[c].event = NoEvent \/ Accepted(call'[c].event) BY <1>0, <2>1, <2>4
  <2>6. \A d \in Calls : d # c => call'[d] = call[d] BY <1>0, <2>1
  <2>7. EventsAccepted' BY <1>0, <1>1, <2>5, <2>6 DEF EventsAccepted, Start
  <2> QED BY <1>0, <1>1, <2>7 DEF WireInv, WireAgrees, Start
<1>2. ASSUME NEW c \in Calls, Process(c) \/ Kill(c) PROVE WireInv'
  <2>1. UNCHANGED reply BY <1>2 DEF Process, Kill, WriteEventFile, Connect, Classify, Expire, Finish
  <2>2. \A d \in Calls : call'[d].event \in {call[d].event, NoEvent}
    BY <1>0, <1>2 DEF Process, Kill, WriteEventFile, Connect, Classify, Expire, Finish, Ended, CallRecords
  <2>3. \A d \in Calls : file'[d] \in {file[d], call[d].event, NoEvent}
    BY <1>0, <1>2 DEF Process, Kill, WriteEventFile, Connect, Classify, Expire, Finish
  <2>4. EventsAccepted' BY <1>0, <2>2, <2>3 DEF EventsAccepted
  <2> QED BY <1>0, <2>1, <2>4 DEF WireInv, WireAgrees
<1>3. ASSUME UNCHANGED <<call, file>>,
             \A c \in Calls : reply'[c] = reply[c] \/ reply'[c] \notin {"too-large", "unknown-type", "bad-field"}
      PROVE  WireInv'
  BY <1>0, <1>3 DEF WireInv, WireAgrees, EventsAccepted
<1>4. ASSUME NEW word, Answer(word), word \notin {"too-large", "unknown-type", "bad-field"},
             UNCHANGED <<call, file>>
      PROVE  WireInv'
  BY <1>0, <1>3, <1>4 DEF Answer
<1>5. CASE Take BY <1>0, <1>3, <1>5 DEF Take
<1>6. CASE Look BY <1>3, <1>4, <1>6 DEF Look
<1>7. CASE Load
  <2>1. emacs.call \in Calls /\ UNCHANGED <<call, file>> BY <1>0, <1>7 DEF Load, ServingAt
  <2>2. CASE file[emacs.call] = NoEvent BY <1>4, <1>7, <2>1, <2>2 DEF Load
  <2>3. CASE file[emacs.call] # NoEvent
    <3>1. PICK verdict \in Verdicts(file[emacs.call]) :
              IF verdict = "ok"
              THEN emacs' = [emacs EXCEPT !.at = "dispatch", !.event = file[emacs.call]] /\ UNCHANGED reply
              ELSE Answer(verdict)
      BY <1>7, <2>3 DEF Load
    <3>2. Accepted(file[emacs.call]) BY <1>0, <2>1, <2>3 DEF EventsAccepted
    <3>3. verdict \notin {"too-large", "unknown-type", "bad-field"} BY <3>2, AcceptedVerdicts
    <3> QED BY <1>3, <1>4, <2>1, <3>1, <3>3
  <2> QED BY <2>2, <2>3
<1>8. CASE Dispatch BY <1>3, <1>4, <1>8 DEF Dispatch
<1>9. CASE Respond BY <1>4, <1>9 DEF Respond
<1>10. CASE Quit BY <1>3, <1>10 DEF Quit
<1>11. CASE Boot BY <1>3, <1>11 DEF Boot
<1>12. CASE UNCHANGED vars BY <1>3, <1>12 DEF vars
<1> QED BY <1>1, <1>2, <1>5, <1>6, <1>7, <1>8, <1>9, <1>10, <1>11, <1>12 DEF Next, Server

(* The two validators agree on every command line: what the process lets
   through, the receiver never refuses as too large, of an unknown type or with
   a bad field. *)
THEOREM ValidatorsAgree == Spec => []WireAgrees
<1>1. Init => WireInv BY DEF Init, WireInv, WireAgrees, EventsAccepted
<1>2. AgentInv /\ WireInv /\ [Next]_vars => WireInv' BY WireNext
<1>3. WireInv => WireAgrees BY DEF WireInv
<1> QED BY <1>1, <1>2, <1>3, AgentSafe, PTL DEF Spec
=============================================================================
