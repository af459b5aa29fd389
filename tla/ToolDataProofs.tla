--------------------------- MODULE ToolDataProofs ---------------------------
(***************************************************************************)
(* The pure parts of fetch and setup, for inputs of any length: paths stay *)
(* below their root, versions are what Semantic Versioning has them but    *)
(* for hyphens, a plan is the manifest with the artifacts of its own lock, *)
(* and extraction accepts the well-formed archives and makes of each the   *)
(* tree it says.                                                           *)
(***************************************************************************)
EXTENDS ToolArchive, ToolConfig, SequenceTheorems, FiniteSetTheorems, TLAPS

(* Prefixes and folds.  An induction over the prefixes of a sequence is stated
   with the set of the lengths that are good. *)

(* A set of numbers has a least one. *)
LEMMA NatMin ==
    ASSUME NEW T, T \subseteq Nat, T # {}
    PROVE  \E x \in T : \A y \in T : x <= y
<1> DEFINE R == {p \in Nat \X Nat : p[1] < p[2]}
<1>1. IsWellFoundedOn(R, Nat) BY NatLessThanWellFounded, Zenon DEF OpToRel
<1>2. \E x \in T : \A y \in T : ~ (<<y, x>> \in R)
  <2> HIDE DEF R
  <2> QED BY <1>1, WFMin, Zenon
<1>3. PICK x \in T : \A y \in T : ~ (<<y, x>> \in R) BY <1>2
<1>4. ASSUME NEW y \in T PROVE x <= y
  <2>1. <<y, x>> \notin R BY <1>3
  <2> QED BY <2>1
<1> QED BY <1>4

(* Induction over the prefixes of a sequence of n elements. *)
LEMMA PrefixInduction ==
    ASSUME NEW n \in Nat, NEW T, 0 \in T,
           \A k \in 1 .. n : k - 1 \in T => k \in T
    PROVE  0 .. n \subseteq T
<1> DEFINE Bad == {k \in 0 .. n : k \notin T}
<1> SUFFICES ASSUME Bad # {} PROVE FALSE OBVIOUS
<1>1. PICK k \in Bad : \A y \in Bad : k <= y
  <2>1. Bad \subseteq Nat OBVIOUS
  <2> HIDE DEF Bad
  <2> QED BY <2>1, NatMin
<1>2. k \in 1 .. n /\ k \notin T OBVIOUS
<1>3. k - 1 \in 0 .. n /\ k - 1 \notin Bad BY <1>1, <1>2
<1> QED BY <1>2, <1>3

(* The library takes a fold over an interval from its last element. *)
LEMMA MaxFacts ==
    ASSUME NEW n \in Nat, NEW s, s \subseteq 1 .. n, s # {}
    PROVE  Max(s) \in s /\ \A y \in s : Max(s) >= y
<1> DEFINE T == {n - x : x \in s}
<1>1. T \subseteq Nat /\ T # {}
  <2>1. \A x \in s : n - x \in Nat OBVIOUS
  <2> QED BY <2>1
<1>2. PICK t \in T : \A y \in T : t <= y
  <2> HIDE DEF T
  <2> QED BY <1>1, NatMin
<1>3. PICK m \in s : t = n - m OBVIOUS
<1>4. \A y \in s : m >= y BY <1>2, <1>3
<1> QED BY <1>4 DEF Max

(* The last element of a prefix. *)
LEMMA MaxOfPrefix ==
    ASSUME NEW k \in Nat \ {0}
    PROVE  Max(1 .. k) = k /\ (1 .. k) \ {Max(1 .. k)} = 1 .. k - 1
<1>1. Max(1 .. k) \in 1 .. k /\ \A y \in 1 .. k : Max(1 .. k) >= y
  <2>1. k \in 1 .. k OBVIOUS
  <2> QED BY <2>1, MaxFacts
<1>2. PICK m : m = Max(1 .. k) OBVIOUS
<1>3. m = k BY <1>1, <1>2
<1>4. (1 .. k) \ {k} = 1 .. k - 1 OBVIOUS
<1> QED BY <1>2, <1>3, <1>4

(* The table a fold is computed with has an entry for every set of positions;
   F is what the fold does with a value and a position. *)
TableStep(F, base, g, s) == IF s = {} THEN base ELSE F[<<g[s \ {Max(s)}], Max(s)>>]

TableOf(F, base, g, A, n) ==
    g \in [SUBSET (1 .. n) -> A] /\ \A s \in SUBSET (1 .. n) : g[s] = TableStep(F, base, g, s)

(* A fold over every set of positions is a table; each prefix has one. *)
LEMMA TableExists ==
    ASSUME NEW n \in Nat, NEW A, NEW base \in A, NEW F \in [A \X (1 .. n) -> A]
    PROVE  \E g : TableOf(F, base, g, A, n)
<1> DEFINE Table(g, k) == /\ g \in [SUBSET (1 .. k) -> A]
                          /\ \A s \in SUBSET (1 .. k) : g[s] = TableStep(F, base, g, s)
           T == {k \in 0 .. n : \E g : Table(g, k)}
<1>1. 0 \in T
  <2> DEFINE g == [s \in SUBSET (1 .. 0) |-> base]
  <2>1. Table(g, 0) BY DEF TableStep
  <2> HIDE DEF g, Table
  <2> QED BY <2>1
<1>2. ASSUME NEW k \in 1 .. n, k - 1 \in T PROVE k \in T
  <2>1. PICK g : Table(g, k - 1) BY <1>2
  <2> DEFINE V(s) == IF k \in s THEN F[<<g[s \ {k}], k>>] ELSE g[s]
             h == [s \in SUBSET (1 .. k) |-> V(s)]
  <2>2. ASSUME NEW s \in SUBSET (1 .. k) PROVE V(s) \in A /\ V(s) = TableStep(F, base, h, s)
    <3>1. CASE k \in s
      <4>1. Max(s) = k
        <5>1. \A i \in s : i <= k /\ i \in Int OBVIOUS
        <5>2. k \in Nat /\ s \subseteq 1 .. k /\ s # {} BY <3>1
        <5> HIDE DEF h
        <5>3. Max(s) \in s /\ \A y \in s : Max(s) >= y BY <5>2, MaxFacts
        <5>4. PICK m : m = Max(s) OBVIOUS
        <5>5. m \in s /\ m >= k BY <3>1, <5>3, <5>4
        <5>6. m = k BY <5>1, <5>5
        <5> QED BY <5>4, <5>6
      <4>2. s \ {k} \in SUBSET (1 .. k - 1) /\ s \ {k} \in SUBSET (1 .. k) /\ k \notin s \ {k} OBVIOUS
      <4>3. h[s \ {k}] = g[s \ {k}] BY <4>2
      <4>4. g[s \ {k}] \in A BY <2>1, <4>2
      <4>5. F[<<g[s \ {k}], k>>] \in A BY <4>4
      <4> HIDE DEF h, Table
      <4> QED BY <3>1, <4>1, <4>3, <4>5 DEF TableStep
    <3>2. CASE k \notin s
      <4>1. s \in SUBSET (1 .. k - 1) BY <3>2
      <4>2. g[s] = TableStep(F, base, g, s) /\ g[s] \in A BY <2>1, <4>1
      <4>3. s # {} => h[s \ {Max(s)}] = g[s \ {Max(s)}]
        <5>1. s \ {Max(s)} \in SUBSET (1 .. k) /\ k \notin s \ {Max(s)}
          <6>1. k \notin s \ {Max(s)} BY <3>2
          <6>2. s \ {Max(s)} \subseteq s OBVIOUS
          <6> HIDE DEF V, h
          <6> QED BY <6>1, <6>2
        <5> HIDE DEF V
        <5>2. h[s \ {Max(s)}] = V(s \ {Max(s)}) BY <5>1
        <5>3. V(s \ {Max(s)}) = g[s \ {Max(s)}] BY <5>1 DEF V
        <5> QED BY <5>2, <5>3
      <4> HIDE DEF h, Table
      <4> QED BY <3>2, <4>2, <4>3 DEF TableStep
    <3> QED BY <3>1, <3>2
  <2>3. Table(h, k)
    <3> HIDE DEF V
    <3> QED BY <2>2, Zenon
  <2> HIDE DEF h, Table
  <2> QED BY <2>3
<1>3. 0 .. n \subseteq T
  <2> HIDE DEF T
  <2> QED BY <1>1, <1>2, PrefixInduction
<1> HIDE DEF Table
<1>4. n \in T BY <1>3
<1>5. PICK g : Table(g, n) BY <1>4
<1> QED BY <1>5 DEF Table, TableOf

Tabled(F, base, g, A, n) ==
    /\ g[{}] = base
    /\ \A s \in SUBSET (1 .. n) : s # {} /\ Max(s) \in 1 .. n /\ g[s \ {Max(s)}] \in A =>
            g[s] = F[<<g[s \ {Max(s)}], Max(s)>>]

RunOf(F, base, r, g, A, n) ==
    /\ r \in [0 .. n -> A] /\ r[0] = base /\ r[n] = g[1 .. n]
    /\ \A k \in 1 .. n : r[k] = F[<<r[k - 1], k>>]

(* The values at the prefixes: a run from base, one step per position. *)
LEMMA TableRun ==
    ASSUME NEW n \in Nat, NEW A, NEW base \in A, NEW F \in [A \X (1 .. n) -> A], NEW g,
           Tabled(F, base, g, A, n)
    PROVE  \E r : RunOf(F, base, r, g, A, n)
<1> DEFINE T == {k \in 0 .. n : g[1 .. k] \in A}
           r == [k \in 0 .. n |-> g[1 .. k]]
<1>1. ASSUME NEW k \in 1 .. n, g[1 .. k - 1] \in A PROVE g[1 .. k] = F[<<g[1 .. k - 1], k>>]
  <2>1. k \in Nat \ {0} /\ 1 .. k \in SUBSET (1 .. n) /\ 1 .. k # {} OBVIOUS
  <2>2. Max(1 .. k) = k /\ (1 .. k) \ {Max(1 .. k)} = 1 .. k - 1 BY <2>1, MaxOfPrefix
  <2> QED BY <1>1, <2>1, <2>2 DEF Tabled
<1>2. 0 \in T
  <2>1. 1 .. 0 = {} OBVIOUS
  <2> QED BY <2>1 DEF Tabled
<1>3. ASSUME NEW k \in 1 .. n, k - 1 \in T PROVE k \in T
  <2>1. g[1 .. k] = F[<<g[1 .. k - 1], k>>] BY <1>1, <1>3
  <2> QED BY <1>3, <2>1
<1>4. 0 .. n \subseteq T
  <2> HIDE DEF T
  <2> QED BY <1>2, <1>3, PrefixInduction
<1>5. r \in [0 .. n -> A]
  <2>1. \A k \in 0 .. n : g[1 .. k] \in A BY <1>4
  <2> QED BY <2>1
<1>6. r[0] = base /\ r[n] = g[1 .. n]
  <2>1. 1 .. 0 = {} OBVIOUS
  <2> QED BY <2>1 DEF Tabled
<1>7. ASSUME NEW k \in 1 .. n PROVE r[k] = F[<<r[k - 1], k>>]
  <2>1. k \in 0 .. n /\ k - 1 \in 0 .. n OBVIOUS
  <2>2. g[1 .. k - 1] \in A BY <1>4, <2>1
  <2>3. g[1 .. k] = F[<<g[1 .. k - 1], k>>] BY <1>1, <2>2
  <2>4. r[k] = g[1 .. k] /\ r[k - 1] = g[1 .. k - 1] BY <2>1
  <2> QED BY <2>3, <2>4
<1> HIDE DEF r
<1> QED BY <1>5, <1>6, <1>7 DEF RunOf

CleanSteps(r, path, S) ==
    /\ r \in [0 .. Len(path) -> Seq(S)] /\ r[0] = <<>> /\ r[Len(path)] = Clean(path)
    /\ \A k \in 1 .. Len(path) : r[k] = Cleaned(r[k - 1], path[k])

(* Clean, one element of the path at a time. *)
LEMMA CleanRun ==
    ASSUME NEW S, NEW path \in Seq(S)
    PROVE  \E r : CleanSteps(r, path, S)
<1> DEFINE n == Len(path)
           A == Seq(S)
           base == <<>>
           Op(a, i) == Cleaned(a, path[i])
           F == [p \in A \X (1 .. n) |-> Op(p[1], p[2])]
           Eq(g) == g = [s \in SUBSET (1 .. n) |-> IF s = {} THEN base ELSE Op(g[s \ {Max(s)}], Max(s))]
           I == CHOOSE g : Eq(g)
<1>1. n \in Nat /\ DOMAIN path = 1 .. n OBVIOUS
<1>2. Clean(path) = I[1 .. n]
  <2>1. Clean(path) = (CHOOSE g : g = [s \in SUBSET DOMAIN path |->
                    IF s = {} THEN <<>> ELSE Cleaned(g[s \ {Max(s)}], path[Max(s)])])[DOMAIN path]
    BY DEF FoldLeft, MapThenFoldSet, Clean
  <2> QED BY <1>1, <2>1
<1>3. base \in A /\ \A a \in A, i \in 1 .. n : Op(a, i) \in A
  <2>1. ASSUME NEW a \in Seq(S), NEW s \in S PROVE Cleaned(a, s) \in Seq(S)
    <3>1. a # <<>> => Front(a) \in Seq(S) BY DEF Front
    <3>2. Append(a, s) \in Seq(S) OBVIOUS
    <3> QED BY <3>1, <3>2 DEF Cleaned
  <2>2. \A i \in 1 .. n : path[i] \in S OBVIOUS
  <2> HIDE DEF n
  <2> QED BY <2>1, <2>2
<1> HIDE DEF Op, A, base, n
<1>4. \A a \in A, i \in 1 .. n : F[<<a, i>>] = Op(a, i) BY <1>3
<1>c. base \in A /\ F \in [A \X (1 .. n) -> A] BY <1>3
<1>5. \E g : Eq(g)
  <2> HIDE DEF F
  <2>1. PICK g : TableOf(F, base, g, A, n) BY <1>1, <1>c, TableExists
  <2>2. ASSUME NEW s \in SUBSET (1 .. n)
        PROVE  g[s] = IF s = {} THEN base ELSE Op(g[s \ {Max(s)}], Max(s))
    <3>1. s # {} => Max(s) \in 1 .. n BY <1>1, MaxFacts
    <3>2. s \ {Max(s)} \in SUBSET (1 .. n) OBVIOUS
    <3>3. g[s \ {Max(s)}] \in A BY <2>1, <3>2 DEF TableOf
    <3> QED BY <1>4, <2>1, <3>1, <3>3 DEF TableOf, TableStep
  <2>3. g = [s \in SUBSET (1 .. n) |-> IF s = {} THEN base ELSE Op(g[s \ {Max(s)}], Max(s))]
    BY <2>1, <2>2 DEF TableOf
  <2> QED BY <2>3
<1>6. Eq(I)
  <2> HIDE DEF Eq
  <2> QED BY <1>5
<1> HIDE DEF I
<1>7. I[{}] = base BY <1>6
<1>8. ASSUME NEW s \in SUBSET (1 .. n), s # {} /\ Max(s) \in 1 .. n /\ I[s \ {Max(s)}] \in A
      PROVE  I[s] = F[<<I[s \ {Max(s)}], Max(s)>>]
  <2>1. I[s] = Op(I[s \ {Max(s)}], Max(s)) BY <1>6, <1>8
  <2> HIDE DEF F, Eq
  <2> QED BY <1>4, <1>8, <2>1
<1> HIDE DEF Eq, F
<1>t. Tabled(F, base, I, A, n) BY <1>7, <1>8 DEF Tabled
<1>9. PICK r : RunOf(F, base, r, I, A, n) BY <1>1, <1>c, <1>t, TableRun
<1>10. ASSUME NEW k \in 1 .. n PROVE r[k] = Op(r[k - 1], k)
  <2>1. k - 1 \in 0 .. n BY <1>1
  <2>2. r[k - 1] \in A BY <1>9, <2>1 DEF RunOf
  <2> QED BY <1>4, <1>9, <2>2 DEF RunOf
<1> QED BY <1>2, <1>9, <1>10 DEF RunOf, CleanSteps, n, A, base, Op

(* One step of Depth. *)
Walk(d, s) == IF d < 0 THEN d ELSE IF s = ".." THEN d - 1 ELSE IF s \in {"", "."} THEN d ELSE d + 1

DepthSteps(r, path, S) ==
    /\ r \in [0 .. Len(path) -> Int] /\ r[0] = 0 /\ r[Len(path)] = Depth(path)
    /\ \A k \in 1 .. Len(path) : r[k] = Walk(r[k - 1], path[k])

(* Depth likewise. *)
LEMMA DepthRun ==
    ASSUME NEW S, NEW path \in Seq(S)
    PROVE  \E r : DepthSteps(r, path, S)
<1> DEFINE n == Len(path)
           A == Int
           base == 0
           Op(a, i) == Walk(a, path[i])
           F == [p \in A \X (1 .. n) |-> Op(p[1], p[2])]
           Eq(g) == g = [s \in SUBSET (1 .. n) |-> IF s = {} THEN base ELSE Op(g[s \ {Max(s)}], Max(s))]
           I == CHOOSE g : Eq(g)
<1>1. n \in Nat /\ DOMAIN path = 1 .. n OBVIOUS
<1>2. Depth(path) = I[1 .. n]
  <2>1. Depth(path) = (CHOOSE g : g = [s \in SUBSET DOMAIN path |->
                    IF s = {} THEN 0 ELSE Walk(g[s \ {Max(s)}], path[Max(s)])])[DOMAIN path]
    BY DEF FoldLeft, MapThenFoldSet, Depth, Walk
  <2> QED BY <1>1, <2>1
<1>3. base \in A /\ \A a \in A, i \in 1 .. n : Op(a, i) \in A
  <2>1. ASSUME NEW a \in Int, NEW s PROVE Walk(a, s) \in Int
    <3>1. a - 1 \in Int /\ a + 1 \in Int OBVIOUS
    <3> QED BY <3>1, Zenon DEF Walk
  <2>2. 0 \in Int OBVIOUS
  <2> HIDE DEF n
  <2> QED BY <2>1, <2>2
<1> HIDE DEF Op, A, base, n
<1>4. \A a \in A, i \in 1 .. n : F[<<a, i>>] = Op(a, i) BY <1>3
<1>c. base \in A /\ F \in [A \X (1 .. n) -> A] BY <1>3
<1>5. \E g : Eq(g)
  <2> HIDE DEF F
  <2>1. PICK g : TableOf(F, base, g, A, n) BY <1>1, <1>c, TableExists
  <2>2. ASSUME NEW s \in SUBSET (1 .. n)
        PROVE  g[s] = IF s = {} THEN base ELSE Op(g[s \ {Max(s)}], Max(s))
    <3>1. s # {} => Max(s) \in 1 .. n BY <1>1, MaxFacts
    <3>2. s \ {Max(s)} \in SUBSET (1 .. n) OBVIOUS
    <3>3. g[s \ {Max(s)}] \in A BY <2>1, <3>2 DEF TableOf
    <3> QED BY <1>4, <2>1, <3>1, <3>3 DEF TableOf, TableStep
  <2>3. g = [s \in SUBSET (1 .. n) |-> IF s = {} THEN base ELSE Op(g[s \ {Max(s)}], Max(s))]
    BY <2>1, <2>2 DEF TableOf
  <2> QED BY <2>3
<1>6. Eq(I)
  <2> HIDE DEF Eq
  <2> QED BY <1>5
<1> HIDE DEF I
<1>7. I[{}] = base BY <1>6
<1>8. ASSUME NEW s \in SUBSET (1 .. n), s # {} /\ Max(s) \in 1 .. n /\ I[s \ {Max(s)}] \in A
      PROVE  I[s] = F[<<I[s \ {Max(s)}], Max(s)>>]
  <2>1. I[s] = Op(I[s \ {Max(s)}], Max(s)) BY <1>6, <1>8
  <2> HIDE DEF F, Eq
  <2> QED BY <1>4, <1>8, <2>1
<1> HIDE DEF Eq, F
<1>t. Tabled(F, base, I, A, n) BY <1>7, <1>8 DEF Tabled
<1>9. PICK r : RunOf(F, base, r, I, A, n) BY <1>1, <1>c, <1>t, TableRun
<1>10. ASSUME NEW k \in 1 .. n PROVE r[k] = Op(r[k - 1], k)
  <2>1. k - 1 \in 0 .. n BY <1>1
  <2>2. r[k - 1] \in A BY <1>9, <2>1 DEF RunOf
  <2> QED BY <1>4, <1>9, <2>2 DEF RunOf
<1> QED BY <1>2, <1>9, <1>10 DEF RunOf, DepthSteps, n, A, base, Op

-----------------------------------------------------------------------------
(* Paths. *)

Skipped(s) == s \in {"", "."}
Up(s) == s = ".."

(* One element is left out, takes one away, or is added. *)
LEMMA CleanedCases ==
    ASSUME NEW S, NEW a \in Seq(S), NEW s \in S
    PROVE  /\ Skipped(s) => Cleaned(a, s) = a
           /\ ~Skipped(s) /\ Up(s) /\ a # <<>> /\ ~Up(a[Len(a)]) =>
                Cleaned(a, s) \in Seq(S) /\ Len(Cleaned(a, s)) = Len(a) - 1
           /\ ~Skipped(s) /\ ~(Up(s) /\ a # <<>> /\ ~Up(a[Len(a)])) => Cleaned(a, s) = Append(a, s)
<1>1. Skipped(s) => Cleaned(a, s) = a BY DEF Skipped, Cleaned
<1>2. ~Skipped(s) /\ Up(s) /\ a # <<>> /\ ~Up(a[Len(a)]) => Cleaned(a, s) = SubSeq(a, 1, Len(a) - 1)
  BY DEF Skipped, Up, Cleaned, Last, Front
<1>3. ~Skipped(s) /\ ~(Up(s) /\ a # <<>> /\ ~Up(a[Len(a)])) => Cleaned(a, s) = Append(a, s)
  BY DEF Skipped, Up, Cleaned, Last
<1>4. a # <<>> => SubSeq(a, 1, Len(a) - 1) \in Seq(S) /\ Len(SubSeq(a, 1, Len(a) - 1)) = Len(a) - 1
  <2>1. a # <<>> => Len(a) \in Nat \ {0} /\ \A i \in 1 .. Len(a) - 1 : a[i] \in S OBVIOUS
  <2> SUFFICES ASSUME a # <<>>
        PROVE SubSeq(a, 1, Len(a) - 1) \in Seq(S) /\ Len(SubSeq(a, 1, Len(a) - 1)) = Len(a) - 1
    OBVIOUS
  <2>2. PICK m : m = Len(a) - 1 OBVIOUS
  <2>3. m \in Nat /\ \A i \in 1 .. m : a[i] \in S BY <2>1, <2>2
  <2>4. SubSeq(a, 1, m) \in Seq(S) /\ Len(SubSeq(a, 1, m)) = IF 1 <= m THEN m - 1 + 1 ELSE 0
    BY <2>3, SubSeqProperties
  <2> QED BY <2>2, <2>3, <2>4
<1> QED BY <1>1, <1>2, <1>3, <1>4

(* Cleaning shortens a path unless it keeps every segment. *)
LEMMA CleanKeeps ==
    ASSUME NEW S, NEW path \in Seq(S), Clean(path) = path, path # <<>>, ~Up(path[1])
    PROVE  \A k \in 1 .. Len(path) : ~Skipped(path[k]) /\ ~Up(path[k])
<1> DEFINE n == Len(path)
<1>1. PICK r : CleanSteps(r, path, S) BY CleanRun
<1>2. n \in Nat \ {0} /\ \A k \in 1 .. n : path[k] \in S OBVIOUS
<1>3. /\ \A k \in 0 .. n : r[k] \in Seq(S) /\ Len(r[k]) \in Nat
      /\ r[0] = <<>> /\ Len(r[0]) = 0 /\ r[n] = path /\ Len(r[n]) = n
  BY <1>1 DEF CleanSteps
<1>4. \A k \in 1 .. n : r[k] = Cleaned(r[k - 1], path[k]) BY <1>1 DEF CleanSteps
<1> HIDE DEF n
<1>5. ASSUME NEW k \in 1 .. n
      PROVE  /\ Len(r[k]) <= Len(r[k - 1]) + 1
             /\ Len(r[k]) = Len(r[k - 1]) + 1 =>
                  /\ ~Skipped(path[k]) /\ r[k] = Append(r[k - 1], path[k])
                  /\ ~(Up(path[k]) /\ r[k - 1] # <<>> /\ ~Up(r[k - 1][Len(r[k - 1])]))
  <2>1. k \in 0 .. n /\ k - 1 \in 0 .. n BY <1>2
  <2>2. PICK a \in Seq(S) : a = r[k - 1] BY <1>3, <2>1
  <2>3. PICK s \in S : s = path[k] BY <1>2
  <2>4. r[k] = Cleaned(a, s) BY <1>4, <2>2, <2>3
  <2>5. Len(a) \in Nat /\ Len(Append(a, s)) = Len(a) + 1 OBVIOUS
  <2> QED BY <2>2, <2>3, <2>4, <2>5, CleanedCases
<1>6. \A k \in 0 .. n : Len(r[k]) <= k
  <2> DEFINE T == {k \in 0 .. n : Len(r[k]) <= k}
  <2>1. 0 \in T BY <1>2, <1>3
  <2>2. ASSUME NEW k \in 1 .. n, k - 1 \in T PROVE k \in T
    <3>1. k \in 0 .. n /\ k - 1 \in 0 .. n BY <1>2
    <3> QED BY <1>3, <1>5, <2>2, <3>1
  <2>3. 0 .. n \subseteq T
    <3> HIDE DEF T
    <3> QED BY <1>2, <2>1, <2>2, PrefixInduction
  <2> QED BY <2>3
<1>7. \A k \in 0 .. n : Len(r[k]) >= k
  <2> DEFINE T == {j \in 0 .. n : Len(r[n - j]) >= n - j}
  <2>1. 0 \in T BY <1>2, <1>3
  <2>2. ASSUME NEW j \in 1 .. n, j - 1 \in T PROVE j \in T
    <3>1. n - j \in 0 .. n /\ n - (j - 1) \in 1 .. n /\ n - (j - 1) - 1 = n - j /\ n - (j - 1) \in 0 .. n
      BY <1>2
    <3>2. PICK k : k = n - (j - 1) OBVIOUS
    <3>3. Len(r[k]) <= Len(r[k - 1]) + 1 /\ Len(r[k]) >= k BY <1>5, <2>2, <3>1, <3>2
    <3>4. Len(r[k]) \in Nat /\ Len(r[k - 1]) \in Nat BY <1>3, <3>1, <3>2
    <3>5. k \in Nat /\ k - 1 = n - j BY <3>1, <3>2
    <3>6. Len(r[k - 1]) >= k - 1 BY <3>3, <3>4, <3>5
    <3> QED BY <3>5, <3>6, <1>2
  <2>3. 0 .. n \subseteq T
    <3> HIDE DEF T
    <3> QED BY <1>2, <2>1, <2>2, PrefixInduction
  <2>4. ASSUME NEW k \in 0 .. n PROVE Len(r[k]) >= k
    <3>1. n - k \in 0 .. n /\ n - (n - k) = k BY <1>2
    <3>2. n - k \in T BY <2>3, <3>1
    <3> QED BY <3>1, <3>2
  <2> QED BY <2>4
<1>8. \A k \in 0 .. n : Len(r[k]) = k
  <2>1. ASSUME NEW k \in 0 .. n PROVE Len(r[k]) = k
    <3>1. Len(r[k]) \in Nat /\ k \in Nat BY <1>2, <1>3
    <3> QED BY <1>6, <1>7, <3>1
  <2> QED BY <2>1
<1>9. ASSUME NEW k \in 1 .. n
      PROVE  /\ ~Skipped(path[k]) /\ r[k][k] = path[k]
             /\ ~(Up(path[k]) /\ k > 1 /\ ~Up(r[k - 1][k - 1]))
  <2>1. k \in 0 .. n /\ k - 1 \in 0 .. n /\ k - 1 \in Nat BY <1>2
  <2>2. Len(r[k]) = Len(r[k - 1]) + 1 /\ Len(r[k - 1]) = k - 1 BY <1>8, <2>1
  <2>3. r[k] = Append(r[k - 1], path[k]) /\ r[k - 1] \in Seq(S) /\ path[k] \in S BY <1>2, <1>3, <1>5, <2>1, <2>2
  <2>4. r[k][k] = path[k] BY <2>1, <2>2, <2>3
  <2>5. k > 1 => r[k - 1] # <<>> BY <2>1, <2>2, <2>3
  <2> QED BY <1>5, <2>2, <2>4, <2>5
<1>10. \A k \in 1 .. n : ~Up(path[k])
  <2> DEFINE T == {k \in 0 .. n : k > 0 => ~Up(path[k])}
  <2>1. 0 \in T BY <1>2
  <2>2. ASSUME NEW k \in 1 .. n, k - 1 \in T PROVE k \in T
    <3>1. CASE k = 1 BY <3>1, <1>2
    <3>2. CASE k > 1
      <4>1. k - 1 \in 1 .. n /\ k \in 0 .. n BY <3>2, <1>2
      <4>2. ~Up(path[k - 1]) BY <2>2, <4>1
      <4> QED BY <1>9, <3>2, <4>1, <4>2
    <3> QED BY <3>1, <3>2
  <2>3. 0 .. n \subseteq T
    <3> HIDE DEF T
    <3> QED BY <1>2, <2>1, <2>2, PrefixInduction
  <2> QED BY <2>3
<1> QED BY <1>9, <1>10 DEF n

(* A path of names that do not go up is as deep as it is long. *)
LEMMA DepthGrows ==
    ASSUME NEW S, NEW path \in Seq(S), path # <<>>, ~Skipped(path[1]),
           \A k \in 1 .. Len(path) : ~Up(path[k])
    PROVE  Depth(path) > 0
<1> DEFINE n == Len(path)
<1>1. PICK r : DepthSteps(r, path, S) BY DepthRun
<1>2. n \in Nat \ {0} OBVIOUS
<1>3. r \in [0 .. n -> Int] /\ r[0] = 0 /\ r[n] = Depth(path) BY <1>1 DEF DepthSteps
<1>4. ASSUME NEW k \in 1 .. n
      PROVE  r[k] = IF r[k - 1] < 0 \/ Skipped(path[k]) THEN r[k - 1] ELSE r[k - 1] + 1
  <2>1. r[k] = Walk(r[k - 1], path[k]) BY <1>1 DEF DepthSteps
  <2>2. PICK d : d = r[k - 1] OBVIOUS
  <2>3. PICK s : s = path[k] OBVIOUS
  <2>4. ~Up(s) BY <2>3
  <2>5. Walk(d, s) = IF d < 0 \/ Skipped(s) THEN d ELSE d + 1 BY <2>4 DEF Walk, Skipped, Up
  <2> QED BY <2>1, <2>2, <2>3, <2>5
<1> HIDE DEF n
<1> DEFINE T == {k \in 0 .. n : r[k] >= 0 /\ (k > 0 => r[k] > 0)}
<1>5. 0 \in T BY <1>2, <1>3
<1>6. ASSUME NEW k \in 1 .. n, k - 1 \in T PROVE k \in T
  <2>1. k \in Nat /\ k - 1 \in 0 .. n /\ k \in 0 .. n /\ r[k - 1] \in Int BY <1>2, <1>3
  <2>2. k = 1 \/ k - 1 > 0 BY <2>1
  <2>3. k = 1 => ~Skipped(path[k]) OBVIOUS
  <2> QED BY <1>3, <1>4, <1>6, <2>1, <2>2, <2>3
<1>7. 0 .. n \subseteq T
  <2> HIDE DEF T
  <2> QED BY <1>2, <1>5, <1>6, PrefixInduction
<1> QED BY <1>2, <1>3, <1>7

(* An empty segment, without the literal. *)
Nil(s) == s = ""

(* What is trimmed off a name is a tail of empty elements. *)
LEMMA TrimFacts ==
    ASSUME NEW S, NEW name \in Seq(S)
    PROVE  \E i \in 0 .. Len(name) :
              /\ TrimSlashes(name) = SubSeq(name, 1, i)
              /\ \A j \in i + 1 .. Len(name) : Nil(name[j])
              /\ i > 0 => ~Nil(name[i])
<1> DEFINE n == Len(name)
           Trimmed(i) == /\ \A j \in i + 1 .. n : Nil(name[j])
                         /\ i > 0 => ~Nil(name[i])
           T == {i \in 0 .. n : \A j \in i + 1 .. n : Nil(name[j])}
<1>1. n \in Nat OBVIOUS
<1> HIDE DEF n
<1>2. \E i \in 0 .. n : Trimmed(i)
  <2>1. T \subseteq Nat /\ n \in T BY <1>1
  <2>2. PICK i \in T : \A y \in T : i <= y
    <3> HIDE DEF T
    <3> QED BY <2>1, NatMin
  <2>3. ASSUME i > 0, Nil(name[i]) PROVE FALSE
    <3>1. i \in 1 .. n /\ i - 1 \in 0 .. n BY <1>1, <2>3
    <3>2. ASSUME NEW j \in (i - 1) + 1 .. n PROVE Nil(name[j])
      <4>1. j = i \/ j \in i + 1 .. n BY <1>1, <3>1
      <4> QED BY <2>3, <4>1
    <3>3. i - 1 \in T BY <3>1, <3>2
    <3>4. ~(i <= i - 1) BY <3>1
    <3> HIDE DEF T
    <3> QED BY <2>2, <3>3, <3>4
  <2> QED BY <2>3
<1>3. PICK i : i = CHOOSE x \in 0 .. n : Trimmed(x) OBVIOUS
<1>4. i \in 0 .. n /\ Trimmed(i)
  <2> HIDE DEF Trimmed
  <2> QED BY <1>2, <1>3
<1>5. TrimSlashes(name) = SubSeq(name, 1, i) BY <1>3 DEF TrimSlashes, Nil, n
<1> QED BY <1>4, <1>5 DEF n

(* A trimmed name begins as the name does, and has all its other elements. *)
LEMMA TrimmedPath ==
    ASSUME NEW S, NEW name \in Seq(S)
    PROVE  /\ TrimSlashes(name) \in Seq(S)
           /\ TrimSlashes(name) # <<>> =>
                /\ name # <<>> /\ TrimSlashes(name)[1] = name[1]
                /\ \A k \in 1 .. Len(name) :
                      Nil(name[k]) \/ (k \in 1 .. Len(TrimSlashes(name)) /\ TrimSlashes(name)[k] = name[k])
<1>1. PICK i \in 0 .. Len(name) :
        /\ TrimSlashes(name) = SubSeq(name, 1, i)
        /\ \A j \in i + 1 .. Len(name) : Nil(name[j])
        /\ i > 0 => ~Nil(name[i])
  BY TrimFacts
<1>2. PICK n : n = TrimSlashes(name) OBVIOUS
<1>3. /\ n \in Seq(S) /\ Len(n) = i /\ Len(name) \in Nat /\ i \in Nat
      /\ \A k \in 1 .. i : n[k] = name[k]
  BY <1>1, <1>2
<1>4. n # <<>> => i > 0 /\ name # <<>> BY <1>3
<1>5. \A k \in 1 .. Len(name) : k \in 1 .. i \/ k \in i + 1 .. Len(name) BY <1>3
<1> QED BY <1>1, <1>2, <1>3, <1>4, <1>5

(* A path that is accepted, of any segments and any length, does not lead above
   its root, and the checks of ValidateRepoPath and ContainedStagePath agree. *)
THEOREM PathsContained ==
    ASSUME NEW S, NEW path \in Seq(S)
    PROVE  PathContained(path)
<1>1. RepoPath(path) <=> StagePath(path)
  <2>1. path # <<>> /\ path[1] # ".." => path # <<"..">> OBVIOUS
  <2> QED BY <2>1 DEF RepoPath, StagePath
<1>2. ASSUME NEW p \in Seq(S), p # <<>>, Clean(p) = p, p[1] # ".."
      PROVE  ~Skipped(p[1]) /\ \A k \in 1 .. Len(p) : ~Skipped(p[k]) /\ ~Up(p[k])
  <2>1. ~Up(p[1]) BY <1>2 DEF Up
  <2>2. \A k \in 1 .. Len(p) : ~Skipped(p[k]) /\ ~Up(p[k]) BY <1>2, <2>1, CleanKeeps
  <2>3. 1 \in 1 .. Len(p) BY <1>2
  <2> QED BY <2>2, <2>3
<1>3. RepoPath(path) => Depth(path) > 0
  <2> SUFFICES ASSUME RepoPath(path) PROVE Depth(path) > 0 OBVIOUS
  <2>1. path # <<>> /\ Clean(path) = path /\ path[1] # ".." BY DEF RepoPath
  <2> QED BY <1>2, <2>1, DepthGrows
<1>4. CleanName(path) => Depth(path) > 0
  <2> SUFFICES ASSUME CleanName(path) PROVE Depth(path) > 0 OBVIOUS
  <2>1. PICK n : n = TrimSlashes(path) OBVIOUS
  <2>2. n # <<>> /\ Clean(n) = n /\ n[1] # ".." BY <2>1 DEF CleanName
  <2>3. /\ n \in Seq(S) /\ path # <<>> /\ n[1] = path[1]
        /\ \A k \in 1 .. Len(path) : Nil(path[k]) \/ (k \in 1 .. Len(n) /\ n[k] = path[k])
    BY <2>1, <2>2, TrimmedPath
  <2>4. ~Skipped(n[1]) /\ \A k \in 1 .. Len(n) : ~Up(n[k]) BY <1>2, <2>2, <2>3
  <2>5. \A s : Nil(s) => ~Up(s) BY DEF Nil, Up
  <2>6. \A k \in 1 .. Len(path) : ~Up(path[k]) BY <2>3, <2>4, <2>5
  <2> QED BY <2>3, <2>4, <2>6, DepthGrows
<1> QED BY <1>1, <1>3, <1>4 DEF PathContained

-----------------------------------------------------------------------------
(* Splitting at a separator. *)

Words(C) == Seq(Seq(C)) \ {<<>>}

(* A character ends the last word or goes to its end. *)
LEMMA AddToFacts ==
    ASSUME NEW C, NEW parts \in Words(C), NEW c \in C, NEW sep
    PROVE  /\ AddTo(parts, c, sep) \in Words(C)
           /\ c = sep => AddTo(parts, c, sep) = Append(parts, <<>>)
           /\ c # sep => /\ Len(AddTo(parts, c, sep)) = Len(parts)
                         /\ \A i \in 1 .. Len(parts) :
                              AddTo(parts, c, sep)[i] = IF i = Len(parts) THEN Append(parts[i], c) ELSE parts[i]
<1>1. parts \in Seq(Seq(C)) /\ Len(parts) \in 1 .. Len(parts) /\ parts[Len(parts)] \in Seq(C) BY DEF Words
<1>2. Append(parts[Len(parts)], c) \in Seq(C) BY <1>1
<1>3. PICK e : e = Append(parts[Len(parts)], c) OBVIOUS
<1>4. PICK m : m = Len(parts) OBVIOUS
<1>5. /\ [parts EXCEPT ![m] = e] \in Seq(Seq(C)) /\ Len([parts EXCEPT ![m] = e]) = m
      /\ \A j \in 1 .. m : [parts EXCEPT ![m] = e][j] = IF j = m THEN e ELSE parts[j]
  BY <1>1, <1>2, <1>3, <1>4, ExceptSeq
<1>6. CASE c = sep
  <2>1. AddTo(parts, c, sep) = Append(parts, <<>>) BY <1>6 DEF AddTo
  <2>2. Append(parts, <<>>) \in Seq(Seq(C)) /\ Append(parts, <<>>) # <<>> BY <1>1
  <2> QED BY <1>6, <2>1, <2>2 DEF Words
<1>7. CASE c # sep
  <2>1. AddTo(parts, c, sep) = [parts EXCEPT ![m] = e] BY <1>3, <1>4, <1>7 DEF AddTo
  <2>2. m \in Nat \ {0} BY <1>1, <1>4
  <2>3. [parts EXCEPT ![m] = e] # <<>> BY <1>5, <2>2
  <2> QED BY <1>3, <1>4, <1>5, <1>7, <2>1, <2>3 DEF Words
<1> QED BY <1>6, <1>7

SplitSteps(r, s, sep, C) ==
    /\ r \in [0 .. Len(s) -> Words(C)] /\ r[0] = << <<>> >> /\ r[Len(s)] = Split(s, sep)
    /\ \A k \in 1 .. Len(s) : r[k] = AddTo(r[k - 1], s[k], sep)

(* Split, one character at a time. *)
LEMMA SplitRun ==
    ASSUME NEW C, NEW s \in Seq(C), NEW sep
    PROVE  \E r : SplitSteps(r, s, sep, C)
<1> DEFINE n == Len(s)
           A == Words(C)
           base == << <<>> >>
           Op(a, i) == AddTo(a, s[i], sep)
           F == [p \in A \X (1 .. n) |-> Op(p[1], p[2])]
           Eq(g) == g = [t \in SUBSET (1 .. n) |-> IF t = {} THEN base ELSE Op(g[t \ {Max(t)}], Max(t))]
           I == CHOOSE g : Eq(g)
<1>1. n \in Nat /\ DOMAIN s = 1 .. n OBVIOUS
<1>2. Split(s, sep) = I[1 .. n]
  <2>1. Split(s, sep) = (CHOOSE g : g = [t \in SUBSET DOMAIN s |->
                    IF t = {} THEN << <<>> >> ELSE AddTo(g[t \ {Max(t)}], s[Max(t)], sep)])[DOMAIN s]
    BY DEF FoldLeft, MapThenFoldSet, Split
  <2> QED BY <1>1, <2>1
<1>3. base \in A /\ \A a \in A, i \in 1 .. n : Op(a, i) \in A
  <2>1. \A a \in Words(C), c \in C : AddTo(a, c, sep) \in Words(C) BY AddToFacts
  <2>2. \A i \in 1 .. n : s[i] \in C OBVIOUS
  <2>3. << <<>> >> \in Words(C) BY DEF Words
  <2> HIDE DEF n
  <2> QED BY <2>1, <2>2, <2>3
<1> HIDE DEF Op, A, base, n
<1>4. \A a \in A, i \in 1 .. n : F[<<a, i>>] = Op(a, i) BY <1>3
<1>c. base \in A /\ F \in [A \X (1 .. n) -> A] BY <1>3
<1>5. \E g : Eq(g)
  <2> HIDE DEF F
  <2>1. PICK g : TableOf(F, base, g, A, n) BY <1>1, <1>c, TableExists
  <2>2. ASSUME NEW t \in SUBSET (1 .. n)
        PROVE  g[t] = IF t = {} THEN base ELSE Op(g[t \ {Max(t)}], Max(t))
    <3>1. t # {} => Max(t) \in 1 .. n BY <1>1, MaxFacts
    <3>2. t \ {Max(t)} \in SUBSET (1 .. n) OBVIOUS
    <3>3. g[t \ {Max(t)}] \in A BY <2>1, <3>2 DEF TableOf
    <3> QED BY <1>4, <2>1, <3>1, <3>3 DEF TableOf, TableStep
  <2>3. g = [t \in SUBSET (1 .. n) |-> IF t = {} THEN base ELSE Op(g[t \ {Max(t)}], Max(t))]
    BY <2>1, <2>2 DEF TableOf
  <2> QED BY <2>3
<1>6. Eq(I)
  <2> HIDE DEF Eq
  <2> QED BY <1>5
<1> HIDE DEF I
<1>7. I[{}] = base BY <1>6
<1>8. ASSUME NEW t \in SUBSET (1 .. n), t # {} /\ Max(t) \in 1 .. n /\ I[t \ {Max(t)}] \in A
      PROVE  I[t] = F[<<I[t \ {Max(t)}], Max(t)>>]
  <2>1. I[t] = Op(I[t \ {Max(t)}], Max(t)) BY <1>6, <1>8
  <2> HIDE DEF F, Eq
  <2> QED BY <1>4, <1>8, <2>1
<1> HIDE DEF Eq, F
<1>t. Tabled(F, base, I, A, n) BY <1>7, <1>8 DEF Tabled
<1>9. PICK r : RunOf(F, base, r, I, A, n) BY <1>1, <1>c, <1>t, TableRun
<1>10. ASSUME NEW k \in 1 .. n PROVE r[k] = Op(r[k - 1], k)
  <2>1. k - 1 \in 0 .. n BY <1>1
  <2>2. r[k - 1] \in A BY <1>9, <2>1 DEF RunOf
  <2> QED BY <1>4, <1>9, <2>2 DEF RunOf
<1> QED BY <1>2, <1>9, <1>10 DEF RunOf, SplitSteps, n, A, base, Op

-----------------------------------------------------------------------------
(* Where a separator is first, and what is before and after it. *)

IsFirst(f, s, c) ==
    f \in 1 .. Len(s) + 1 /\ (f <= Len(s) => s[f] = c) /\ \A j \in 1 .. f - 1 : s[j] # c

(* The first place of a separator, or the place after the last character. *)
LEMMA FirstFacts ==
    ASSUME NEW C, NEW s \in Seq(C), NEW c
    PROVE  IsFirst(FirstOf(s, c), s, c)
<1> DEFINE n == Len(s)
           T == {i \in 1 .. n + 1 : i > n \/ s[i] = c}
           Found(i) == (i > n \/ s[i] = c) /\ \A j \in 1 .. i - 1 : s[j] # c
<1>1. n \in Nat OBVIOUS
<1> HIDE DEF n
<1>2. \E i \in 1 .. n + 1 : Found(i)
  <2>1. T \subseteq Nat /\ n + 1 \in T BY <1>1
  <2>2. PICK i \in T : \A y \in T : i <= y
    <3> HIDE DEF T
    <3> QED BY <2>1, NatMin
  <2>3. ASSUME NEW j \in 1 .. i - 1 PROVE s[j] # c
    <3>1. j \in 1 .. n + 1 /\ ~(i <= j) BY <1>1
    <3>2. j \notin T
      <4> HIDE DEF T
      <4> QED BY <2>2, <3>1
    <3> QED BY <3>1, <3>2
  <2> QED BY <2>3
<1>3. PICK f : f = CHOOSE i \in 1 .. n + 1 : Found(i) OBVIOUS
<1>4. f \in 1 .. n + 1 /\ Found(f)
  <2> HIDE DEF Found
  <2> QED BY <1>2, <1>3
<1>5. FirstOf(s, c) = f BY <1>3 DEF FirstOf, n
<1> QED BY <1>1, <1>4, <1>5 DEF IsFirst, n

(* b and a are what is before and after the first c. *)
CutAt(f, s, c, b, a, C) ==
    /\ IsFirst(f, s, c) /\ b \in Seq(C) /\ a \in Seq(C)
    /\ Len(b) = f - 1 /\ \A i \in 1 .. f - 1 : b[i] = s[i]
    /\ f <= Len(s) => Len(a) = Len(s) - f /\ \A i \in 1 .. Len(s) - f : a[i] = s[f + i]
    /\ f > Len(s) => a = <<>> /\ b = s
    /\ f <= Len(s) <=> c \in Range(s)

(* Cut gives what is before the first separator and what is after it. *)
LEMMA CutFacts ==
    ASSUME NEW C, NEW s \in Seq(C), NEW c
    PROVE  CutAt(FirstOf(s, c), s, c, Before(s, c), After(s, c), C)
<1>1. PICK f : f = FirstOf(s, c) OBVIOUS
<1>2. PICK n \in Nat : n = Len(s) OBVIOUS
<1>3. IsFirst(f, s, c) BY <1>1, FirstFacts
<1>4. f \in 1 .. n + 1 /\ (f <= n => s[f] = c) /\ \A j \in 1 .. f - 1 : s[j] # c BY <1>2, <1>3 DEF IsFirst
<1>5. PICK b : b = SubSeq(s, 1, f - 1) OBVIOUS
<1>6. PICK a : a = SubSeq(s, f + 1, n) OBVIOUS
<1>7. \A i \in 1 .. n : s[i] \in C BY <1>2
<1>8. b \in Seq(C) /\ Len(b) = f - 1 /\ \A i \in 1 .. f - 1 : b[i] = s[i]
  <2>1. \A i \in 1 .. f - 1 : s[i] \in C /\ 1 + i - 1 = i BY <1>4, <1>7
  <2>2. /\ b \in Seq(C) /\ Len(b) = (IF 1 <= f - 1 THEN f - 1 - 1 + 1 ELSE 0)
        /\ \A i \in 1 .. f - 1 - 1 + 1 : b[i] = s[1 + i - 1]
    BY <1>4, <1>5, <2>1, SubSeqProperties
  <2> QED BY <1>4, <2>1, <2>2
<1>9. /\ a \in Seq(C)
      /\ f <= n => Len(a) = n - f /\ \A i \in 1 .. n - f : a[i] = s[f + i]
      /\ f > n => a = <<>>
  <2>1. \A i \in f + 1 .. n : s[i] \in C BY <1>4, <1>7
  <2>2. /\ a \in Seq(C) /\ Len(a) = (IF f + 1 <= n THEN n - (f + 1) + 1 ELSE 0)
        /\ \A i \in 1 .. n - (f + 1) + 1 : a[i] = s[f + 1 + i - 1]
    BY <1>4, <1>6, <2>1, SubSeqProperties
  <2>3. \A i \in 1 .. n - f : i \in 1 .. n - (f + 1) + 1 /\ f + 1 + i - 1 = f + i BY <1>4
  <2>4. f > n => a = <<>> BY <1>4, <2>2
  <2> QED BY <1>4, <2>2, <2>3, <2>4
<1>10. f > n => b = s
  <2>1. SubSeq(s, 1, n) = s BY <1>2, SubSeqFull
  <2>2. f > n => f - 1 = n BY <1>4
  <2> QED BY <1>5, <2>1, <2>2
<1>11. f <= n <=> c \in Range(s)
  <2>1. Range(s) = {s[i] : i \in 1 .. n} BY <1>2, RangeEquality
  <2>2. f <= n => f \in 1 .. n /\ s[f] = c BY <1>4
  <2>3. ASSUME NEW i \in 1 .. n, s[i] = c PROVE f <= n
    <3>1. i \notin 1 .. f - 1 BY <1>4, <2>3
    <3> QED BY <1>4, <3>1
  <2> QED BY <2>1, <2>2, <2>3
<1>12. Before(s, c) = b /\ After(s, c) = a BY <1>1, <1>2, <1>5, <1>6 DEF Before, After
<1> QED BY <1>1, <1>2, <1>3, <1>8, <1>9, <1>10, <1>11, <1>12 DEF CutAt

(* The first part of a split ends at the first separator; there is a second
   part if there is a separator, and a third one if there is a separator after it. *)
SplitAt(p, s, sep, b, a, C) ==
    /\ p \in Words(C) /\ p[1] = b
    /\ Len(p) = 1 <=> sep \notin Range(s)
    /\ Len(p) <= 2 <=> sep \notin Range(a)
    /\ Len(p) = 2 => p[2] = a

(* The first word of a split ends at the first separator. *)
LEMMA SplitFacts ==
    ASSUME NEW C, NEW s \in Seq(C), NEW sep
    PROVE  SplitAt(Split(s, sep), s, sep, Before(s, sep), After(s, sep), C)
<1> DEFINE n == Len(s)
<1>1. PICK r : SplitSteps(r, s, sep, C) BY SplitRun
<1>2. PICK f : f = FirstOf(s, sep) OBVIOUS
<1>3. PICK b : b = Before(s, sep) OBVIOUS
<1>4. PICK a : a = After(s, sep) OBVIOUS
<1>5. CutAt(f, s, sep, b, a, C) BY <1>2, <1>3, <1>4, CutFacts
<1>6. n \in Nat /\ \A k \in 1 .. n : s[k] \in C OBVIOUS
<1>7. /\ \A k \in 0 .. n : r[k] \in Words(C)
      /\ r[0] = << <<>> >> /\ r[n] = Split(s, sep)
      /\ \A k \in 1 .. n : r[k] = AddTo(r[k - 1], s[k], sep)
  BY <1>1 DEF SplitSteps
<1>8. /\ f \in 1 .. n + 1 /\ (f <= n => s[f] = sep) /\ \A j \in 1 .. f - 1 : s[j] # sep
      /\ f <= n <=> sep \in Range(s)
  BY <1>5 DEF CutAt, IsFirst
<1>9. /\ b \in Seq(C) /\ a \in Seq(C) /\ Len(b) = f - 1 /\ \A i \in 1 .. f - 1 : b[i] = s[i]
      /\ f <= n => Len(a) = n - f /\ \A i \in 1 .. n - f : a[i] = s[f + i]
      /\ f > n => a = <<>> /\ b = s
  BY <1>5 DEF CutAt
<1> HIDE DEF n
<1> DEFINE First(k) == /\ Len(r[k][1]) = (IF k < f THEN k ELSE f - 1)
                       /\ \A i \in 1 .. f - 1 : i <= k => r[k][1][i] = s[i]
           Free(k) == \A j \in f + 1 .. k : s[j] # sep
           Second(k) == Len(r[k][2]) = k - f /\ \A i \in 1 .. k - f : r[k][2][i] = s[f + i]
           Good(k) == /\ First(k)
                      /\ k < f => Len(r[k]) = 1
                      /\ k >= f => IF Free(k) THEN Len(r[k]) = 2 /\ Second(k) ELSE Len(r[k]) >= 3
           T == {k \in 0 .. n : Good(k)}
<1>10. 0 \in T
  <2>1. r[0][1] = <<>> /\ Len(r[0]) = 1 BY <1>7
  <2>2. First(0)
    <3>1. 0 < f /\ Len(r[0][1]) = 0 BY <1>8, <2>1
    <3>2. \A i \in 1 .. f - 1 : ~(i <= 0) BY <1>8
    <3> QED BY <3>1, <3>2
  <2>3. 0 < f /\ ~(0 >= f) /\ 0 \in 0 .. n BY <1>6, <1>8
  <2> HIDE DEF First, Second, Free
  <2> QED BY <2>1, <2>2, <2>3
<1>11. ASSUME NEW k \in 1 .. n, k - 1 \in T PROVE k \in T
  <2>1. k \in 0 .. n /\ k - 1 \in 0 .. n /\ k - 1 \in Nat /\ k \in Nat \ {0} BY <1>6
  <2>2. PICK p \in Words(C) : p = r[k - 1] BY <1>7, <2>1
  <2>3. PICK q \in Words(C) : q = r[k] BY <1>7, <2>1
  <2>4. PICK c \in C : c = s[k] BY <1>6
  <2>5. q = AddTo(p, c, sep) BY <1>7, <2>2, <2>3, <2>4
  <2>6. /\ c = sep => q = Append(p, <<>>)
        /\ c # sep => /\ Len(q) = Len(p)
                      /\ \A i \in 1 .. Len(p) : q[i] = IF i = Len(p) THEN Append(p[i], c) ELSE p[i]
    BY <2>5, AddToFacts
  <2>7. p \in Seq(Seq(C)) /\ Len(p) \in Nat \ {0} /\ \A i \in 1 .. Len(p) : p[i] \in Seq(C) BY DEF Words
  <2>8. Good(k - 1) BY <1>11
  <2>9. Free(k) <=> Free(k - 1) /\ (k > f => c # sep)
    <3>1. \A j \in f + 1 .. k : j \in f + 1 .. k - 1 \/ (j = k /\ k > f) BY <1>8, <2>1
    <3>2. f + 1 .. k - 1 \subseteq f + 1 .. k /\ (k > f => k \in f + 1 .. k) BY <1>8, <2>1
    <3> QED BY <2>4, <3>1, <3>2
  <2>10. (k < f => c # sep) /\ (k = f => c = sep) BY <1>8, <2>1, <2>4
  <2>11. CASE c = sep
    <3>1. /\ Len(q) = Len(p) + 1 /\ q[Len(p) + 1] = <<>> /\ \A i \in 1 .. Len(p) : q[i] = p[i]
      <4>1. q = Append(p, <<>>) BY <2>6, <2>11
      <4>2. p \in Seq(Seq(C)) /\ <<>> \in Seq(C) BY <2>7
      <4> QED BY <4>1, <4>2, AppendProperties
    <3>2. k >= f BY <1>8, <2>1, <2>10, <2>11
    <3>3. First(k)
      <4>1. q[1] = p[1] BY <2>7, <3>1
      <4>2. /\ Len(p[1]) = (IF k - 1 < f THEN k - 1 ELSE f - 1)
            /\ \A i \in 1 .. f - 1 : i <= k - 1 => p[1][i] = s[i]
        BY <2>2, <2>8
      <4>3. (IF k - 1 < f THEN k - 1 ELSE f - 1) = f - 1 BY <1>8, <2>1, <3>2
      <4>4. \A i \in 1 .. f - 1 : i <= k - 1 BY <1>8, <2>1, <3>2
      <4> QED BY <1>8, <2>1, <2>3, <3>2, <4>1, <4>2, <4>3, <4>4
    <3>4. CASE k = f
      <4>1. Len(p) = 1 BY <1>8, <2>1, <2>2, <2>8, <3>4
      <4>2. Free(k) /\ Len(q) = 2 /\ q[2] = <<>> BY <1>8, <2>1, <3>1, <3>4, <4>1
      <4>3. Second(k) BY <1>8, <2>3, <3>4, <4>2
      <4> HIDE DEF First, Second, Free
      <4> QED BY <1>8, <2>1, <2>3, <3>3, <3>4, <4>2, <4>3
    <3>5. CASE k > f
      <4>1. ~Free(k) BY <2>9, <2>11, <3>5
      <4>2. Len(p) >= 2
        <5>1. k - 1 >= f /\ ~(k - 1 < f) BY <1>8, <2>1, <3>5
        <5>2. IF Free(k - 1) THEN Len(p) = 2 /\ Second(k - 1) ELSE Len(p) >= 3
          <6> HIDE DEF First, Second, Free
          <6> QED BY <2>2, <2>8, <5>1
        <5>3. PICK m : m = Len(p) OBVIOUS
        <5>4. m = 2 \/ m >= 3
          <6> HIDE DEF First, Second, Free
          <6> QED BY <5>2, <5>3
        <5>5. m >= 2 BY <2>7, <5>3, <5>4
        <5> QED BY <5>3, <5>5
      <4>3. Len(q) >= 3 BY <2>7, <3>1, <4>2
      <4> HIDE DEF First, Second, Free
      <4> QED BY <1>8, <2>1, <2>3, <3>3, <3>5, <4>1, <4>3
    <3> HIDE DEF T
    <3>6. k = f \/ k > f BY <1>8, <2>1, <3>2
    <3> QED BY <3>4, <3>5, <3>6
  <2>12. CASE c # sep
    <3>1. /\ Len(q) = Len(p)
          /\ \A i \in 1 .. Len(p) : q[i] = IF i = Len(p) THEN Append(p[i], c) ELSE p[i]
      BY <2>6, <2>12
    <3>2. k # f BY <2>10, <2>12
    <3>3. CASE k < f
      <4>1. Len(p) = 1 /\ Len(p[1]) = k - 1 /\ \A i \in 1 .. f - 1 : i <= k - 1 => p[1][i] = s[i]
        BY <1>8, <2>1, <2>2, <2>8, <3>3
      <4>2. q[1] = Append(p[1], c) /\ p[1] \in Seq(C) BY <2>7, <3>1, <4>1
      <4>3. Len(q[1]) = k /\ q[1][k] = s[k] /\ \A i \in 1 .. k - 1 : q[1][i] = p[1][i] BY <2>1, <2>4, <4>1, <4>2
      <4>4. \A i \in 1 .. f - 1 : i <= k => i = k \/ i \in 1 .. k - 1 BY <1>8, <2>1
      <4>5. First(k) BY <1>8, <2>1, <2>3, <3>3, <4>1, <4>3, <4>4
      <4>6. Len(q) = 1 BY <3>1, <4>1
      <4> HIDE DEF First, Second, Free
      <4> QED BY <1>8, <2>1, <2>3, <3>3, <4>5, <4>6
    <3>4. CASE k > f
      <4>1. k - 1 >= f /\ ~(k - 1 < f) /\ ~(k < f) /\ k >= f BY <1>8, <2>1, <3>4
      <4>2. First(k - 1) /\ IF Free(k - 1) THEN Len(p) = 2 /\ Second(k - 1) ELSE Len(p) >= 3
        <5> HIDE DEF First, Second, Free
        <5> QED BY <2>2, <2>8, <4>1
      <4>3. Free(k) <=> Free(k - 1) BY <2>9, <2>12
      <4>4. Len(p) >= 2
        <5>1. PICK m : m = Len(p) OBVIOUS
        <5>2. m = 2 \/ m >= 3
          <6> HIDE DEF First, Second, Free
          <6> QED BY <4>2, <5>1
        <5>3. m >= 2 BY <2>7, <5>1, <5>2
        <5> QED BY <5>1, <5>3
      <4>5. q[1] = p[1] BY <2>7, <3>1, <4>4
      <4>6. First(k)
        <5>1. Len(p[1]) = f - 1 /\ \A i \in 1 .. f - 1 : i <= k - 1 => p[1][i] = s[i] BY <2>2, <4>1, <4>2
        <5>2. \A i \in 1 .. f - 1 : i <= k - 1 BY <1>8, <2>1, <4>1
        <5> QED BY <2>3, <4>1, <4>5, <5>1, <5>2
      <4>7. CASE Free(k - 1)
        <5>1. Len(p) = 2 /\ Len(p[2]) = k - 1 - f /\ \A i \in 1 .. k - 1 - f : p[2][i] = s[f + i]
          BY <2>2, <4>2, <4>7
        <5>2. q[2] = Append(p[2], c) /\ p[2] \in Seq(C) /\ Len(q) = 2 BY <2>7, <3>1, <5>1
        <5>3. /\ Len(q[2]) = k - f /\ q[2][k - f] = c
              /\ \A i \in 1 .. k - 1 - f : q[2][i] = p[2][i]
          BY <1>8, <2>1, <5>1, <5>2
        <5>4. \A i \in 1 .. k - f : i \in 1 .. k - 1 - f \/ (i = k - f /\ f + i = k) BY <1>8, <2>1
        <5>5. Second(k) BY <2>3, <2>4, <5>1, <5>3, <5>4
        <5> HIDE DEF First, Second, Free
        <5> QED BY <1>8, <2>1, <2>3, <4>1, <4>3, <4>6, <4>7, <5>2, <5>5
      <4>8. CASE ~Free(k - 1)
        <5> HIDE DEF First, Second, Free
        <5> QED BY <1>8, <2>1, <2>3, <3>1, <4>1, <4>2, <4>3, <4>6, <4>8
      <4> HIDE DEF T, Free
      <4> QED BY <4>7, <4>8
    <3> HIDE DEF T
    <3>5. k < f \/ k > f BY <1>8, <2>1, <3>2
    <3> QED BY <3>3, <3>4, <3>5
  <2> HIDE DEF T
  <2> QED BY <2>11, <2>12
<1>12. 0 .. n \subseteq T
  <2> HIDE DEF T
  <2> QED BY <1>6, <1>10, <1>11, PrefixInduction
<1>13. Good(n)
  <2>1. n \in 0 .. n BY <1>6
  <2> HIDE DEF Good
  <2> QED BY <1>12, <2>1
<1>14. PICK p : p = Split(s, sep) OBVIOUS
<1>15. p = r[n] /\ p \in Words(C) /\ p[1] \in Seq(C)
  <2>1. n \in 0 .. n BY <1>6
  <2>2. p = r[n] /\ p \in Words(C) BY <1>7, <1>14, <2>1
  <2>3. Len(p) \in Nat \ {0} /\ p \in Seq(Seq(C)) BY <2>2 DEF Words
  <2> QED BY <2>2, <2>3
<1>16. p[1] = b
  <2>1. Len(p[1]) = f - 1
    <3>1. Len(p[1]) = (IF n < f THEN n ELSE f - 1) BY <1>13, <1>15
    <3> QED BY <1>6, <1>8, <3>1
  <2>2. \A i \in 1 .. f - 1 : p[1][i] = s[i]
    <3>1. First(n)
      <4> HIDE DEF First, Second, Free
      <4> QED BY <1>13
    <3>2. \A i \in 1 .. f - 1 : i <= n BY <1>6, <1>8
    <3> QED BY <1>15, <3>1, <3>2
  <2> QED BY <1>9, <1>15, <2>1, <2>2, SeqEqual
<1>17. f <= n => (Free(n) <=> sep \notin Range(a))
  <2> SUFFICES ASSUME f <= n PROVE Free(n) <=> sep \notin Range(a) OBVIOUS
  <2>1. Len(a) = n - f /\ Range(a) = {a[i] : i \in 1 .. Len(a)} BY <1>9, RangeEquality
  <2>2. Range(a) = {s[f + i] : i \in 1 .. n - f} BY <1>9, <2>1
  <2>3. \A j \in f + 1 .. n : j - f \in 1 .. n - f /\ f + (j - f) = j BY <1>6, <1>8
  <2>4. \A i \in 1 .. n - f : f + i \in f + 1 .. n BY <1>6, <1>8
  <2>5. ASSUME Free(n), NEW i \in 1 .. n - f PROVE s[f + i] # sep BY <2>4, <2>5
  <2>6. ASSUME sep \notin Range(a), NEW j \in f + 1 .. n PROVE s[j] # sep
    <3>1. s[f + (j - f)] \in Range(a) BY <2>2, <2>3
    <3> QED BY <2>3, <2>6, <3>1
  <2> QED BY <2>2, <2>5, <2>6
<1>18. f > n => sep \notin Range(a)
  <2> SUFFICES ASSUME f > n PROVE sep \notin Range(a) OBVIOUS
  <2>1. a = <<>> /\ a \in Seq(C) BY <1>9
  <2>2. DOMAIN a = {} BY <2>1
  <2> QED BY <2>2 DEF Range
<1>19. Len(p) = 2 => p[2] = a
  <2> SUFFICES ASSUME Len(p) = 2 PROVE p[2] = a OBVIOUS
  <2>1. f <= n /\ Second(n)
    <3>1. n < f => Len(p) = 1
      <4> HIDE DEF First, Second, Free
      <4> QED BY <1>13, <1>15
    <3>2. n >= f => IF Free(n) THEN Len(p) = 2 /\ Second(n) ELSE Len(p) >= 3
      <4> HIDE DEF First, Second, Free
      <4> QED BY <1>13, <1>15
    <3>3. n >= f BY <1>6, <1>8, <3>1
    <3> HIDE DEF First, Second, Free
    <3> QED BY <1>6, <1>8, <3>2, <3>3
  <2>2. p[2] \in Seq(C) BY <1>15 DEF Words
  <2>3. Len(p[2]) = Len(a) /\ \A i \in 1 .. Len(p[2]) : p[2][i] = a[i] BY <1>9, <1>15, <2>1
  <2> QED BY <1>9, <2>2, <2>3, SeqEqual
<1> HIDE DEF First, Second, Free
<1>20. /\ Len(p) = 1 <=> sep \notin Range(s)
       /\ Len(p) <= 2 <=> sep \notin Range(a)
  <2>1. n < f => Len(p) = 1 BY <1>13, <1>15
  <2>2. n >= f => IF Free(n) THEN Len(p) = 2 /\ Second(n) ELSE Len(p) >= 3 BY <1>13, <1>15
  <2>3. CASE f > n
    <3>1. Len(p) = 1 BY <1>6, <1>8, <2>1, <2>3
    <3>2. sep \notin Range(s) BY <1>6, <1>8, <2>3
    <3> QED BY <1>18, <2>3, <3>1, <3>2
  <2>4. CASE f <= n
    <3>1. sep \in Range(s) BY <1>8, <2>4
    <3>2. CASE Free(n)
      <4>1. Len(p) = 2 BY <1>6, <1>8, <2>2, <2>4, <3>2
      <4> QED BY <1>17, <2>4, <3>1, <3>2, <4>1
    <3>3. CASE ~Free(n)
      <4>1. PICK m : m = Len(p) OBVIOUS
      <4>2. m >= 3 BY <1>6, <1>8, <2>2, <2>4, <3>3, <4>1
      <4>3. m \in Nat BY <1>15, <4>1 DEF Words
      <4>4. ~(m <= 2) /\ m # 1 BY <4>2, <4>3
      <4> QED BY <1>17, <2>4, <3>1, <3>3, <4>1, <4>4
    <3> QED BY <3>2, <3>3
  <2> QED BY <1>6, <1>8, <2>3, <2>4
<1> QED BY <1>3, <1>4, <1>14, <1>15, <1>16, <1>19, <1>20 DEF SplitAt

-----------------------------------------------------------------------------
(* Versions. *)

(* Nothing but separators is lost in a split. *)
Pieces(p, s, sep) == \A i \in 1 .. Len(s) : s[i] = sep \/ \E w \in Range(p) : s[i] \in Range(w)

LEMMA SplitPieces ==
    ASSUME NEW C, NEW s \in Seq(C), NEW sep
    PROVE  Pieces(Split(s, sep), s, sep)
<1> DEFINE n == Len(s)
<1>1. PICK r : SplitSteps(r, s, sep, C) BY SplitRun
<1>2. n \in Nat /\ \A k \in 1 .. n : s[k] \in C OBVIOUS
<1>3. /\ \A k \in 0 .. n : r[k] \in Words(C)
      /\ r[n] = Split(s, sep)
      /\ \A k \in 1 .. n : r[k] = AddTo(r[k - 1], s[k], sep)
  BY <1>1 DEF SplitSteps
<1> HIDE DEF n
<1> DEFINE In(i, k) == \E j \in 1 .. Len(r[k]) : s[i] \in Range(r[k][j])
           Good(k) == \A i \in 1 .. k : s[i] = sep \/ In(i, k)
           T == {k \in 0 .. n : Good(k)}
<1>4. 0 \in T BY <1>2
<1>5. ASSUME NEW k \in 1 .. n, k - 1 \in T PROVE k \in T
  <2>1. k \in 0 .. n /\ k - 1 \in 0 .. n /\ \A i \in 1 .. k : i = k \/ i \in 1 .. k - 1 BY <1>2
  <2>2. PICK p \in Words(C) : p = r[k - 1] BY <1>3, <2>1
  <2>3. PICK q \in Words(C) : q = r[k] BY <1>3, <2>1
  <2>4. PICK c \in C : c = s[k] BY <1>2
  <2>5. q = AddTo(p, c, sep) BY <1>3, <2>2, <2>3, <2>4
  <2>6. /\ c = sep => q = Append(p, <<>>)
        /\ c # sep => /\ Len(q) = Len(p)
                      /\ \A i \in 1 .. Len(p) : q[i] = IF i = Len(p) THEN Append(p[i], c) ELSE p[i]
    BY <2>5, AddToFacts
  <2>7. p \in Seq(Seq(C)) /\ Len(p) \in Nat \ {0} /\ \A i \in 1 .. Len(p) : p[i] \in Seq(C) BY DEF Words
  <2>8. \A i \in 1 .. k - 1 : s[i] = sep \/ \E j \in 1 .. Len(p) : s[i] \in Range(p[j]) BY <1>5, <2>2
  <2>9. CASE c = sep
    <3>1. /\ Len(q) = Len(p) + 1 /\ \A i \in 1 .. Len(p) : q[i] = p[i]
      <4>1. q = Append(p, <<>>) BY <2>6, <2>9
      <4>2. p \in Seq(Seq(C)) /\ <<>> \in Seq(C) BY <2>7
      <4> QED BY <4>1, <4>2, AppendProperties
    <3>2. \A j \in 1 .. Len(p) : j \in 1 .. Len(q) BY <2>7, <3>1
    <3>3. ASSUME NEW i \in 1 .. k - 1, NEW j \in 1 .. Len(p), s[i] \in Range(p[j]) PROVE In(i, k)
      BY <2>3, <3>1, <3>2, <3>3
    <3>4. \A i \in 1 .. k - 1 : s[i] = sep \/ In(i, k)
      <4> HIDE DEF In
      <4> QED BY <2>8, <3>3
    <3> HIDE DEF In
    <3> QED BY <2>1, <2>4, <2>9, <3>4
  <2>10. CASE c # sep
    <3>1. /\ Len(q) = Len(p)
          /\ \A i \in 1 .. Len(p) : q[i] = IF i = Len(p) THEN Append(p[i], c) ELSE p[i]
      BY <2>6, <2>10
    <3>2. ASSUME NEW j \in 1 .. Len(p)
          PROVE Range(p[j]) \subseteq Range(q[j]) /\ (j = Len(p) => c \in Range(q[j]))
      <4>1. p[j] \in Seq(C) BY <2>7
      <4>2. PICK w \in Seq(C) : w = p[j] BY <4>1
      <4>3. PICK z \in Seq(C) : z = Append(w, c) BY AppendProperties
      <4>4. Len(z) = Len(w) + 1 /\ z[Len(w) + 1] = c /\ \A i \in 1 .. Len(w) : z[i] = w[i]
        BY <4>3, AppendProperties
      <4>5. Range(w) = {w[i] : i \in 1 .. Len(w)} /\ Range(z) = {z[i] : i \in 1 .. Len(z)} BY RangeEquality
      <4>6. Len(w) \in Nat /\ Len(w) + 1 \in 1 .. Len(z) /\ 1 .. Len(w) \subseteq 1 .. Len(z) BY <4>4
      <4>7. c \in Range(z) BY <4>4, <4>5, <4>6
      <4>8. Range(w) \subseteq Range(z) BY <4>4, <4>5, <4>6
      <4>9. j = Len(p) => q[j] = z BY <3>1, <4>2, <4>3
      <4> QED BY <3>1, <4>2, <4>7, <4>8, <4>9
    <3>3. In(k, k)
      <4>1. Len(p) \in 1 .. Len(q) BY <2>7, <3>1
      <4>2. s[k] \in Range(q[Len(p)]) BY <2>4, <2>7, <3>2
      <4> QED BY <2>3, <4>1, <4>2
    <3>4. ASSUME NEW i \in 1 .. k - 1, NEW j \in 1 .. Len(p), s[i] \in Range(p[j]) PROVE In(i, k)
      BY <2>3, <3>1, <3>2, <3>4
    <3>5. \A i \in 1 .. k - 1 : s[i] = sep \/ In(i, k)
      <4> HIDE DEF In
      <4> QED BY <2>8, <3>4
    <3> HIDE DEF In
    <3> QED BY <2>1, <3>3, <3>5
  <2> HIDE DEF T
  <2> QED BY <2>9, <2>10
<1>6. 0 .. n \subseteq T
  <2> HIDE DEF T
  <2> QED BY <1>2, <1>4, <1>5, PrefixInduction
<1>7. Good(n)
  <2>1. n \in 0 .. n BY <1>2
  <2> HIDE DEF Good
  <2> QED BY <1>6, <2>1
<1>8. PICK p \in Words(C) : p = r[n] /\ p = Split(s, sep)
  <2>1. n \in 0 .. n BY <1>2
  <2> QED BY <1>3, <2>1
<1>9. \A i \in 1 .. n : s[i] = sep \/ \E j \in 1 .. Len(p) : s[i] \in Range(p[j]) BY <1>7, <1>8
<1>10. \A j \in 1 .. Len(p) : p[j] \in Range(p)
  <2>1. p \in Seq(Seq(C)) BY DEF Words
  <2>2. Range(p) = {p[j] : j \in 1 .. Len(p)} BY <2>1, RangeEquality
  <2> QED BY <2>2
<1> QED BY <1>8, <1>9, <1>10 DEF Pieces, n

(* A sequence without a separator is added to the last part of the split of what
   is before it. *)
Extended(p, q, v, m) ==
    /\ Len(p) = Len(q)
    /\ \A i \in 1 .. Len(q) - 1 : p[i] = q[i]
    /\ LET a == p[Len(q)]
           b == q[Len(q)]
       IN  /\ \A i \in 1 .. Len(b) : a[i] = b[i]
           /\ Len(a) >= Len(b)
           /\ m < Len(v) => Len(a) > Len(b) /\ a[Len(b) + 1] = v[m + 1]
           /\ m = Len(v) => Len(a) = Len(b)

(* Up to the first separator, a split goes on as one of the rest would. *)
LEMMA SplitTail ==
    ASSUME NEW C, NEW v \in Seq(C), NEW sep, NEW m \in 0 .. Len(v), NEW c \in Seq(C),
           Len(c) = m, \A i \in 1 .. m : c[i] = v[i],
           \A i \in m + 1 .. Len(v) : v[i] # sep
    PROVE  Extended(Split(v, sep), Split(c, sep), v, m)
<1> DEFINE n == Len(v)
<1>1. PICK r : SplitSteps(r, v, sep, C) BY SplitRun
<1>2. PICK t : SplitSteps(t, c, sep, C) BY SplitRun
<1>3. n \in Nat /\ m \in Nat /\ m <= n /\ \A k \in 1 .. n : v[k] \in C OBVIOUS
<1>4. /\ \A k \in 0 .. n : r[k] \in Words(C)
      /\ r[0] = << <<>> >> /\ r[n] = Split(v, sep)
      /\ \A k \in 1 .. n : r[k] = AddTo(r[k - 1], v[k], sep)
  BY <1>1 DEF SplitSteps
<1>5. /\ t[0] = << <<>> >> /\ t[m] = Split(c, sep)
      /\ \A k \in 1 .. m : t[k] = AddTo(t[k - 1], v[k], sep)
  BY <1>2 DEF SplitSteps
<1>6. \A i \in m + 1 .. n : v[i] # sep OBVIOUS
<1> HIDE DEF n
<1>7. r[m] = Split(c, sep)
  <2> DEFINE T == {k \in 0 .. m : r[k] = t[k]}
  <2>1. 0 \in T BY <1>3, <1>4, <1>5
  <2>2. ASSUME NEW k \in 1 .. m, k - 1 \in T PROVE k \in T
    <3>1. k \in 1 .. n /\ k \in 0 .. m BY <1>3
    <3> QED BY <1>4, <1>5, <2>2, <3>1
  <2>3. 0 .. m \subseteq T
    <3> HIDE DEF T
    <3> QED BY <1>3, <2>1, <2>2, PrefixInduction
  <2>4. m \in 0 .. m BY <1>3
  <2> QED BY <1>5, <2>3, <2>4
<1>8. PICK q \in Words(C) : q = Split(c, sep)
  <2>1. m \in 0 .. n BY <1>3
  <2> QED BY <1>4, <1>7, <2>1
<1>9. q \in Seq(Seq(C)) /\ Len(q) \in Nat \ {0} /\ q[Len(q)] \in Seq(C) BY DEF Words
<1>10. PICK l \in Nat \ {0} : l = Len(q) BY <1>9
<1>11. PICK b \in Seq(C) : b = q[l] BY <1>9, <1>10
<1>12. PICK h \in Nat : h = Len(b) OBVIOUS
<1> DEFINE Good(k) == /\ Len(r[k]) = l /\ \A i \in 1 .. l - 1 : r[k][i] = q[i]
                      /\ \A i \in 1 .. h : r[k][l][i] = b[i]
                      /\ k > m => Len(r[k][l]) > h /\ r[k][l][h + 1] = v[m + 1]
           T == {k \in 0 .. n : k >= m => Good(k)}
<1>13. Good(m) BY <1>3, <1>7, <1>8, <1>10, <1>11, <1>12
<1>14. 0 \in T
  <2>1. 0 >= m => m = 0 BY <1>3
  <2>2. 0 \in 0 .. n BY <1>3
  <2> HIDE DEF Good
  <2> QED BY <1>13, <2>1, <2>2
<1>15. ASSUME NEW k \in 1 .. n, k - 1 \in T PROVE k \in T
  <2>1. k \in 0 .. n /\ k - 1 \in 0 .. n /\ k \in Nat BY <1>3
  <2>2. CASE k < m
    <3>1. ~(k >= m) BY <1>3, <2>1, <2>2
    <3> HIDE DEF Good
    <3> QED BY <2>1, <3>1
  <2>3. CASE k = m
    <3> HIDE DEF Good
    <3> QED BY <1>13, <2>1, <2>3
  <2>4. CASE k > m
    <3>1. k - 1 >= m /\ k \in m + 1 .. n BY <1>3, <2>1, <2>4
    <3>2. Good(k - 1)
      <4> HIDE DEF Good
      <4> QED BY <1>15, <3>1
    <3>3. PICK p \in Words(C) : p = r[k - 1] BY <1>4, <2>1
    <3>4. PICK e \in C : e = v[k] /\ e # sep BY <1>3, <1>6, <3>1
    <3>5. r[k] = AddTo(p, e, sep) BY <1>4, <3>3, <3>4
    <3>6. /\ Len(r[k]) = Len(p)
          /\ \A i \in 1 .. Len(p) : r[k][i] = IF i = Len(p) THEN Append(p[i], e) ELSE p[i]
      BY <3>4, <3>5, AddToFacts
    <3>7. Len(p) = l /\ \A i \in 1 .. l - 1 : p[i] = q[i] BY <3>2, <3>3
    <3>8. l \in 1 .. l /\ \A i \in 1 .. l - 1 : i \in 1 .. l /\ i # l OBVIOUS
    <3>9. PICK w \in Seq(C) : w = p[l] BY <3>7, <3>8 DEF Words
    <3>10. r[k][l] = Append(w, e) /\ \A i \in 1 .. l - 1 : r[k][i] = q[i] BY <3>6, <3>7, <3>8, <3>9
    <3>11. /\ \A i \in 1 .. h : w[i] = b[i]
           /\ k - 1 > m => Len(w) > h /\ w[h + 1] = v[m + 1]
      BY <3>2, <3>3, <3>9
    <3>12. PICK x \in Seq(C) : x = Append(w, e)
      <4>1. w \in Seq(C) /\ e \in C BY <3>4
      <4>2. Append(w, e) \in Seq(C) BY <4>1
      <4> QED BY <4>2
    <3>13. /\ Len(x) = Len(w) + 1 /\ x[Len(w) + 1] = e /\ \A i \in 1 .. Len(w) : x[i] = w[i]
      BY <3>12
    <3>14. Len(w) \in Nat OBVIOUS
    <3>15. Len(w) >= h /\ (k = m + 1 => Len(w) = h)
      <4>1. CASE k - 1 > m BY <3>11, <3>14, <4>1, <2>1, <1>3
      <4>2. CASE k - 1 = m
        <5>1. w = b BY <1>7, <1>8, <1>11, <3>3, <3>9, <4>2
        <5> QED BY <1>12, <5>1
      <4> QED BY <1>3, <2>1, <3>1, <4>1, <4>2
    <3>16. \A i \in 1 .. h : x[i] = b[i]
      <4>1. \A i \in 1 .. h : i \in 1 .. Len(w) BY <3>14, <3>15
      <4> QED BY <3>11, <3>13, <4>1
    <3>17. Len(x) > h BY <3>13, <3>14, <3>15
    <3>18. x[h + 1] = v[m + 1]
      <4>1. CASE k - 1 > m
        <5>1. h + 1 \in 1 .. Len(w) BY <3>11, <3>14, <4>1
        <5> QED BY <3>11, <3>13, <4>1, <5>1
      <4>2. CASE k - 1 = m
        <5>1. k = m + 1 BY <1>3, <2>1, <4>2
        <5>2. Len(w) = h BY <3>15, <5>1
        <5> QED BY <3>4, <3>13, <5>1, <5>2
      <4> QED BY <1>3, <2>1, <3>1, <4>1, <4>2
    <3>19. Len(r[k]) = l BY <3>6, <3>7
    <3>20. Good(k) BY <3>10, <3>12, <3>16, <3>17, <3>18, <3>19
    <3> HIDE DEF Good
    <3> QED BY <2>1, <3>20
  <2> HIDE DEF T
  <2> QED BY <1>3, <2>1, <2>2, <2>3, <2>4
<1>16. 0 .. n \subseteq T
  <2> HIDE DEF T
  <2> QED BY <1>3, <1>14, <1>15, PrefixInduction
<1>17. Good(n)
  <2>1. n \in 0 .. n /\ n >= m BY <1>3
  <2> HIDE DEF Good
  <2> QED BY <1>16, <2>1
<1>18. PICK p : p = Split(v, sep) OBVIOUS
<1>19. p = r[n] BY <1>4, <1>18
<1>20. Len(p) = l /\ \A i \in 1 .. l - 1 : p[i] = q[i] BY <1>17, <1>19
<1>21. \A i \in 1 .. h : p[l][i] = b[i] BY <1>17, <1>19
<1>22. m < n => Len(p[l]) > h /\ p[l][h + 1] = v[m + 1]
  <2>1. m < n <=> n > m BY <1>3
  <2> QED BY <1>17, <1>19, <2>1
<1>23. m = n => p = q BY <1>7, <1>8, <1>19
<1>24. m = n => p[l] = b BY <1>11, <1>23
<1>25. Len(p[l]) >= h
  <2>1. CASE m = n
    <3>1. Len(p[l]) = h BY <1>12, <1>24, <2>1
    <3> QED BY <1>12, <3>1
  <2>2. CASE m < n
    <3>1. p[l] \in Seq(C)
      <4>1. n \in 0 .. n BY <1>3
      <4>2. p \in Words(C) BY <1>4, <1>19, <4>1
      <4> QED BY <1>20, <4>2 DEF Words
    <3>2. PICK z \in Nat : z = Len(p[l]) BY <3>1
    <3>3. z > h BY <1>22, <2>2, <3>2
    <3> QED BY <1>12, <3>2, <3>3
  <2> QED BY <1>3, <2>1, <2>2
<1>26. m = n => Len(p[l]) = h BY <1>12, <1>24
<1> QED BY <1>8, <1>10, <1>11, <1>12, <1>18, <1>20, <1>21, <1>22, <1>25, <1>26 DEF Extended, n


(* What is cut off a part of a version. *)
LEMMA CutOff ==
    ASSUME NEW C, NEW w \in Seq(C), NEW b \in Seq(C), Len(w) >= Len(b),
           \A i \in 1 .. Len(b) : w[i] = b[i],
           Range(b) \cap {"-", "+"} = {},
           Len(w) = Len(b) \/ (Len(w) > Len(b) /\ w[Len(b) + 1] \in {"-", "+"})
    PROVE  Cut(w) = b
<1>1. PICK E : E = {"-", "+"} OBVIOUS
<1>2. PICK h \in Nat : h = Len(b) OBVIOUS
<1>3. PICK n \in Nat : n = Len(w) OBVIOUS
<1>4. PICK at : at = {i \in DOMAIN w : w[i] \in E} OBVIOUS
<1>5. Cut(w) = IF at = {} THEN w ELSE SubSeq(w, 1, (CHOOSE i \in at : \A j \in at : i <= j) - 1)
  BY <1>1, <1>4 DEF Cut
<1>6. /\ n >= h /\ \A i \in 1 .. h : w[i] = b[i]
      /\ Range(b) \cap E = {} /\ (n = h \/ (n > h /\ w[h + 1] \in E))
  BY <1>1, <1>2, <1>3
<1>7. \A i \in 1 .. h : w[i] \notin E
  <2>1. \A i \in 1 .. h : b[i] \in Range(b)
    <3>1. Range(b) = {b[i] : i \in 1 .. h} BY <1>2, RangeEquality
    <3> QED BY <3>1
  <2> QED BY <1>6, <2>1
<1>8. DOMAIN w = 1 .. n BY <1>3
<1>9. CASE n = h
  <2>1. at = {} BY <1>4, <1>7, <1>8, <1>9
  <2>2. w = b BY <1>2, <1>3, <1>6, <1>9, SeqEqual
  <2> QED BY <1>5, <2>1, <2>2
<1>10. CASE n > h /\ w[h + 1] \in E
  <2>1. h + 1 \in at BY <1>4, <1>8, <1>10
  <2>2. \A j \in at : h + 1 <= j
    <3>1. \A j \in at : j \in 1 .. n /\ j \notin 1 .. h BY <1>4, <1>7, <1>8
    <3> QED BY <3>1
  <2>3. PICK f : f = CHOOSE i \in at : \A j \in at : i <= j OBVIOUS
  <2>4. f \in at /\ \A j \in at : f <= j BY <2>1, <2>2, <2>3
  <2>5. f = h + 1
    <3>1. f <= h + 1 /\ h + 1 <= f /\ f \in 1 .. n BY <1>4, <1>8, <2>1, <2>2, <2>4
    <3> QED BY <3>1
  <2>6. Cut(w) = SubSeq(w, 1, f - 1) BY <1>5, <2>1, <2>3
  <2>7. Cut(w) = SubSeq(w, 1, h) BY <2>5, <2>6
  <2>8. \A i \in 1 .. h : w[i] \in C /\ 1 + i - 1 = i
    <3>1. \A i \in 1 .. n : w[i] \in C BY <1>3
    <3>2. \A i \in 1 .. h : i \in 1 .. n BY <1>10
    <3> QED BY <3>1, <3>2
  <2>9. /\ SubSeq(w, 1, h) \in Seq(C) /\ Len(SubSeq(w, 1, h)) = (IF 1 <= h THEN h - 1 + 1 ELSE 0)
        /\ \A i \in 1 .. h - 1 + 1 : SubSeq(w, 1, h)[i] = w[1 + i - 1]
    BY <2>8, SubSeqProperties
  <2>10. PICK x : x = SubSeq(w, 1, h) OBVIOUS
  <2>11. x \in Seq(C) /\ Len(x) = h /\ \A i \in 1 .. h : x[i] = b[i] BY <1>6, <2>8, <2>9, <2>10
  <2>12. x = b BY <1>2, <2>11, SeqEqual
  <2> QED BY <2>7, <2>10, <2>12
<1> QED BY <1>6, <1>9, <1>10

(* No separator is a letter, a digit or a hyphen that an identifier may have. *)
LEMMA IdentifierCharacters ==
    ASSUME NEW C, NEW s \in Seq(C), NEW pre, IdentifiersOK(s, pre), NEW i \in 1 .. Len(s)
    PROVE  s[i] \in {".", "-"} \cup Digits \cup Letters
<1>1. Pieces(Split(s, "."), s, ".") BY SplitPieces
<1>2. \A w \in Range(Split(s, ".")) : Range(w) \subseteq Digits \cup Letters \cup {"-"} BY DEF IdentifiersOK
<1> QED BY <1>1, <1>2 DEF Pieces

(* What is accepted as a version is one, every version without a hyphen inside
   its pre-release is accepted, and node ranges can be compared with every
   accepted version whose suffix has no dot; of every sequence of characters. *)
THEOREM VersionsAreRead ==
    ASSUME NEW C, NEW v \in Seq(C)
    PROVE  VersionsRead(v)
<1>1. PICK plus : plus = "+" OBVIOUS
<1>2. PICK minus : minus = "-" OBVIOUS
<1>3. PICK dot : dot = "." OBVIOUS
<1>4. PICK b : b = Before(v, "+") OBVIOUS
<1>5. PICK u : u = After(v, "+") OBVIOUS
<1>6. PICK f : f = FirstOf(v, "+") OBVIOUS
<1>7. CutAt(f, v, "+", b, u, C) BY <1>4, <1>5, <1>6, CutFacts
<1>8. b \in Seq(C) /\ u \in Seq(C) BY <1>7 DEF CutAt
<1>9. PICK c : c = Before(b, "-") OBVIOUS
<1>10. PICK a : a = After(b, "-") OBVIOUS
<1>11. PICK g : g = FirstOf(b, "-") OBVIOUS
<1>12. CutAt(g, b, "-", c, a, C) BY <1>8, <1>9, <1>10, <1>11, CutFacts
<1>13. c \in Seq(C) /\ a \in Seq(C) BY <1>12 DEF CutAt
<1>14. PICK x : x = Split(v, "+") OBVIOUS
<1>15. PICK y : y = Split(b, "-") OBVIOUS
<1>16. SplitAt(x, v, "+", b, u, C) BY <1>4, <1>5, <1>14, SplitFacts
<1>17. SplitAt(y, b, "-", c, a, C) BY <1>8, <1>9, <1>10, <1>15, SplitFacts
<1>18. /\ Core(v) = c /\ Pre(v) = a /\ Build(v) = u
  BY <1>4, <1>5, <1>9, <1>10 DEF Core, Pre, Build
<1>19. /\ x[1] = b /\ (Len(x) = 1 <=> "+" \notin Range(v)) /\ (Len(x) <= 2 <=> "+" \notin Range(u))
       /\ Len(x) = 2 => x[2] = u
  BY <1>16 DEF SplitAt
<1>20. /\ y[1] = c /\ (Len(y) = 1 <=> "-" \notin Range(b)) /\ (Len(y) <= 2 <=> "-" \notin Range(a))
       /\ Len(y) = 2 => y[2] = a
  BY <1>17 DEF SplitAt
<1>21. PICK s : s = Split(c, ".") OBVIOUS
<1>22. PICK kx \in Nat \ {0} : kx = Len(x) BY <1>16 DEF SplitAt, Words
<1>23. PICK ky \in Nat \ {0} : ky = Len(y) BY <1>17 DEF SplitAt, Words
<1> DEFINE CoreOK == Len(s) = 3 /\ \A part \in Range(s) : NumericOK(part)
           Plus == "+" \in Range(v)
           Minus == "-" \in Range(b)
           Builds == IdentifiersOK(u, FALSE)
           Pres == IdentifiersOK(a, TRUE)
<1>24. ValidSemVer(v) <=> /\ kx <= 2 /\ (kx = 2 => Builds)
                          /\ ky <= 2 /\ (ky = 2 => Pres) /\ CoreOK
  <2>1. ValidSemVer(v) <=> /\ Len(x) <= 2 /\ (Len(x) = 2 => IdentifiersOK(x[2], FALSE))
                           /\ Len(Split(x[1], "-")) <= 2
                           /\ (Len(Split(x[1], "-")) = 2 => IdentifiersOK(Split(x[1], "-")[2], TRUE))
                           /\ Len(Split(Split(x[1], "-")[1], ".")) = 3
                           /\ \A part \in Range(Split(Split(x[1], "-")[1], ".")) : NumericOK(part)
    BY <1>14 DEF ValidSemVer
  <2>2. Split(x[1], "-") = y /\ Split(y[1], ".") = s BY <1>15, <1>19, <1>20, <1>21
  <2> QED BY <1>19, <1>20, <1>22, <1>23, <2>1, <2>2
<1>25. SemVer(v) <=> CoreOK /\ (Minus => Pres) /\ (Plus => Builds)
  BY <1>4, <1>18, <1>21 DEF SemVer
<1>26. /\ kx = 1 <=> ~Plus
       /\ ky = 1 <=> ~Minus
       /\ kx <= 2 <=> "+" \notin Range(u)
       /\ ky <= 2 <=> "-" \notin Range(a)
  BY <1>19, <1>20, <1>22, <1>23
<1>27. Builds => "+" \notin Range(u)
  <2> SUFFICES ASSUME Builds PROVE "+" \notin Range(u) OBVIOUS
  <2>1. \A i \in 1 .. Len(u) : u[i] \in {".", "-"} \cup Digits \cup Letters BY <1>8, IdentifierCharacters
  <2>2. "+" \notin {".", "-"} \cup Digits \cup Letters BY CharactersAssumption
  <2>3. Range(u) = {u[i] : i \in 1 .. Len(u)} BY <1>8, RangeEquality
  <2> QED BY <2>1, <2>2, <2>3
<1>28. ~Plus => "+" \notin Range(u)
  <2> HIDE DEF Plus, Minus
  <2> QED BY <1>26
<1> HIDE DEF CoreOK, Plus, Minus, Builds, Pres
<1>29. ValidSemVer(v) => SemVer(v)
  <2> SUFFICES ASSUME ValidSemVer(v) PROVE SemVer(v) OBVIOUS
  <2>1. kx <= 2 /\ ky <= 2 /\ (kx = 2 => Builds) /\ (ky = 2 => Pres) /\ CoreOK BY <1>24
  <2>2. (kx = 1 \/ kx = 2) /\ (ky = 1 \/ ky = 2) BY <2>1
  <2> QED BY <1>25, <1>26, <2>1, <2>2
<1>30. SemVer(v) /\ "-" \notin Range(Pre(v)) => ValidSemVer(v)
  <2> SUFFICES ASSUME SemVer(v), "-" \notin Range(Pre(v)) PROVE ValidSemVer(v) OBVIOUS
  <2>1. ky <= 2 BY <1>18, <1>26
  <2>2. kx <= 2 BY <1>25, <1>26, <1>27, <1>28
  <2>3. kx = 2 => kx # 1 OBVIOUS
  <2>4. ky = 2 => ky # 1 OBVIOUS
  <2> QED BY <1>24, <1>25, <1>26, <2>1, <2>2, <2>3, <2>4
<1>31. ValidSemVer(v) /\ "." \notin Range(Pre(v) \o Build(v)) => Parsable(v)
  <2> SUFFICES ASSUME ValidSemVer(v), "." \notin Range(a \o u) PROVE Parsable(v) BY <1>18
  <2>1. CoreOK BY <1>24
  <2>2. Range(a \o u) = Range(a) \cup Range(u) BY <1>8, <1>13, RangeConcatenation
  <2>3. dot \notin Range(a) /\ dot \notin Range(u) BY <1>3, <2>2
  <2>4. dot # plus /\ dot # minus BY <1>1, <1>2, <1>3
  <2>5. PICK n \in Nat : n = Len(v) OBVIOUS
  <2>6. PICK h \in Nat : h = Len(b) BY <1>8
  <2>7. /\ f \in 1 .. n + 1 /\ (f <= n => v[f] = plus) /\ h = f - 1 /\ \A i \in 1 .. f - 1 : b[i] = v[i]
        /\ f <= n => Len(u) = n - f /\ \A i \in 1 .. n - f : u[i] = v[f + i]
    BY <1>1, <1>7, <2>5, <2>6 DEF CutAt, IsFirst
  <2>8. PICK m \in Nat : m = Len(c) BY <1>13
  <2>9. /\ g \in 1 .. h + 1 /\ (g <= h => b[g] = minus) /\ m = g - 1 /\ \A i \in 1 .. g - 1 : c[i] = b[i]
        /\ g <= h => Len(a) = h - g /\ \A i \in 1 .. h - g : a[i] = b[g + i]
    BY <1>2, <1>12, <2>6, <2>8 DEF CutAt, IsFirst
  <2>10. m \in 0 .. n /\ \A i \in 1 .. m : c[i] = v[i]
    <3>1. \A i \in 1 .. m : i \in 1 .. g - 1 /\ i \in 1 .. f - 1 BY <2>7, <2>9
    <3> QED BY <2>7, <2>9, <3>1
  <2>11. m < n => v[m + 1] \in {minus, plus}
    <3> SUFFICES ASSUME m < n PROVE v[m + 1] \in {minus, plus} OBVIOUS
    <3>1. CASE g <= h
      <4>1. g \in 1 .. f - 1 /\ g = m + 1 BY <2>7, <2>9, <3>1
      <4> QED BY <2>7, <2>9, <3>1, <4>1
    <3>2. CASE g > h
      <4>1. f = m + 1 /\ f <= n BY <2>7, <2>9, <3>2
      <4> QED BY <2>7, <4>1
    <3> QED BY <2>9, <3>1, <3>2
  <2>12. ASSUME NEW i \in m + 1 .. n PROVE v[i] # dot
    <3>1. Range(a) = {a[j] : j \in 1 .. Len(a)} /\ Range(u) = {u[j] : j \in 1 .. Len(u)}
      BY <1>8, <1>13, RangeEquality
    <3>2. CASE i <= h
      <4>1. g <= h /\ i \in 1 .. f - 1 /\ i >= g BY <2>7, <2>9, <2>12, <3>2
      <4>2. CASE i = g BY <2>4, <2>7, <2>9, <4>1, <4>2
      <4>3. CASE i > g
        <5>1. i - g \in 1 .. h - g /\ g + (i - g) = i BY <2>9, <3>2, <4>1, <4>3
        <5>2. v[i] = a[i - g] /\ i - g \in 1 .. Len(a) BY <2>7, <2>9, <4>1, <5>1
        <5> QED BY <2>3, <3>1, <5>2
      <4> QED BY <2>9, <4>1, <4>2, <4>3
    <3>3. CASE i > h
      <4>1. f <= n /\ i >= f BY <2>7, <2>12, <3>3
      <4>2. CASE i = f BY <2>4, <2>7, <4>1, <4>2
      <4>3. CASE i > f
        <5>1. i - f \in 1 .. n - f /\ f + (i - f) = i BY <2>7, <2>12, <4>1, <4>3
        <5>2. v[i] = u[i - f] /\ i - f \in 1 .. Len(u) BY <2>7, <4>1, <5>1
        <5> QED BY <2>3, <3>1, <5>2
      <4> QED BY <2>7, <4>1, <4>2, <4>3
    <3> QED BY <3>2, <3>3, <2>12
  <2>13. PICK p : p = Split(v, ".") OBVIOUS
  <2>14. Extended(p, s, v, m)
    <3>1. m \in 0 .. Len(v) /\ Len(c) = m /\ \A i \in m + 1 .. Len(v) : v[i] # "."
      BY <1>3, <2>5, <2>8, <2>10, <2>12
    <3> QED BY <1>13, <1>21, <2>10, <2>13, <3>1, SplitTail
  <2>15. s \in Words(C) /\ p \in Words(C)
    <3>1. SplitAt(s, c, ".", Before(c, "."), After(c, "."), C) BY <1>13, <1>21, SplitFacts
    <3>2. SplitAt(p, v, ".", Before(v, "."), After(v, "."), C) BY <2>13, SplitFacts
    <3> QED BY <3>1, <3>2 DEF SplitAt
  <2>16. Len(s) = 3 /\ \A w \in Range(s) : w # <<>> /\ Range(w) \subseteq Digits BY <2>1 DEF CoreOK, NumericOK
  <2>17. \A i \in 1 .. 3 : s[i] \in Range(s) /\ s[i] \in Seq(C) /\ p[i] \in Seq(C)
    <3>1. s \in Seq(Seq(C)) /\ p \in Seq(Seq(C)) /\ Len(p) = 3 BY <2>14, <2>15, <2>16 DEF Words, Extended
    <3>2. Range(s) = {s[i] : i \in 1 .. Len(s)} BY <3>1, RangeEquality
    <3>3. \A i \in 1 .. 3 : i \in 1 .. Len(s) /\ i \in 1 .. Len(p) BY <2>16, <3>1
    <3>4. \A i \in 1 .. 3 : s[i] \in Range(s) BY <3>2, <3>3
    <3>5. \A i \in 1 .. Len(s) : s[i] \in Seq(C) BY <3>1
    <3>6. \A i \in 1 .. Len(p) : p[i] \in Seq(C) BY <2>15 DEF Words
    <3> QED BY <3>3, <3>4, <3>5, <3>6
  <2>18. ASSUME NEW i \in 1 .. 3 PROVE Cut(p[i]) = s[i]
    <3>1. Range(s[i]) \subseteq Digits BY <2>16, <2>17
    <3>2. Range(s[i]) \cap {"-", "+"} = {} BY <3>1, CharactersAssumption
    <3>3. s[i] \in Seq(C) /\ p[i] \in Seq(C) BY <2>17
    <3>4. PICK d \in Seq(C) : d = s[i] BY <3>3
    <3>5. PICK w \in Seq(C) : w = p[i] BY <3>3
    <3>6. /\ Len(w) >= Len(d) /\ \A j \in 1 .. Len(d) : w[j] = d[j]
          /\ Len(w) = Len(d) \/ (Len(w) > Len(d) /\ w[Len(d) + 1] \in {"-", "+"})
      <4>1. CASE i = 3
        <5>1. /\ \A j \in 1 .. Len(d) : w[j] = d[j]
              /\ Len(w) >= Len(d)
              /\ m < n => Len(w) > Len(d) /\ w[Len(d) + 1] = v[m + 1]
              /\ m = n => Len(w) = Len(d)
          BY <2>5, <2>14, <2>16, <3>4, <3>5, <4>1 DEF Extended
        <5>2. m < n \/ m = n BY <2>10
        <5>3. m < n => w[Len(d) + 1] \in {"-", "+"} BY <1>1, <1>2, <2>11, <5>1
        <5> QED BY <5>1, <5>2, <5>3
      <4>2. CASE i # 3
        <5>1. i \in 1 .. Len(s) - 1 BY <2>16, <4>2
        <5>2. w = d BY <2>14, <3>4, <3>5, <5>1 DEF Extended
        <5>3. Len(w) \in Nat OBVIOUS
        <5> QED BY <5>2, <5>3
      <4> QED BY <4>1, <4>2
    <3>7. Cut(w) = d BY <3>2, <3>4, <3>6, CutOff
    <3> QED BY <3>4, <3>5, <3>7
  <2>19. Len(p) = 3 BY <2>14, <2>16 DEF Extended
  <2> QED BY <2>13, <2>16, <2>17, <2>18, <2>19 DEF Parsable
<1> QED BY <1>29, <1>30, <1>31 DEF VersionsRead

-----------------------------------------------------------------------------
(* The desired components taken out of the locked ones. *)

Lefts(N, V) == [ok : BOOLEAN, left : UNION {[X -> V] : X \in SUBSET N}]
AtFirst(B) == [ok |-> TRUE, left |-> B]

Takes(x, c) == x.ok /\ c.name \in DOMAIN x.left /\ x.left[c.name] = Identity(c)

TookOut(y, x, c) ==
    /\ y.ok <=> Takes(x, c)
    /\ Takes(x, c) => /\ DOMAIN y.left = DOMAIN x.left \ {c.name}
                      /\ \A n \in DOMAIN x.left \ {c.name} : y.left[n] = x.left[n]

(* A component is taken out of the locked ones, or the check has failed. *)
LEMMA TakeOutFacts ==
    ASSUME NEW N, NEW V, NEW x \in Lefts(N, V), NEW c
    PROVE  TakeOut(x, c) \in Lefts(N, V) /\ TookOut(TakeOut(x, c), x, c)
<1>1. PICK o \in BOOLEAN, f \in UNION {[X -> V] : X \in SUBSET N} : x = [ok |-> o, left |-> f]
  BY DEF Lefts
<1>2. PICK X \in SUBSET N : f \in [X -> V] OBVIOUS
<1>3. PICK name : name = c.name OBVIOUS
<1>4. CASE Takes(x, c)
  <2>1. TakeOut(x, c) = [ok |-> o, left |-> [n \in X \ {name} |-> f[n]]]
    BY <1>1, <1>2, <1>3, <1>4 DEF Takes, TakeOut, TakenOut
  <2>2. [n \in X \ {name} |-> f[n]] \in [X \ {name} -> V] /\ X \ {name} \in SUBSET N BY <1>2
  <2>3. TakeOut(x, c) \in Lefts(N, V) BY <2>1, <2>2 DEF Lefts
  <2>4. DOMAIN x.left = X /\ x.left = f BY <1>1, <1>2
  <2>5. PICK h : h = [n \in X \ {name} |-> f[n]] OBVIOUS
  <2>6. DOMAIN h = X \ {name} /\ \A n \in X \ {name} : h[n] = f[n] BY <2>5
  <2>7. TakeOut(x, c).ok /\ TakeOut(x, c).left = h BY <1>1, <1>4, <2>1, <2>5 DEF Takes
  <2> QED BY <1>3, <1>4, <2>3, <2>4, <2>6, <2>7 DEF TookOut
<1>5. CASE ~Takes(x, c)
  <2>1. TakeOut(x, c) = [ok |-> FALSE, left |-> f] BY <1>1, <1>5 DEF Takes, TakeOut
  <2>2. TakeOut(x, c) \in Lefts(N, V) BY <2>1 DEF Lefts
  <2> QED BY <1>1, <1>5, <2>1, <2>2 DEF TookOut, Takes
<1> QED BY <1>4, <1>5

TakeOutSteps(r, cs, B, N, V) ==
    /\ r \in [0 .. Len(cs) -> Lefts(N, V)]
    /\ r[0] = AtFirst(B) /\ r[Len(cs)] = FoldLeft(TakeOut, AtFirst(B), cs)
    /\ \A k \in 1 .. Len(cs) : r[k] = TakeOut(r[k - 1], cs[k])

(* The check of a lock, one desired component at a time. *)
LEMMA TakeOutRun ==
    ASSUME NEW C, NEW cs \in Seq(C), NEW N, NEW V, NEW B \in [N -> V]
    PROVE  \E r : TakeOutSteps(r, cs, B, N, V)
<1> DEFINE n == Len(cs)
           A == Lefts(N, V)
           base == AtFirst(B)
           Op(a, i) == TakeOut(a, cs[i])
           F == [p \in A \X (1 .. n) |-> Op(p[1], p[2])]
           Eq(g) == g = [s \in SUBSET (1 .. n) |-> IF s = {} THEN base ELSE Op(g[s \ {Max(s)}], Max(s))]
           I == CHOOSE g : Eq(g)
<1>1. n \in Nat /\ DOMAIN cs = 1 .. n OBVIOUS
<1>2. FoldLeft(TakeOut, AtFirst(B), cs) = I[1 .. n]
  <2>1. FoldLeft(TakeOut, AtFirst(B), cs) = (CHOOSE g : g = [s \in SUBSET DOMAIN cs |->
                    IF s = {} THEN AtFirst(B) ELSE TakeOut(g[s \ {Max(s)}], cs[Max(s)])])[DOMAIN cs]
    BY DEF FoldLeft, MapThenFoldSet
  <2> QED BY <1>1, <2>1
<1>3. base \in A /\ \A a \in A, i \in 1 .. n : Op(a, i) \in A
  <2>1. \A a \in Lefts(N, V) : \A c : TakeOut(a, c) \in Lefts(N, V) BY TakeOutFacts
  <2>2. AtFirst(B) \in Lefts(N, V) BY DEF Lefts, AtFirst
  <2> HIDE DEF n
  <2> QED BY <2>1, <2>2
<1> HIDE DEF Op, A, base, n
<1>4. \A a \in A, i \in 1 .. n : F[<<a, i>>] = Op(a, i) BY <1>3
<1>c. base \in A /\ F \in [A \X (1 .. n) -> A] BY <1>3
<1>5. \E g : Eq(g)
  <2> HIDE DEF F
  <2>1. PICK g : TableOf(F, base, g, A, n) BY <1>1, <1>c, TableExists
  <2>2. ASSUME NEW s \in SUBSET (1 .. n)
        PROVE  g[s] = IF s = {} THEN base ELSE Op(g[s \ {Max(s)}], Max(s))
    <3>1. s # {} => Max(s) \in 1 .. n BY <1>1, MaxFacts
    <3>2. s \ {Max(s)} \in SUBSET (1 .. n) OBVIOUS
    <3>3. g[s \ {Max(s)}] \in A BY <2>1, <3>2 DEF TableOf
    <3> QED BY <1>4, <2>1, <3>1, <3>3 DEF TableOf, TableStep
  <2>3. g = [s \in SUBSET (1 .. n) |-> IF s = {} THEN base ELSE Op(g[s \ {Max(s)}], Max(s))]
    BY <2>1, <2>2 DEF TableOf
  <2> QED BY <2>3
<1>6. Eq(I)
  <2> HIDE DEF Eq
  <2> QED BY <1>5
<1> HIDE DEF I
<1>7. I[{}] = base BY <1>6
<1>8. ASSUME NEW s \in SUBSET (1 .. n), s # {} /\ Max(s) \in 1 .. n /\ I[s \ {Max(s)}] \in A
      PROVE  I[s] = F[<<I[s \ {Max(s)}], Max(s)>>]
  <2>1. I[s] = Op(I[s \ {Max(s)}], Max(s)) BY <1>6, <1>8
  <2> HIDE DEF F, Eq
  <2> QED BY <1>4, <1>8, <2>1
<1> HIDE DEF Eq, F
<1>t. Tabled(F, base, I, A, n) BY <1>7, <1>8 DEF Tabled
<1>9. PICK r : RunOf(F, base, r, I, A, n) BY <1>1, <1>c, <1>t, TableRun
<1>10. ASSUME NEW k \in 1 .. n PROVE r[k] = Op(r[k - 1], k)
  <2>1. k - 1 \in 0 .. n BY <1>1
  <2>2. r[k - 1] \in A BY <1>9, <2>1 DEF RunOf
  <2> QED BY <1>4, <1>9, <2>2 DEF RunOf
<1> QED BY <1>2, <1>9, <1>10 DEF RunOf, TakeOutSteps, n, A, base, Op


TakenAll(x) == x.ok /\ DOMAIN x.left = {}
AllIn(cs, B, N) ==
    /\ \A i \in 1 .. Len(cs) : cs[i].name \in N /\ B[cs[i].name] = Identity(cs[i])
    /\ \A y \in N : \E i \in 1 .. Len(cs) : cs[i].name = y

(* All locked components are taken out exactly when the names and identities are the same. *)
LEMMA TakenOutExactly ==
    ASSUME NEW C, NEW cs \in Seq(C), IsInjective(NamesOf(cs)), NEW N, NEW V, NEW B \in [N -> V]
    PROVE  TakenAll(FoldLeft(TakeOut, AtFirst(B), cs)) <=> AllIn(cs, B, N)
<1> DEFINE n == Len(cs)
           Good(k) == \A i \in 1 .. k : cs[i].name \in N /\ B[cs[i].name] = Identity(cs[i])
           Gone(k) == {cs[i].name : i \in 1 .. k}
<1>1. PICK r : TakeOutSteps(r, cs, B, N, V) BY TakeOutRun
<1>2. n \in Nat /\ \A i, j \in 1 .. n : cs[i].name = cs[j].name => i = j BY DEF IsInjective, NamesOf
<1>3. /\ \A k \in 0 .. n : r[k] \in Lefts(N, V)
      /\ r[0] = AtFirst(B) /\ r[n] = FoldLeft(TakeOut, AtFirst(B), cs)
      /\ \A k \in 1 .. n : r[k] = TakeOut(r[k - 1], cs[k])
  BY <1>1 DEF TakeOutSteps
<1> HIDE DEF n
<1> DEFINE Step(k) == /\ r[k].ok <=> Good(k)
                      /\ r[k].ok => /\ DOMAIN r[k].left = N \ Gone(k)
                                    /\ \A y \in N \ Gone(k) : r[k].left[y] = B[y]
           T == {k \in 0 .. n : Step(k)}
<1>4. 0 \in T
  <2>1. r[0].ok = TRUE /\ r[0].left = B BY <1>3 DEF AtFirst
  <2>2. Gone(0) = {} /\ Good(0) /\ 0 \in 0 .. n BY <1>2
  <2>3. Step(0)
    <3> HIDE DEF Good, Gone
    <3> QED BY <2>1, <2>2
  <2> QED BY <2>2, <2>3
<1>5. ASSUME NEW k \in 1 .. n, k - 1 \in T PROVE k \in T
  <2>1. k \in 0 .. n /\ k - 1 \in 0 .. n /\ k - 1 \in Nat BY <1>2
  <2>2. PICK c : c = cs[k] OBVIOUS
  <2>3. PICK x \in Lefts(N, V) : x = r[k - 1] BY <1>3, <2>1
  <2>4. PICK y \in Lefts(N, V) : y = r[k] BY <1>3, <2>1
  <2>5. y = TakeOut(x, c) BY <1>3, <2>2, <2>3, <2>4
  <2>6. /\ y.ok <=> Takes(x, c)
        /\ Takes(x, c) => /\ DOMAIN y.left = DOMAIN x.left \ {c.name}
                          /\ \A z \in DOMAIN x.left \ {c.name} : y.left[z] = x.left[z]
    <3>1. TookOut(y, x, c) BY <2>5, TakeOutFacts
    <3> QED BY <3>1 DEF TookOut
  <2>7. /\ x.ok <=> Good(k - 1)
        /\ x.ok => /\ DOMAIN x.left = N \ Gone(k - 1)
                   /\ \A z \in N \ Gone(k - 1) : x.left[z] = B[z]
    <3> HIDE DEF Good, Gone
    <3> QED BY <1>5, <2>3
  <2>8. Gone(k) = Gone(k - 1) \cup {c.name}
    <3>1. \A i \in 1 .. k : i \in 1 .. k - 1 \/ i = k BY <2>1
    <3>2. 1 .. k - 1 \subseteq 1 .. k /\ k \in 1 .. k BY <2>1
    <3> QED BY <2>2, <3>1, <3>2
  <2>9. c.name \notin Gone(k - 1) BY <1>2, <2>1, <2>2
  <2>10. Good(k) <=> Good(k - 1) /\ c.name \in N /\ B[c.name] = Identity(c)
    <3>1. \A i \in 1 .. k : i \in 1 .. k - 1 \/ i = k BY <2>1
    <3>2. 1 .. k - 1 \subseteq 1 .. k /\ k \in 1 .. k BY <2>1
    <3> QED BY <2>2, <3>1, <3>2
  <2> HIDE DEF Good, Gone
  <2>11. Step(k) BY <2>4, <2>6, <2>7, <2>8, <2>9, <2>10 DEF Takes
  <2> HIDE DEF Step
  <2> QED BY <2>1, <2>11
<1>6. 0 .. n \subseteq T
  <2> HIDE DEF T
  <2> QED BY <1>2, <1>4, <1>5, PrefixInduction
<1>7. Step(n)
  <2>1. n \in 0 .. n BY <1>2
  <2> HIDE DEF Step
  <2> QED BY <1>6, <2>1
<1>8. N \ Gone(n) = {} <=> \A y \in N : \E i \in 1 .. n : cs[i].name = y OBVIOUS
<1> HIDE DEF Gone
<1> QED BY <1>3, <1>7, <1>8 DEF n, TakenAll, AllIn

Entries(cs) == {<<c.name, Identity(c)>> : c \in Range(cs)}

(* The entries of a list, by position. *)
LEMMA EntriesAt ==
    ASSUME NEW C, NEW cs \in Seq(C)
    PROVE  /\ Range(cs) = {cs[i] : i \in 1 .. Len(cs)}
           /\ Entries(cs) = {<<cs[i].name, Identity(cs[i])>> : i \in 1 .. Len(cs)}
<1>1. Range(cs) = {cs[i] : i \in 1 .. Len(cs)} BY RangeEquality
<1> QED BY <1>1 DEF Entries

(* With distinct names, the entries are found by them. *)
LEMMA ByNameFacts ==
    ASSUME NEW D, NEW ls \in Seq(D), IsInjective(NamesOf(ls))
    PROVE  \E N, V : /\ N = {ls[i].name : i \in 1 .. Len(ls)}
                     /\ ByName(ls) \in [N -> V]
                     /\ \A i \in 1 .. Len(ls) : ByName(ls)[ls[i].name] = Identity(ls[i])
<1> DEFINE N == {ls[i].name : i \in 1 .. Len(ls)}
           At(y) == CHOOSE i \in DOMAIN ls : ls[i].name = y
           V == {Identity(ls[i]) : i \in 1 .. Len(ls)}
<1>1. \A i, j \in 1 .. Len(ls) : ls[i].name = ls[j].name => i = j BY DEF IsInjective, NamesOf
<1>2. ByName(ls) = [y \in N |-> Identity(ls[At(y)])]
  <2>1. {c.name : c \in Range(ls)} = N BY EntriesAt
  <2>2. ByName(ls) = [y \in {c.name : c \in Range(ls)} |-> Identity(ls[At(y)])] BY DEF ByName
  <2> HIDE DEF At, N
  <2> QED BY <2>1, <2>2
<1>3. \A y \in N : At(y) \in 1 .. Len(ls) /\ ls[At(y)].name = y
  <2>1. DOMAIN ls = 1 .. Len(ls) OBVIOUS
  <2> QED BY <2>1
<1>4. ASSUME NEW i \in 1 .. Len(ls) PROVE At(ls[i].name) = i
  <2>1. ls[i].name \in N OBVIOUS
  <2>2. PICK j : j = At(ls[i].name) OBVIOUS
  <2>3. j \in 1 .. Len(ls) /\ ls[j].name = ls[i].name BY <1>3, <2>1, <2>2
  <2> QED BY <1>1, <2>2, <2>3
<1> HIDE DEF At
<1>5. ByName(ls) \in [N -> V] BY <1>2, <1>3
<1>6. ASSUME NEW i \in 1 .. Len(ls) PROVE ByName(ls)[ls[i].name] = Identity(ls[i])
  <2>1. ls[i].name \in N OBVIOUS
  <2> QED BY <1>2, <1>4, <2>1
<1> HIDE DEF V
<1> QED BY <1>5, <1>6

(* The lock matches exactly when it has the entries that are desired, each once. *)
LEMMA LockMatchesEntries ==
    ASSUME NEW C, NEW ms \in Seq(C), NEW D, NEW ls \in Seq(D),
           IsInjective(NamesOf(ms)), IsInjective(NamesOf(ls))
    PROVE  TakenAll(FoldLeft(TakeOut, AtFirst(ByName(ls)), ms)) <=> Entries(ms) = Entries(ls)
<1>1. PICK N, V : /\ N = {ls[i].name : i \in 1 .. Len(ls)}
                  /\ ByName(ls) \in [N -> V]
                  /\ \A i \in 1 .. Len(ls) : ByName(ls)[ls[i].name] = Identity(ls[i])
  BY ByNameFacts
<1>2. PICK B : B = ByName(ls) OBVIOUS
<1> DEFINE Same == AllIn(ms, B, N)
<1>3. TakenAll(FoldLeft(TakeOut, AtFirst(B), ms)) <=> Same BY <1>1, <1>2, TakenOutExactly
<1> USE DEF AllIn
<1>4. Entries(ms) = {<<ms[i].name, Identity(ms[i])>> : i \in 1 .. Len(ms)} BY EntriesAt
<1>5. Entries(ls) = {<<ls[i].name, Identity(ls[i])>> : i \in 1 .. Len(ls)} BY EntriesAt
<1>6. ASSUME Same PROVE Entries(ms) = Entries(ls)
  <2>1. ASSUME NEW i \in 1 .. Len(ms) PROVE <<ms[i].name, Identity(ms[i])>> \in Entries(ls)
    <3>1. PICK j \in 1 .. Len(ls) : ls[j].name = ms[i].name BY <1>1, <1>6
    <3>2. Identity(ls[j]) = Identity(ms[i]) BY <1>1, <1>2, <1>6, <3>1
    <3> QED BY <1>5, <3>1, <3>2
  <2>2. ASSUME NEW j \in 1 .. Len(ls) PROVE <<ls[j].name, Identity(ls[j])>> \in Entries(ms)
    <3>1. ls[j].name \in N BY <1>1
    <3>2. PICK i \in 1 .. Len(ms) : ms[i].name = ls[j].name BY <1>6, <3>1
    <3>3. Identity(ls[j]) = Identity(ms[i]) BY <1>1, <1>2, <1>6, <3>2
    <3> QED BY <1>4, <3>2, <3>3
  <2> QED BY <1>4, <1>5, <2>1, <2>2
<1>7. ASSUME Entries(ms) = Entries(ls) PROVE Same
  <2>1. ASSUME NEW i \in 1 .. Len(ms) PROVE ms[i].name \in N /\ B[ms[i].name] = Identity(ms[i])
    <3>1. <<ms[i].name, Identity(ms[i])>> \in Entries(ls) BY <1>4, <1>7
    <3>2. PICK j \in 1 .. Len(ls) : <<ls[j].name, Identity(ls[j])>> = <<ms[i].name, Identity(ms[i])>>
      BY <1>5, <3>1
    <3>3. ls[j].name = ms[i].name /\ Identity(ls[j]) = Identity(ms[i]) BY <3>2
    <3> QED BY <1>1, <1>2, <3>3
  <2>2. ASSUME NEW y \in N PROVE \E i \in 1 .. Len(ms) : ms[i].name = y
    <3>1. PICK j \in 1 .. Len(ls) : ls[j].name = y BY <1>1
    <3>2. <<ls[j].name, Identity(ls[j])>> \in Entries(ms) BY <1>5, <1>7
    <3>3. PICK i \in 1 .. Len(ms) : <<ms[i].name, Identity(ms[i])>> = <<ls[j].name, Identity(ls[j])>>
      BY <1>4, <3>2
    <3> QED BY <3>1, <3>3
  <2> QED BY <2>1, <2>2
<1> HIDE DEF Same
<1> QED BY <1>2, <1>3, <1>6, <1>7

(* The version of the one node runtime is the version the plan takes. *)
LEMMA OneNodeOnly ==
    ASSUME NEW C, NEW ms \in Seq(C), NEW D, NEW ls \in Seq(D),
           IsInjective(NamesOf(ls)), Entries(ms) = Entries(ls), OneNode(ms)
    PROVE  NodeVersion(ms) = NodeVersion(ls)
<1> DEFINE Nodes(cs) == {i \in DOMAIN cs : IsNode(cs[i])}
           FirstNode(cs) == CHOOSE i \in Nodes(cs) : \A j \in Nodes(cs) : i <= j
<1>0. DOMAIN ms = 1 .. Len(ms) /\ DOMAIN ls = 1 .. Len(ls) /\ Len(ms) \in Nat /\ Len(ls) \in Nat OBVIOUS
<1>1. \A i, j \in 1 .. Len(ls) : ls[i].name = ls[j].name => i = j BY DEF IsInjective, NamesOf
<1>2. Entries(ms) = {<<ms[i].name, Identity(ms[i])>> : i \in 1 .. Len(ms)} BY EntriesAt
<1>3. Entries(ls) = {<<ls[i].name, Identity(ls[i])>> : i \in 1 .. Len(ls)} BY EntriesAt
<1>4. ASSUME NEW c, NEW d, <<c.name, Identity(c)>> = <<d.name, Identity(d)>>
      PROVE  c.name = d.name /\ c.kind = d.kind /\ c.version = d.version /\ (IsNode(c) <=> IsNode(d))
  <2>1. c.name = d.name /\ Identity(c) = Identity(d) BY <1>4
  <2>2. c.kind = d.kind /\ c.version = d.version BY <2>1 DEF Identity
  <2> QED BY <2>1, <2>2 DEF IsNode
<1>5. ASSUME NEW i \in 1 .. Len(ms)
      PROVE  \E j \in 1 .. Len(ls) : /\ ls[j].name = ms[i].name /\ ls[j].version = ms[i].version
                                     /\ IsNode(ls[j]) <=> IsNode(ms[i])
  <2>1. <<ms[i].name, Identity(ms[i])>> \in Entries(ls) BY <1>2
  <2>2. PICK j \in 1 .. Len(ls) : <<ls[j].name, Identity(ls[j])>> = <<ms[i].name, Identity(ms[i])>>
    BY <1>3, <2>1
  <2> QED BY <1>4, <2>2
<1>6. ASSUME NEW j \in 1 .. Len(ls)
      PROVE  \E i \in 1 .. Len(ms) : /\ ls[j].name = ms[i].name /\ ls[j].version = ms[i].version
                                     /\ IsNode(ls[j]) <=> IsNode(ms[i])
  <2>1. <<ls[j].name, Identity(ls[j])>> \in Entries(ms) BY <1>3
  <2>2. PICK i \in 1 .. Len(ms) : <<ms[i].name, Identity(ms[i])>> = <<ls[j].name, Identity(ls[j])>>
    BY <1>2, <2>1
  <2> QED BY <1>4, <2>2
<1>7. /\ NodeVersion(ms) = IF Nodes(ms) = {} THEN <<>> ELSE TrimV(ms[FirstNode(ms)].version)
      /\ NodeVersion(ls) = IF Nodes(ls) = {} THEN <<>> ELSE TrimV(ls[FirstNode(ls)].version)
  BY DEF NodeVersion
<1>8. CASE Nodes(ms) = {}
  <2>1. Nodes(ls) = {} BY <1>0, <1>6, <1>8
  <2> QED BY <1>7, <1>8, <2>1
<1>9. CASE Nodes(ms) # {}
  <2>1. PICK i \in 1 .. Len(ms) : IsNode(ms[i]) BY <1>0, <1>9
  <2>2. \A k \in Nodes(ms) : k = i BY <1>0, <2>1 DEF OneNode
  <2>3. Nodes(ms) = {i} BY <1>0, <2>1, <2>2
  <2>4. PICK j \in 1 .. Len(ls) : ls[j].name = ms[i].name /\ ls[j].version = ms[i].version /\ IsNode(ls[j])
    BY <1>5, <2>1
  <2>5. ASSUME NEW k \in Nodes(ls) PROVE k = j
    <3>1. k \in 1 .. Len(ls) /\ IsNode(ls[k]) BY <1>0
    <3>2. PICK h \in 1 .. Len(ms) : ls[k].name = ms[h].name /\ IsNode(ms[h]) BY <1>6, <3>1
    <3>3. h = i BY <1>0, <2>2, <3>2
    <3> QED BY <1>1, <2>4, <3>1, <3>2, <3>3
  <2>6. Nodes(ls) = {j} BY <1>0, <2>4, <2>5
  <2> HIDE DEF Nodes
  <2>7. FirstNode(ms) = i /\ FirstNode(ls) = j BY <1>0, <2>3, <2>6
  <2> HIDE DEF FirstNode
  <2> QED BY <1>7, <1>9, <2>4, <2>6, <2>7
<1> QED BY <1>8, <1>9

(* A policy names that version. *)
LEMMA PolicyNamesVersion ==
    ASSUME Parsable(<<>>)
    PROVE  FALSE
<1>1. <<>> \in Seq({}) /\ Len(<<>>) = 0 OBVIOUS
<1>2. PICK r : SplitSteps(r, <<>>, ".", {}) BY <1>1, SplitRun
<1>3. Split(<<>>, ".") = << <<>> >> BY <1>1, <1>2 DEF SplitSteps
<1> QED BY <1>3 DEF Parsable

(* For any manifest and lock whose components are lists, a plan is made exactly
   when both are valid and agree on every component, and then the locked node
   satisfies all ranges. *)
THEOREM PlansExact ==
    ASSUME NEW C, NEW D, NEW m, NEW l, m.components \in Seq(C), l.components \in Seq(D)
    PROVE  PlanExact(m, l)
<1> DEFINE ms == m.components
           ls == l.components
           node == NodeVersion(ls)
           Agree == /\ <<m.cli, m.bundle, m.target>> = <<l.cli, l.bundle, l.target>>
                    /\ Entries(ms) = Entries(ls)
                    /\ m.policy # <<>> => TrimV(m.policy) = node
<1>1. ASSUME DesiredOK(m), LockOK(l)
      PROVE  LockMatches(m, l) <=> Agree
  <2>1. IsInjective(NamesOf(ms)) /\ IsInjective(NamesOf(ls)) BY <1>1 DEF DesiredOK, LockOK
  <2>2. TakenAll(FoldLeft(TakeOut, AtFirst(ByName(ls)), ms)) <=> Entries(ms) = Entries(ls)
    BY <2>1, LockMatchesEntries
  <2>3. m.policy # <<>> => TrimV(m.policy) # <<>> BY <1>1, PolicyNamesVersion DEF DesiredOK
  <2>4. <<m.cli, m.bundle, m.target>> = <<l.cli, l.bundle, l.target>> <=>
          m.cli = l.cli /\ m.bundle = l.bundle /\ m.target = l.target
    OBVIOUS
  <2>5. (m.policy # <<>> => node # <<>> /\ TrimV(m.policy) = node) <=>
          (m.policy # <<>> => TrimV(m.policy) = node)
    <3> HIDE DEF node
    <3> QED BY <2>3
  <2> QED BY <2>2, <2>4, <2>5 DEF LockMatches, TakenAll, AtFirst
<1>2. Planned(m, l) <=> DesiredOK(m) /\ LockOK(l) /\ Agree BY <1>1 DEF Planned
<1>3. ASSUME Planned(m, l), NEW c \in Range(ms), c.runtime # <<>>
      PROVE  Satisfies(node, c.runtime)
  <2>1. LockOK(l) /\ Entries(ms) = Entries(ls) BY <1>2, <1>3
  <2>2. <<c.name, Identity(c)>> \in Entries(ls) BY <1>3, <2>1 DEF Entries
  <2>3. PICK d \in Range(ls) : <<c.name, Identity(c)>> = <<d.name, Identity(d)>> BY <2>2 DEF Entries
  <2>4. Identity(c) = Identity(d) BY <2>3
  <2>5. c.runtime = d.runtime BY <2>4 DEF Identity
  <2> QED BY <1>3, <2>1, <2>3, <2>5 DEF LockOK, Compatible
<1>4. ASSUME Planned(m, l), OneNode(ms) PROVE NodeVersion(ms) = node
  <2>1. LockOK(l) /\ Entries(ms) = Entries(ls) BY <1>2, <1>4
  <2>2. IsInjective(NamesOf(ls)) BY <2>1 DEF LockOK
  <2> QED BY <1>4, <2>1, <2>2, OneNodeOnly
<1> QED BY <1>2, <1>3, <1>4 DEF PlanExact, Entries

-----------------------------------------------------------------------------
(* Archives: entries and the tree they make. *)

EntriesOf(S, K) == [name : Seq(S), kind : K, size : Int, target : Seq(S), whole : BOOLEAN]
NameAt(a, i) == TrimSlashes(a[i].name)
IsDir(e) == e.kind = "dir"
IsFile(e) == e.kind = "file"
IsLink(e) == e.kind = "link"
Way(p) == Ancestors(p) \cup {p}

(* An ancestor of a path is a path above it. *)
LEMMA AncestorFacts ==
    ASSUME NEW S, NEW p \in Seq(S), NEW q \in Ancestors(p)
    PROVE  q \in Seq(S) /\ q # <<>> /\ q # p
<1>1. PICK i \in 1 .. Len(p) - 1 : q = SubSeq(p, 1, i) BY DEF Ancestors
<1>2. \A j \in 1 .. i : p[j] \in S OBVIOUS
<1>3. q \in Seq(S) /\ Len(q) = (IF 1 <= i THEN i - 1 + 1 ELSE 0) BY <1>1, <1>2, SubSeqProperties
<1>4. Len(q) = i /\ i # 0 /\ i # Len(p) BY <1>3
<1> QED BY <1>3, <1>4

(* The parent of a path is one. *)
LEMMA ParentPath ==
    ASSUME NEW S, NEW p \in Seq(S)
    PROVE  Parent(p) \in Seq(S)
<1>1. PICK m \in Int : m = Len(p) - 1 OBVIOUS
<1>2. \A j \in 1 .. m : p[j] \in S BY <1>1
<1>3. SubSeq(p, 1, m) \in Seq(S) BY <1>2, SubSeqProperties
<1> QED BY <1>1, <1>3 DEF Parent

(* The way to the parent is the ancestors, but for the root. *)
LEMMA ParentFacts ==
    ASSUME NEW S, NEW p \in Seq(S), p # <<>>
    PROVE  /\ Parent(p) \in Seq(S)
           /\ Ancestors(p) \subseteq Way(Parent(p))
           /\ Way(Parent(p)) \subseteq Ancestors(p) \cup {<<>>}
<1>1. PICK m \in Nat \ {0} : m = Len(p) OBVIOUS
<1>2. \A j \in 1 .. m : p[j] \in S BY <1>1
<1>3. PICK q : q = Parent(p) OBVIOUS
<1>4. q = SubSeq(p, 1, m - 1) BY <1>1, <1>3 DEF Parent
<1>5. q \in Seq(S) /\ Len(q) = m - 1 /\ \A j \in 1 .. m - 1 : q[j] = p[j]
  <2>1. \A j \in 1 .. m - 1 : p[j] \in S /\ 1 + j - 1 = j BY <1>2
  <2>2. /\ q \in Seq(S) /\ Len(q) = (IF 1 <= m - 1 THEN m - 1 - 1 + 1 ELSE 0)
        /\ \A j \in 1 .. m - 1 - 1 + 1 : q[j] = p[1 + j - 1]
    BY <1>4, <2>1, SubSeqProperties
  <2>3. m - 1 - 1 + 1 = m - 1 OBVIOUS
  <2> QED BY <2>1, <2>2, <2>3
<1>6. ASSUME NEW i \in 1 .. m - 2 PROVE SubSeq(q, 1, i) = SubSeq(p, 1, i)
  <2>1. \A j \in 1 .. i : q[j] \in S /\ p[j] \in S /\ 1 + j - 1 = j /\ p[1 + j - 1] = q[1 + j - 1] BY <1>2, <1>5
  <2>2. PICK x : x = SubSeq(q, 1, i) OBVIOUS
  <2>3. PICK y : y = SubSeq(p, 1, i) OBVIOUS
  <2>4. /\ x \in Seq(S) /\ Len(x) = (IF 1 <= i THEN i - 1 + 1 ELSE 0)
        /\ \A j \in 1 .. i - 1 + 1 : x[j] = q[1 + j - 1]
    BY <1>5, <2>1, <2>2, SubSeqProperties
  <2>5. /\ y \in Seq(S) /\ Len(y) = (IF 1 <= i THEN i - 1 + 1 ELSE 0)
        /\ \A j \in 1 .. i - 1 + 1 : y[j] = p[1 + j - 1]
    BY <2>1, <2>3, SubSeqProperties
  <2>6. x = y BY <2>1, <2>4, <2>5, SeqEqual
  <2> QED BY <2>2, <2>3, <2>6
<1>7. Ancestors(p) = {SubSeq(p, 1, i) : i \in 1 .. m - 1} BY <1>1 DEF Ancestors
<1>8. Ancestors(q) = {SubSeq(p, 1, i) : i \in 1 .. m - 2}
  <2>1. Len(q) - 1 = m - 2 BY <1>5
  <2>2. Ancestors(q) = {SubSeq(q, 1, i) : i \in 1 .. m - 2} BY <2>1 DEF Ancestors
  <2> QED BY <1>6, <2>2
<1>9. \A i \in 1 .. m - 1 : i \in 1 .. m - 2 \/ i = m - 1 OBVIOUS
<1>10. \A i \in 1 .. m - 2 : i \in 1 .. m - 1 OBVIOUS
<1>11. Ancestors(p) \subseteq Way(q) BY <1>4, <1>7, <1>8, <1>9 DEF Way
<1>12. q \in Ancestors(p) \cup {<<>>}
  <2>1. CASE m = 1
    <3>1. Len(q) = 0 BY <1>5, <2>1
    <3> QED BY <1>5, <3>1
  <2>2. CASE m > 1
    <3>1. m - 1 \in 1 .. m - 1 BY <2>2
    <3> QED BY <1>4, <1>7, <3>1
  <2> QED BY <2>1, <2>2
<1>13. Way(q) \subseteq Ancestors(p) \cup {<<>>} BY <1>7, <1>8, <1>10, <1>12 DEF Way
<1> QED BY <1>3, <1>5, <1>11, <1>13

(* The values: trees with nodes, and what extraction keeps. *)
Maps(D, V) == UNION {[X -> V] : X \in SUBSET D}
Nodes(S) == [kind : {"dir"}] \cup [kind : {"file"}, size : Int] \cup [kind : {"link"}, target : Seq(S)]
States(S, K) ==
    [ok : BOOLEAN, seen : Maps(Seq(S), K), tree : Maps(Seq(S), Nodes(S)), links : Seq(EntriesOf(S, K)),
     bytes : Int, entries : Int]

(* What is a map from some of D to V. *)
LEMMA MapFacts ==
    ASSUME NEW D, NEW V, NEW f
    PROVE  f \in Maps(D, V) <=>
             DOMAIN f \subseteq D /\ f = [x \in DOMAIN f |-> f[x]] /\ \A x \in DOMAIN f : f[x] \in V
<1>1. ASSUME f \in Maps(D, V)
      PROVE  DOMAIN f \subseteq D /\ f = [x \in DOMAIN f |-> f[x]] /\ \A x \in DOMAIN f : f[x] \in V
  <2>1. PICK X \in SUBSET D : f \in [X -> V] BY <1>1 DEF Maps
  <2> QED BY <2>1
<1>2. ASSUME DOMAIN f \subseteq D, f = [x \in DOMAIN f |-> f[x]], \A x \in DOMAIN f : f[x] \in V
      PROVE  f \in Maps(D, V)
  <2>1. f \in [DOMAIN f -> V] BY <1>2
  <2> QED BY <1>2, <2>1 DEF Maps
<1> QED BY <1>1, <1>2

Grown(tree, ps) == [p \in DOMAIN tree \cup ps |-> IF p \in DOMAIN tree THEN tree[p] ELSE Dir]

(* Directories that are added. *)
LEMMA GrownTyped ==
    ASSUME NEW S, NEW tree \in Maps(Seq(S), Nodes(S)), NEW ps \in SUBSET Seq(S)
    PROVE  Grown(tree, ps) \in Maps(Seq(S), Nodes(S))
<1>1. DOMAIN tree \subseteq Seq(S) /\ \A p \in DOMAIN tree : tree[p] \in Nodes(S) BY MapFacts
<1>2. Dir \in Nodes(S) BY DEF Dir, Nodes
<1>3. DOMAIN Grown(tree, ps) \subseteq Seq(S) BY <1>1 DEF Grown
<1>4. Grown(tree, ps) = [p \in DOMAIN Grown(tree, ps) |-> Grown(tree, ps)[p]] BY DEF Grown
<1>5. \A p \in DOMAIN Grown(tree, ps) : Grown(tree, ps)[p] \in Nodes(S) BY <1>1, <1>2 DEF Grown
<1> QED BY <1>3, <1>4, <1>5, MapFacts

(* A node that is added. *)
LEMMA PutTyped ==
    ASSUME NEW S, NEW tree \in Maps(Seq(S), Nodes(S)), NEW p \in Seq(S), NEW node \in Nodes(S)
    PROVE  Put(tree, p, node) \in Maps(Seq(S), Nodes(S))
<1>1. DOMAIN tree \subseteq Seq(S) /\ \A q \in DOMAIN tree : tree[q] \in Nodes(S) BY MapFacts
<1>2. DOMAIN Put(tree, p, node) \subseteq Seq(S) BY <1>1 DEF Put
<1>3. Put(tree, p, node) = [q \in DOMAIN Put(tree, p, node) |-> Put(tree, p, node)[q]] BY DEF Put
<1>4. \A q \in DOMAIN Put(tree, p, node) : Put(tree, p, node)[q] \in Nodes(S) BY <1>1 DEF Put
<1> QED BY <1>2, <1>3, <1>4, MapFacts

Regrown(x, t, y) ==
    /\ y.tree = t /\ y.ok = x.ok /\ y.seen = x.seen /\ y.links = x.links
    /\ y.bytes = x.bytes /\ y.entries = x.entries

(* A state in which only the tree is another. *)
LEMMA WithTree ==
    ASSUME NEW S, NEW K, NEW x \in States(S, K), NEW t \in Maps(Seq(S), Nodes(S))
    PROVE  [x EXCEPT !.tree = t] \in States(S, K) /\ Regrown(x, t, [x EXCEPT !.tree = t])
BY DEF States, Regrown

(* A stop changes nothing else. *)
LEMMA Stopped ==
    ASSUME NEW S, NEW K, NEW x \in States(S, K)
    PROVE  Stop(x) \in States(S, K) /\ Stop(x).ok = FALSE
BY DEF States, Stop

(* mkdirNoSymlinkBelow either stops or adds the directories that are missing. *)
Blocked(tree, ps) == \E p \in ps : p \in DOMAIN tree /\ tree[p].kind # "dir"

LEMMA MakeDirsFacts ==
    ASSUME NEW x, NEW d
    PROVE  /\ Blocked(x.tree, Way(d)) => MakeDirs(x, d) = Stop(x)
           /\ ~Blocked(x.tree, Way(d)) => MakeDirs(x, d) = [x EXCEPT !.tree = Grown(x.tree, Way(d))]
<1> DEFINE way == Ancestors(d) \cup {d}
           new == {p \in way : p \notin DOMAIN x.tree}
<1>1. Way(d) = way BY DEF Way
<1>2. Blocked(x.tree, way) <=> \E p \in way \ new : x.tree[p].kind # "dir" BY DEF Blocked
<1>3. MakeDirs(x, d) = IF \E p \in way \ new : x.tree[p].kind # "dir" THEN Stop(x)
                       ELSE [x EXCEPT !.tree =
                                  [p \in DOMAIN x.tree \cup new |-> IF p \in new THEN Dir ELSE x.tree[p]]]
  BY DEF MakeDirs
<1>4. [p \in DOMAIN x.tree \cup new |-> IF p \in new THEN Dir ELSE x.tree[p]] = Grown(x.tree, way)
  <2>1. DOMAIN x.tree \cup new = DOMAIN x.tree \cup way OBVIOUS
  <2>2. \A p \in DOMAIN x.tree \cup way : p \in new <=> p \notin DOMAIN x.tree OBVIOUS
  <2> HIDE DEF new, way
  <2> QED BY <2>1, <2>2 DEF Grown
<1> HIDE DEF new, way
<1> QED BY <1>1, <1>2, <1>3, <1>4

(* The tree that the entries at the positions I make. *)
NamesAt(a, I) == {NameAt(a, i) : i \in I}
TreeFor(tree, a, I) ==
    /\ DOMAIN tree = {<<>>} \cup UNION {Way(NameAt(a, i)) : i \in I}
    /\ \A i \in I : tree[NameAt(a, i)] = NodeOf(a[i])
    /\ \A p \in DOMAIN tree : p \notin NamesAt(a, I) => tree[p] = Dir

Typical(e) == IsDir(e) \/ IsFile(e) \/ IsLink(e)

(* The node of an entry has its kind. *)
LEMMA NodeFacts ==
    ASSUME NEW S, NEW K, NEW e \in EntriesOf(S, K), Typical(e)
    PROVE  NodeOf(e) \in Nodes(S) /\ NodeOf(e).kind = e.kind
<1>1. CASE e.kind = "dir"
  <2>1. NodeOf(e) = Dir BY <1>1 DEF NodeOf
  <2> QED BY <1>1, <2>1 DEF Dir, Nodes
<1>2. CASE e.kind = "file"
  <2>1. NodeOf(e) = File(e.size) BY <1>2 DEF NodeOf
  <2>2. e.size \in Int BY DEF EntriesOf
  <2> QED BY <1>2, <2>1, <2>2 DEF File, Nodes
<1>3. CASE e.kind = "link"
  <2>1. NodeOf(e) = Link(e.target) BY <1>3 DEF NodeOf
  <2>2. e.target \in Seq(S) BY DEF EntriesOf
  <2> QED BY <1>3, <2>1, <2>2 DEF Link, Nodes
<1> QED BY <1>1, <1>2, <1>3 DEF Typical, IsDir, IsFile, IsLink

Named(a, I, S, K) ==
    \A i \in I : a[i] \in EntriesOf(S, K) /\ NameAt(a, i) \in Seq(S) /\ NameAt(a, i) # <<>> /\ Typical(a[i])

(* What is in the way of a new entry is an entry that has a name of its own. *)
LEMMA InTheWay ==
    ASSUME NEW S, NEW K, NEW a, NEW I, Named(a, I, S, K), NEW tree, TreeFor(tree, a, I),
           NEW p \in Seq(S), NEW ps, Ancestors(p) \subseteq ps, ps \subseteq Ancestors(p) \cup {<<>>}
    PROVE  Blocked(tree, ps) <=> \E i \in I : NameAt(a, i) \in Ancestors(p) /\ ~IsDir(a[i])
<1>1. ASSUME NEW q \in ps, q \in DOMAIN tree, tree[q].kind # "dir"
      PROVE  \E i \in I : NameAt(a, i) \in Ancestors(p) /\ ~IsDir(a[i])
  <2>1. tree[q] # Dir BY <1>1 DEF Dir
  <2>2. PICK i \in I : q = NameAt(a, i) BY <1>1, <2>1 DEF TreeFor, NamesAt
  <2>3. q # <<>> /\ tree[q] = NodeOf(a[i]) BY <2>2 DEF Named, TreeFor
  <2>4. NodeOf(a[i]).kind = a[i].kind BY NodeFacts DEF Named
  <2> QED BY <1>1, <2>2, <2>3, <2>4 DEF IsDir
<1>2. ASSUME NEW i \in I, NameAt(a, i) \in Ancestors(p), ~IsDir(a[i])
      PROVE  Blocked(tree, ps)
  <2>1. NameAt(a, i) \in DOMAIN tree BY DEF TreeFor, Way
  <2>2. tree[NameAt(a, i)] = NodeOf(a[i]) BY DEF TreeFor
  <2>3. NodeOf(a[i]).kind = a[i].kind BY NodeFacts DEF Named
  <2> QED BY <1>2, <2>1, <2>2, <2>3 DEF Blocked, IsDir
<1> QED BY <1>1, <1>2 DEF Blocked

(* What is in the tree without a name of its own is above something that has one. *)
LEMMA InTheTree ==
    ASSUME NEW a, NEW I, NEW tree, TreeFor(tree, a, I), NEW p, p # <<>>, p \notin NamesAt(a, I)
    PROVE  p \in DOMAIN tree <=> \E i \in I : p \in Ancestors(NameAt(a, i))
BY DEF TreeFor, Way, NamesAt

(* An entry is added. *)
LEMMA WaysAdded ==
    ASSUME NEW a, NEW I, NEW k
    PROVE  UNION {Way(NameAt(a, i)) : i \in I \cup {k}} =
             (UNION {Way(NameAt(a, i)) : i \in I}) \cup Way(NameAt(a, k))
<1> DEFINE all == {Way(NameAt(a, i)) : i \in I \cup {k}}
           some == {Way(NameAt(a, i)) : i \in I}
           last == Way(NameAt(a, k))
<1>1. all = some \cup {last} OBVIOUS
<1> HIDE DEF all, some, last
<1>2. UNION all = (UNION some) \cup last BY <1>1
<1> QED BY <1>2 DEF all, some, last

(* A file or link is added below directories that are added with it. *)
LEMMA AddedNode ==
    ASSUME NEW S, NEW K, NEW a, NEW I, Named(a, I, S, K), NEW tree, TreeFor(tree, a, I),
           NEW k, Named(a, {k}, S, K), NameAt(a, k) \notin DOMAIN tree,
           NEW ps, Ancestors(NameAt(a, k)) \subseteq ps, ps \subseteq Ancestors(NameAt(a, k)) \cup {<<>>}
    PROVE  /\ NameAt(a, k) \notin DOMAIN Grown(tree, ps)
           /\ TreeFor(Put(Grown(tree, ps), NameAt(a, k), NodeOf(a[k])), a, I \cup {k})
<1>1. PICK p : p = NameAt(a, k) OBVIOUS
<1>2. PICK t : t = Put(Grown(tree, ps), p, NodeOf(a[k])) OBVIOUS
<1>3. p \in Seq(S) /\ p # <<>> BY <1>1 DEF Named
<1>4. p \notin Ancestors(p) BY <1>3, AncestorFacts
<1>5. p \notin DOMAIN Grown(tree, ps) BY <1>1, <1>3, <1>4 DEF Grown
<1>6. /\ DOMAIN t = DOMAIN tree \cup ps \cup {p}
      /\ t[p] = NodeOf(a[k])
      /\ \A q \in DOMAIN tree : t[q] = tree[q]
      /\ \A q \in ps : q \notin DOMAIN tree => t[q] = Dir
  BY <1>1, <1>2, <1>3, <1>4 DEF Put, Grown
<1>7. DOMAIN t = {<<>>} \cup UNION {Way(NameAt(a, i)) : i \in I \cup {k}}
  <2>1. UNION {Way(NameAt(a, i)) : i \in I \cup {k}} = (UNION {Way(NameAt(a, i)) : i \in I}) \cup Way(p)
    BY <1>1, WaysAdded
  <2>2. DOMAIN tree = {<<>>} \cup UNION {Way(NameAt(a, i)) : i \in I} BY DEF TreeFor
  <2> QED BY <1>1, <1>6, <2>1, <2>2 DEF Way
<1>8. \A i \in I \cup {k} : t[NameAt(a, i)] = NodeOf(a[i])
  <2>1. \A i \in I : NameAt(a, i) \in DOMAIN tree BY DEF TreeFor, Way
  <2> QED BY <1>1, <1>6, <2>1 DEF TreeFor
<1>9. ASSUME NEW q \in DOMAIN t, q \notin NamesAt(a, I \cup {k}) PROVE t[q] = Dir
  <2>1. q \notin NamesAt(a, I) /\ q # p BY <1>1, <1>9 DEF NamesAt
  <2>2. q \in DOMAIN tree => tree[q] = Dir BY <2>1 DEF TreeFor
  <2> QED BY <1>6, <2>1, <2>2
<1> QED BY <1>1, <1>2, <1>5, <1>7, <1>8, <1>9 DEF TreeFor

(* A directory is added with those above it. *)
LEMMA AddedDir ==
    ASSUME NEW S, NEW K, NEW a, NEW I, Named(a, I, S, K), NEW tree, TreeFor(tree, a, I),
           NEW k, Named(a, {k}, S, K), IsDir(a[k]), NameAt(a, k) \notin DOMAIN tree
    PROVE  TreeFor(Grown(tree, Way(NameAt(a, k))), a, I \cup {k})
<1>1. PICK p : p = NameAt(a, k) OBVIOUS
<1>2. PICK t : t = Grown(tree, Way(p)) OBVIOUS
<1>3. p \in Seq(S) /\ p # <<>> BY <1>1 DEF Named
<1>4. NodeOf(a[k]) = Dir BY DEF NodeOf, IsDir
<1>5. /\ DOMAIN t = DOMAIN tree \cup Way(p)
      /\ t[p] = NodeOf(a[k])
      /\ \A q \in DOMAIN tree : t[q] = tree[q]
      /\ \A q \in Way(p) : q \notin DOMAIN tree => t[q] = Dir
  BY <1>1, <1>2, <1>4 DEF Grown, Way
<1>6. DOMAIN t = {<<>>} \cup UNION {Way(NameAt(a, i)) : i \in I \cup {k}}
  <2>1. UNION {Way(NameAt(a, i)) : i \in I \cup {k}} = (UNION {Way(NameAt(a, i)) : i \in I}) \cup Way(p)
    BY <1>1, WaysAdded
  <2>2. DOMAIN tree = {<<>>} \cup UNION {Way(NameAt(a, i)) : i \in I} BY DEF TreeFor
  <2> QED BY <1>5, <2>1, <2>2
<1>7. \A i \in I \cup {k} : t[NameAt(a, i)] = NodeOf(a[i])
  <2>1. \A i \in I : NameAt(a, i) \in DOMAIN tree BY DEF TreeFor, Way
  <2> QED BY <1>1, <1>5, <2>1 DEF TreeFor
<1>8. ASSUME NEW q \in DOMAIN t, q \notin NamesAt(a, I \cup {k}) PROVE t[q] = Dir
  <2>1. q \notin NamesAt(a, I) BY <1>8 DEF NamesAt
  <2>2. q \in DOMAIN tree => tree[q] = Dir BY <2>1 DEF TreeFor
  <2> QED BY <1>5, <2>2
<1> QED BY <1>1, <1>2, <1>6, <1>7, <1>8 DEF TreeFor

-----------------------------------------------------------------------------
(* The first pass. *)

SizeIn(e) == IF IsFile(e) THEN e.size ELSE 0
NonLinks(a, k) == {i \in 1 .. k : ~IsLink(a[i])}

SeenFor(seen, a, k) ==
    /\ DOMAIN seen = NamesAt(a, 1 .. k)
    /\ \A i \in 1 .. k : seen[NameAt(a, i)] = a[i].kind

(* The links that were put aside, at their positions in the archive. *)
LinkPlaces(pos, links, a, k) ==
    /\ pos \in [1 .. Len(links) -> 1 .. k]
    /\ \A q \in 1 .. Len(links) : IsLink(a[pos[q]]) /\ links[q] = a[pos[q]]
    /\ \A q, w \in 1 .. Len(links) : pos[q] = pos[w] => q = w
    /\ \A i \in 1 .. k : IsLink(a[i]) => \E q \in 1 .. Len(links) : pos[q] = i
LinksFor(links, a, k) == \E pos : LinkPlaces(pos, links, a, k)

Passed(x, a, k, bytes) ==
    /\ x.ok /\ x.entries = k /\ x.bytes = bytes /\ bytes <= MaxOutputBytes
    /\ SeenFor(x.seen, a, k)
    /\ TreeFor(x.tree, a, NonLinks(a, k))
    /\ LinksFor(x.links, a, k)

(* What the first pass looks at in an entry: by itself, and against an entry
   before it. *)
EntryFit(e, symlinks) ==
    /\ CleanName(e.name) /\ Supported(e, symlinks)
    /\ IF IsFile(e) THEN 0 <= e.size /\ e.size <= MaxFileBytes /\ e.whole ELSE e.size = 0
    /\ IsLink(e) => TargetOK(e)
PairFit(a, i, k) ==
    /\ NameAt(a, i) # NameAt(a, k)
    /\ NameAt(a, i) \in Ancestors(NameAt(a, k)) => IsDir(a[i])
    /\ NameAt(a, k) \in Ancestors(NameAt(a, i)) => ~IsDir(a[k]) /\ (IsFile(a[k]) => IsLink(a[i]))
StepFit(a, k, bytes, symlinks) ==
    /\ k <= MaxEntries /\ EntryFit(a[k], symlinks) /\ bytes + SizeIn(a[k]) <= MaxOutputBytes
    /\ \A i \in 1 .. k - 1 : PairFit(a, i, k)

(* Only directories, files and links are extracted. *)
LEMMA SupportedTypical ==
    ASSUME NEW e, NEW symlinks, Supported(e, symlinks)
    PROVE  Typical(e)
BY DEF Supported, Typical, IsDir, IsFile, IsLink

(* No entry is of two kinds. *)
LEMMA KindsApart ==
    ASSUME NEW e
    PROVE  ~(IsDir(e) /\ IsFile(e)) /\ ~(IsDir(e) /\ IsLink(e)) /\ ~(IsFile(e) /\ IsLink(e))
BY DEF IsDir, IsFile, IsLink

(* A clean name is not empty. *)
LEMMA CleanNamed ==
    ASSUME NEW S, NEW name \in Seq(S), CleanName(name)
    PROVE  TrimSlashes(name) \in Seq(S) /\ TrimSlashes(name) # <<>>
BY TrimmedPath DEF CleanName

Entered(x, entry) ==
    [x EXCEPT !.entries = @ + 1,
              !.seen = Put(@, TrimSlashes(entry.name), entry.kind),
              !.bytes = IF entry.kind = "file" THEN @ + entry.size ELSE @]

(* What is noted of an entry before it is written. *)
LEMMA EnteredFacts ==
    ASSUME NEW S, NEW K, NEW x \in States(S, K), NEW e \in EntriesOf(S, K)
    PROVE  /\ Entered(x, e) \in States(S, K)
           /\ Entered(x, e).ok = x.ok /\ Entered(x, e).tree = x.tree /\ Entered(x, e).links = x.links
           /\ Entered(x, e).entries = x.entries + 1
           /\ Entered(x, e).bytes = x.bytes + SizeIn(e)
           /\ DOMAIN Entered(x, e).seen = DOMAIN x.seen \cup {TrimSlashes(e.name)}
           /\ Entered(x, e).seen[TrimSlashes(e.name)] = e.kind
           /\ \A p \in DOMAIN x.seen : p # TrimSlashes(e.name) => Entered(x, e).seen[p] = x.seen[p]
<1>1. PICK p : p = TrimSlashes(e.name) OBVIOUS
<1>2. PICK kind \in K : kind = e.kind BY DEF EntriesOf
<1>3. p \in Seq(S)
  <2>1. e.name \in Seq(S) BY DEF EntriesOf
  <2> QED BY <1>1, <2>1, TrimmedPath
<1>4. PICK f : f = Put(x.seen, p, kind) OBVIOUS
<1>5. /\ DOMAIN f = DOMAIN x.seen \cup {p}
      /\ f = [q \in DOMAIN f |-> f[q]]
      /\ f[p] = kind /\ \A q \in DOMAIN x.seen : q # p => f[q] = x.seen[q]
  <2>1. DOMAIN f = DOMAIN x.seen \cup {p} BY <1>4 DEF Put
  <2>2. f = [q \in DOMAIN f |-> f[q]] BY <1>4 DEF Put
  <2>3. \A q \in DOMAIN f : f[q] = IF q = p THEN kind ELSE x.seen[q] BY <1>4 DEF Put
  <2> QED BY <2>1, <2>2, <2>3
<1>6. f \in Maps(Seq(S), K)
  <2>1. x.seen \in Maps(Seq(S), K) BY DEF States
  <2>2. DOMAIN x.seen \subseteq Seq(S) /\ \A q \in DOMAIN x.seen : x.seen[q] \in K BY <2>1, MapFacts
  <2>3. DOMAIN f \subseteq Seq(S) BY <1>3, <1>5, <2>2
  <2>4. \A q \in DOMAIN f : f[q] \in K
    <3>1. f[p] \in K BY <1>5
    <3>2. \A q \in DOMAIN x.seen : q # p => f[q] \in K BY <1>5, <2>2
    <3> QED BY <1>5, <3>1, <3>2
  <2> QED BY <1>5, <2>3, <2>4, MapFacts
<1>7. PICK b : b = IF e.kind = "file" THEN x.bytes + e.size ELSE x.bytes OBVIOUS
<1>8. b \in Int /\ b = x.bytes + SizeIn(e)
  <2>1. x.bytes \in Int /\ e.size \in Int BY DEF States, EntriesOf
  <2>2. CASE e.kind = "file" BY <1>7, <2>1, <2>2 DEF SizeIn, IsFile
  <2>3. CASE e.kind # "file"
    <3>1. SizeIn(e) = 0 BY <2>3 DEF SizeIn, IsFile
    <3> QED BY <1>7, <2>1, <2>3, <3>1
  <2> QED BY <2>2, <2>3
<1>9. PICK k \in Int : k = x.entries + 1
  <2>1. x.entries \in Int BY DEF States
  <2> QED BY <2>1
<1>10. PICK y : y = [x EXCEPT !.entries = k, !.seen = f, !.bytes = b] OBVIOUS
<1>11. y = Entered(x, e)
  <2>1. Entered(x, e) = [x EXCEPT !.entries = x.entries + 1,
                                  !.seen = Put(x.seen, TrimSlashes(e.name), e.kind),
                                  !.bytes = IF e.kind = "file" THEN x.bytes + e.size ELSE x.bytes]
    BY DEF Entered, States
  <2> QED BY <1>1, <1>2, <1>4, <1>7, <1>9, <1>10, <2>1
<1>12. /\ y \in States(S, K) /\ y.ok = x.ok /\ y.tree = x.tree /\ y.links = x.links
       /\ y.entries = k /\ y.bytes = b /\ y.seen = f
  BY <1>6, <1>8, <1>10 DEF States
<1> QED BY <1>1, <1>2, <1>5, <1>8, <1>9, <1>11, <1>12

(* A step of the loop, by the kind of the entry. *)
LEMMA EntryCases ==
    ASSUME NEW x, NEW e, NEW symlinks, x.ok, ~(x.entries >= MaxEntries), HeaderOK(x, e, symlinks)
    PROVE  /\ IsDir(e) => ExtractEntry(x, e, symlinks) = MakeDirs(Entered(x, e), TrimSlashes(e.name))
           /\ IsFile(e) => ExtractEntry(x, e, symlinks) =
                WriteRegular(MakeDirs(Entered(x, e), Parent(TrimSlashes(e.name))), TrimSlashes(e.name), e)
           /\ IsLink(e) => ExtractEntry(x, e, symlinks) =
                Then([Entered(x, e) EXCEPT !.links = Append(@, e)], TargetOK(e))
<1>1. PICK y : y = Entered(x, e) OBVIOUS
<1>2. PICK p : p = TrimSlashes(e.name) OBVIOUS
<1>3. ExtractEntry(x, e, symlinks) =
        CASE e.kind = "dir" -> MakeDirs(y, p)
          [] e.kind = "file" -> WriteRegular(MakeDirs(y, Parent(p)), p, e)
          [] e.kind = "link" -> Then([y EXCEPT !.links = Append(@, e)], TargetOK(e))
  BY <1>1, <1>2 DEF ExtractEntry, Entered
<1>4. CASE e.kind = "dir" BY <1>1, <1>2, <1>3, <1>4 DEF IsDir, IsFile, IsLink
<1>5. CASE e.kind = "file" BY <1>1, <1>2, <1>3, <1>5 DEF IsDir, IsFile, IsLink
<1>6. CASE e.kind = "link" BY <1>1, <1>2, <1>3, <1>6 DEF IsDir, IsFile, IsLink
<1> QED BY <1>4, <1>5, <1>6 DEF IsDir, IsFile, IsLink

(* A step that stops at once. *)
LEMMA EntryStops ==
    ASSUME NEW x, NEW e, NEW symlinks, ~x.ok \/ x.entries >= MaxEntries \/ ~HeaderOK(x, e, symlinks)
    PROVE  ExtractEntry(x, e, symlinks) = Stop(x)
BY DEF ExtractEntry

(* A state stays one, and stays stopped, when directories are made, *)
LEMMA MakeDirsTyped ==
    ASSUME NEW S, NEW K, NEW x \in States(S, K), NEW d \in Seq(S)
    PROVE  MakeDirs(x, d) \in States(S, K)
<1>1. CASE Blocked(x.tree, Way(d))
  <2>1. MakeDirs(x, d) = Stop(x) BY <1>1, MakeDirsFacts
  <2> QED BY <2>1, Stopped
<1>2. CASE ~Blocked(x.tree, Way(d))
  <2>1. Way(d) \in SUBSET Seq(S) BY AncestorFacts DEF Way
  <2>2. x.tree \in Maps(Seq(S), Nodes(S)) BY DEF States
  <2>3. Grown(x.tree, Way(d)) \in Maps(Seq(S), Nodes(S)) BY <2>1, <2>2, GrownTyped
  <2>4. MakeDirs(x, d) = [x EXCEPT !.tree = Grown(x.tree, Way(d))] BY <1>2, MakeDirsFacts
  <2> QED BY <2>3, <2>4, WithTree
<1> QED BY <1>1, <1>2

(* when a file is written, *)
LEMMA WriteTyped ==
    ASSUME NEW S, NEW K, NEW x \in States(S, K), NEW p \in Seq(S), NEW e \in EntriesOf(S, K)
    PROVE  /\ WriteRegular(x, p, e) \in States(S, K)
           /\ ~x.ok \/ p \in DOMAIN x.tree \/ ~e.whole => WriteRegular(x, p, e).ok = FALSE
           /\ x.ok /\ p \notin DOMAIN x.tree /\ e.whole =>
                Regrown(x, Put(x.tree, p, File(e.size)), WriteRegular(x, p, e))
<1>1. CASE ~x.ok \/ p \in DOMAIN x.tree \/ ~e.whole
  <2>1. WriteRegular(x, p, e) = Stop(x) BY <1>1 DEF WriteRegular
  <2> QED BY <1>1, <2>1, Stopped
<1>2. CASE ~(~x.ok \/ p \in DOMAIN x.tree \/ ~e.whole)
  <2>1. WriteRegular(x, p, e) = [x EXCEPT !.tree = Put(@, p, File(e.size))] BY <1>2 DEF WriteRegular
  <2>2. WriteRegular(x, p, e) = [x EXCEPT !.tree = Put(x.tree, p, File(e.size))] BY <2>1 DEF States
  <2>3. x.tree \in Maps(Seq(S), Nodes(S)) BY DEF States
  <2>4. File(e.size) \in Nodes(S) BY DEF EntriesOf, Nodes, File
  <2>5. Put(x.tree, p, File(e.size)) \in Maps(Seq(S), Nodes(S)) BY <2>3, <2>4, PutTyped
  <2> QED BY <1>2, <2>2, <2>5, WithTree
<1> QED BY <1>1, <1>2

PutAside(x, e) == [x EXCEPT !.links = Append(@, e)]

(* when a link is put aside, *)
LEMMA AsideTyped ==
    ASSUME NEW S, NEW K, NEW x \in States(S, K), NEW e \in EntriesOf(S, K)
    PROVE  /\ PutAside(x, e) \in States(S, K) /\ PutAside(x, e).links = Append(x.links, e)
           /\ PutAside(x, e).ok = x.ok /\ PutAside(x, e).tree = x.tree /\ PutAside(x, e).seen = x.seen
           /\ PutAside(x, e).bytes = x.bytes /\ PutAside(x, e).entries = x.entries
<1>1. x.links \in Seq(EntriesOf(S, K)) BY DEF States
<1>2. PICK l \in Seq(EntriesOf(S, K)) : l = Append(x.links, e)
  <2>1. Append(x.links, e) \in Seq(EntriesOf(S, K)) BY <1>1
  <2> QED BY <2>1
<1>3. PutAside(x, e) = [x EXCEPT !.links = l] BY <1>2 DEF PutAside, States
<1> QED BY <1>2, <1>3 DEF States

(* and in every step of the loop. *)
LEMMA ExtractTyped ==
    ASSUME NEW S, NEW K, NEW x \in States(S, K), NEW e \in EntriesOf(S, K), NEW symlinks
    PROVE  ExtractEntry(x, e, symlinks) \in States(S, K)
<1>1. CASE ~x.ok \/ x.entries >= MaxEntries \/ ~HeaderOK(x, e, symlinks) BY <1>1, EntryStops, Stopped
<1>2. CASE ~(~x.ok \/ x.entries >= MaxEntries \/ ~HeaderOK(x, e, symlinks))
  <2>1. x.ok /\ ~(x.entries >= MaxEntries) /\ HeaderOK(x, e, symlinks) BY <1>2
  <2>2. PICK y \in States(S, K) : y = Entered(x, e) BY EnteredFacts
  <2>3. PICK p : p = TrimSlashes(e.name) OBVIOUS
  <2>4. p \in Seq(S) /\ p # <<>>
    <3>1. e.name \in Seq(S) /\ CleanName(e.name) BY <2>1 DEF EntriesOf, HeaderOK
    <3> QED BY <2>3, <3>1, CleanNamed
  <2>5. Typical(e) BY <2>1, SupportedTypical DEF HeaderOK
  <2>6. CASE IsDir(e)
    <3>1. ExtractEntry(x, e, symlinks) = MakeDirs(y, p) BY <2>1, <2>2, <2>3, <2>6, EntryCases
    <3> QED BY <2>4, <3>1, MakeDirsTyped
  <2>7. CASE IsFile(e)
    <3>1. ExtractEntry(x, e, symlinks) = WriteRegular(MakeDirs(y, Parent(p)), p, e)
      BY <2>1, <2>2, <2>3, <2>7, EntryCases
    <3>2. Parent(p) \in Seq(S) BY <2>4, ParentFacts
    <3>3. MakeDirs(y, Parent(p)) \in States(S, K) BY <3>2, MakeDirsTyped
    <3> QED BY <2>4, <3>1, <3>3, WriteTyped
  <2>8. CASE IsLink(e)
    <3>1. ExtractEntry(x, e, symlinks) = Then(PutAside(y, e), TargetOK(e))
      BY <2>1, <2>2, <2>8, EntryCases DEF PutAside
    <3>2. PutAside(y, e) \in States(S, K) BY AsideTyped
    <3> QED BY <3>1, <3>2, Stopped DEF Then
  <2> QED BY <2>5, <2>6, <2>7, <2>8 DEF Typical
<1> QED BY <1>1, <1>2

-----------------------------------------------------------------------------
(* One step of the first pass. *)

(* The entries written in the first pass. *)
LEMMA NonLinksGrow ==
    ASSUME NEW a, NEW k \in Nat \ {0}
    PROVE  /\ IsLink(a[k]) => NonLinks(a, k) = NonLinks(a, k - 1)
           /\ ~IsLink(a[k]) => NonLinks(a, k) = NonLinks(a, k - 1) \cup {k}
<1>1. 1 .. k = (1 .. k - 1) \cup {k} OBVIOUS
<1> QED BY <1>1 DEF NonLinks

(* What is put aside when the entry is no link, *)
LEMMA LinksKeep ==
    ASSUME NEW S, NEW links \in Seq(S), NEW a, NEW k \in Nat \ {0}, LinksFor(links, a, k - 1), ~IsLink(a[k])
    PROVE  LinksFor(links, a, k)
<1>1. PICK pos : LinkPlaces(pos, links, a, k - 1) BY DEF LinksFor
<1>2. \A i \in 1 .. k : i \in 1 .. k - 1 \/ i = k OBVIOUS
<1>3. 1 .. k - 1 \subseteq 1 .. k OBVIOUS
<1>4. pos \in [1 .. Len(links) -> 1 .. k] BY <1>1, <1>3 DEF LinkPlaces
<1>5. \A i \in 1 .. k : IsLink(a[i]) => \E q \in 1 .. Len(links) : pos[q] = i BY <1>1, <1>2 DEF LinkPlaces
<1>6. LinkPlaces(pos, links, a, k) BY <1>1, <1>4, <1>5 DEF LinkPlaces
<1> QED BY <1>6 DEF LinksFor

(* and when it is one. *)
LEMMA LinksGrow ==
    ASSUME NEW S, NEW links \in Seq(S), NEW a, NEW k \in Nat \ {0},
           LinksFor(links, a, k - 1), IsLink(a[k]), a[k] \in S
    PROVE  LinksFor(Append(links, a[k]), a, k)
<1>1. PICK pos : LinkPlaces(pos, links, a, k - 1) BY DEF LinksFor
<1>2. PICK m \in Nat : m = Len(links) OBVIOUS
<1>3. PICK l \in Seq(S) : l = Append(links, a[k])
  <2>1. Append(links, a[k]) \in Seq(S) OBVIOUS
  <2> QED BY <2>1
<1>4. Len(l) = m + 1 /\ l[m + 1] = a[k] /\ \A q \in 1 .. m : l[q] = links[q] BY <1>2, <1>3, AppendProperties
<1>5. /\ pos \in [1 .. m -> 1 .. k - 1]
      /\ \A q \in 1 .. m : IsLink(a[pos[q]]) /\ links[q] = a[pos[q]]
      /\ \A q, w \in 1 .. m : pos[q] = pos[w] => q = w
      /\ \A i \in 1 .. k - 1 : IsLink(a[i]) => \E q \in 1 .. m : pos[q] = i
  BY <1>1, <1>2 DEF LinkPlaces
<1>6. PICK new : new = [q \in 1 .. m + 1 |-> IF q = m + 1 THEN k ELSE pos[q]] OBVIOUS
<1>7. \A q \in 1 .. m + 1 : q = m + 1 \/ (q \in 1 .. m /\ q # m + 1) OBVIOUS
<1>8. \A q \in 1 .. m : q \in 1 .. m + 1 /\ q # m + 1 OBVIOUS
<1>9. m + 1 \in 1 .. m + 1 OBVIOUS
<1>10. new[m + 1] = k /\ \A q \in 1 .. m : new[q] = pos[q] BY <1>6, <1>8, <1>9
<1>11. \A q \in 1 .. m : pos[q] \in 1 .. k /\ pos[q] # k
  <2>1. \A i \in 1 .. k - 1 : i \in 1 .. k /\ i # k OBVIOUS
  <2> QED BY <1>5, <2>1
<1>12. new \in [1 .. m + 1 -> 1 .. k]
  <2>1. k \in 1 .. k OBVIOUS
  <2> QED BY <1>6, <1>7, <1>11, <2>1
<1>13. \A q \in 1 .. m + 1 : IsLink(a[new[q]]) /\ l[q] = a[new[q]] BY <1>4, <1>5, <1>7, <1>10
<1>14. ASSUME NEW q \in 1 .. m + 1, NEW w \in 1 .. m + 1, new[q] = new[w] PROVE q = w
  <2>1. CASE q = m + 1 /\ w \in 1 .. m BY <1>10, <1>11, <1>14, <2>1
  <2>2. CASE w = m + 1 /\ q \in 1 .. m BY <1>10, <1>11, <1>14, <2>2
  <2>3. CASE q \in 1 .. m /\ w \in 1 .. m
    <3>1. pos[q] = pos[w] BY <1>10, <1>14, <2>3
    <3> QED BY <1>5, <2>3, <3>1
  <2> QED BY <1>7, <2>1, <2>2, <2>3
<1>15. ASSUME NEW i \in 1 .. k, IsLink(a[i]) PROVE \E q \in 1 .. m + 1 : new[q] = i
  <2>1. CASE i = k BY <1>9, <1>10, <2>1
  <2>2. CASE i # k
    <3>1. i \in 1 .. k - 1 BY <2>2
    <3>2. PICK q \in 1 .. m : pos[q] = i BY <1>5, <1>15, <3>1
    <3> QED BY <1>8, <1>10, <3>2
  <2> QED BY <2>1, <2>2
<1>16. LinkPlaces(new, l, a, k) BY <1>4, <1>12, <1>13, <1>14, <1>15 DEF LinkPlaces
<1> QED BY <1>3, <1>16 DEF LinksFor

(* The names seen so far. *)
LEMMA SeenGrows ==
    ASSUME NEW S, NEW K, NEW x \in States(S, K), NEW a, NEW k \in Nat \ {0}, a[k] \in EntriesOf(S, K),
           SeenFor(x.seen, a, k - 1), NameAt(a, k) \notin DOMAIN x.seen
    PROVE  SeenFor(Entered(x, a[k]).seen, a, k)
<1>1. PICK f : f = Entered(x, a[k]).seen OBVIOUS
<1>2. PICK p : p = NameAt(a, k) OBVIOUS
<1>3. /\ DOMAIN f = DOMAIN x.seen \cup {p}
      /\ f[p] = a[k].kind /\ \A q \in DOMAIN x.seen : q # p => f[q] = x.seen[q]
  BY <1>1, <1>2, EnteredFacts DEF NameAt
<1>4. \A i \in 1 .. k : i \in 1 .. k - 1 \/ i = k OBVIOUS
<1>5. 1 .. k = (1 .. k - 1) \cup {k} OBVIOUS
<1>6. DOMAIN f = NamesAt(a, 1 .. k) BY <1>2, <1>3, <1>5 DEF SeenFor, NamesAt
<1>7. ASSUME NEW i \in 1 .. k PROVE f[NameAt(a, i)] = a[i].kind
  <2>1. CASE i = k BY <1>2, <1>3, <2>1
  <2>2. CASE i \in 1 .. k - 1
    <3>1. NameAt(a, i) \in DOMAIN x.seen /\ x.seen[NameAt(a, i)] = a[i].kind BY <2>2 DEF SeenFor, NamesAt
    <3> QED BY <1>2, <1>3, <3>1
  <2> QED BY <1>4, <2>1, <2>2
<1> QED BY <1>1, <1>6, <1>7 DEF SeenFor

(* detectPathConflict, in terms of the entries before. *)
LEMMA ConflictFacts ==
    ASSUME NEW a, NEW k \in Nat, NEW seen, SeenFor(seen, a, k), \A i \in 1 .. k : Typical(a[i]),
           NEW p, NEW e
    PROVE  Conflict(p, e.kind, seen) <=>
              \/ \E i \in 1 .. k : NameAt(a, i) \in Ancestors(p) /\ ~IsDir(a[i])
              \/ IsDir(e) /\ \E i \in 1 .. k : p \in Ancestors(NameAt(a, i))
<1>1. \A i \in 1 .. k : a[i].kind \in {"file", "link"} <=> ~IsDir(a[i])
  BY DEF Typical, IsDir, IsFile, IsLink
<1>2. (\E q \in Ancestors(p) : q \in DOMAIN seen /\ seen[q] \in {"file", "link"}) <=>
        \E i \in 1 .. k : NameAt(a, i) \in Ancestors(p) /\ ~IsDir(a[i])
  <2>1. ASSUME NEW q \in Ancestors(p), q \in DOMAIN seen, seen[q] \in {"file", "link"}
        PROVE  \E i \in 1 .. k : NameAt(a, i) \in Ancestors(p) /\ ~IsDir(a[i])
    <3>1. PICK i \in 1 .. k : q = NameAt(a, i) BY <2>1 DEF SeenFor, NamesAt
    <3>2. seen[q] = a[i].kind BY <3>1 DEF SeenFor
    <3> QED BY <1>1, <2>1, <3>1, <3>2
  <2>2. ASSUME NEW i \in 1 .. k, NameAt(a, i) \in Ancestors(p), ~IsDir(a[i])
        PROVE  \E q \in Ancestors(p) : q \in DOMAIN seen /\ seen[q] \in {"file", "link"}
    <3>1. NameAt(a, i) \in DOMAIN seen /\ seen[NameAt(a, i)] = a[i].kind BY DEF SeenFor, NamesAt
    <3> QED BY <1>1, <2>2, <3>1
  <2> QED BY <2>1, <2>2
<1>3. (\E n \in DOMAIN seen : p \in Ancestors(n)) <=> \E i \in 1 .. k : p \in Ancestors(NameAt(a, i))
  BY DEF SeenFor, NamesAt
<1> QED BY <1>2, <1>3 DEF Conflict, IsDir

Outcome(y, a, k, bytes, symlinks) ==
    /\ y.ok <=> StepFit(a, k, bytes, symlinks)
    /\ y.ok => Passed(y, a, k, bytes + SizeIn(a[k]))

(* A step of the first pass goes on exactly when its entry is in order. *)
LEMMA FirstPassStep ==
    ASSUME NEW S, NEW K, NEW a \in Seq(EntriesOf(S, K)), NEW symlinks, NEW k \in 1 .. Len(a),
           NEW x \in States(S, K), NEW bytes \in Int, Passed(x, a, k - 1, bytes),
           \A i \in 1 .. k - 1 : EntryFit(a[i], symlinks)
    PROVE  Outcome(ExtractEntry(x, a[k], symlinks), a, k, bytes, symlinks)
<1> DEFINE I == NonLinks(a, k - 1)
<1>1. k \in Nat \ {0} /\ k - 1 \in Nat /\ \A i \in 1 .. k - 1 : i \in 1 .. Len(a) OBVIOUS
<1>2. \A i \in 1 .. Len(a) : a[i] \in EntriesOf(S, K) OBVIOUS
<1>3. PICK e \in EntriesOf(S, K) : e = a[k] BY <1>2
<1>4. PICK p : p = NameAt(a, k) OBVIOUS
<1>5. p = TrimSlashes(e.name) BY <1>3, <1>4 DEF NameAt
<1>6. /\ x.ok /\ x.entries = k - 1 /\ x.bytes = bytes /\ bytes <= MaxOutputBytes
      /\ SeenFor(x.seen, a, k - 1) /\ TreeFor(x.tree, a, I) /\ LinksFor(x.links, a, k - 1)
  BY DEF Passed
<1>7. x.tree \in Maps(Seq(S), Nodes(S)) /\ x.links \in Seq(EntriesOf(S, K)) BY DEF States
<1>8. Named(a, 1 .. k - 1, S, K)
  <2> SUFFICES ASSUME NEW i \in 1 .. k - 1
               PROVE  /\ a[i] \in EntriesOf(S, K) /\ NameAt(a, i) \in Seq(S)
                      /\ NameAt(a, i) # <<>> /\ Typical(a[i])
    BY DEF Named
  <2>1. a[i] \in EntriesOf(S, K) BY <1>1, <1>2
  <2>2. EntryFit(a[i], symlinks) OBVIOUS
  <2>3. CleanName(a[i].name) /\ Supported(a[i], symlinks) BY <2>2 DEF EntryFit
  <2>4. a[i].name \in Seq(S) BY <2>1 DEF EntriesOf
  <2> QED BY <2>1, <2>3, <2>4, CleanNamed, SupportedTypical DEF NameAt
<1>9. Named(a, I, S, K) /\ \A i \in 1 .. k - 1 : Typical(a[i]) BY <1>8 DEF Named, NonLinks
<1>10. {MaxEntries, MaxFileBytes, MaxOutputBytes} \subseteq Nat BY LimitsAssumption
<1>11. k <= MaxEntries <=> ~(x.entries >= MaxEntries) BY <1>1, <1>6, <1>10
<1>12. PICK z \in States(S, K) : z = Entered(x, e) BY EnteredFacts
<1>13. /\ z.ok /\ z.tree = x.tree /\ z.links = x.links
       /\ z.entries = k /\ z.bytes = bytes + SizeIn(e)
  <2>1. /\ z.ok = x.ok /\ z.tree = x.tree /\ z.links = x.links
        /\ z.entries = x.entries + 1 /\ z.bytes = x.bytes + SizeIn(e)
    <3>1. /\ Entered(x, e).ok = x.ok /\ Entered(x, e).tree = x.tree /\ Entered(x, e).links = x.links
          /\ Entered(x, e).entries = x.entries + 1 /\ Entered(x, e).bytes = x.bytes + SizeIn(e)
      BY EnteredFacts
    <3> QED BY <1>12, <3>1
  <2>2. x.entries + 1 = k BY <1>1, <1>6
  <2> QED BY <1>6, <2>1, <2>2
<1>14. p \notin DOMAIN x.seen <=> \A i \in 1 .. k - 1 : NameAt(a, i) # p BY <1>6 DEF SeenFor, NamesAt
<1>15. Conflict(p, e.kind, x.seen) <=>
              \/ \E i \in 1 .. k - 1 : NameAt(a, i) \in Ancestors(p) /\ ~IsDir(a[i])
              \/ IsDir(e) /\ \E i \in 1 .. k - 1 : p \in Ancestors(NameAt(a, i))
  BY <1>1, <1>6, <1>9, ConflictFacts
<1>16. SizeOK(e, x.bytes) <=> /\ IF IsFile(e) THEN 0 <= e.size /\ e.size <= MaxFileBytes ELSE e.size = 0
                              /\ bytes + SizeIn(e) <= MaxOutputBytes
  <2>1. e.size \in Int /\ MaxFileBytes \in Int /\ MaxOutputBytes \in Int BY <1>10 DEF EntriesOf
  <2>2. CASE IsFile(e)
    <3>1. SizeIn(e) = e.size BY <2>2 DEF SizeIn
    <3>2. SizeOK(e, x.bytes) <=> e.size >= 0 /\ e.size <= MaxFileBytes /\ bytes <= MaxOutputBytes - e.size
      BY <1>6, <2>2 DEF SizeOK, IsFile
    <3>3. bytes <= MaxOutputBytes - e.size <=> bytes + e.size <= MaxOutputBytes BY <2>1
    <3>4. e.size >= 0 <=> 0 <= e.size BY <2>1
    <3> QED BY <2>2, <3>1, <3>2, <3>3, <3>4
  <2>3. CASE ~IsFile(e)
    <3>1. bytes + SizeIn(e) = bytes BY <2>3 DEF SizeIn
    <3>2. SizeOK(e, x.bytes) <=> e.size = 0 BY <2>3 DEF SizeOK, IsFile
    <3> QED BY <1>6, <2>3, <3>1, <3>2
  <2> QED BY <2>2, <2>3
<1>17. HeaderOK(x, e, symlinks) <=>
          /\ CleanName(e.name) /\ Supported(e, symlinks)
          /\ p \notin DOMAIN x.seen /\ ~Conflict(p, e.kind, x.seen) /\ SizeOK(e, x.bytes)
  BY <1>5 DEF HeaderOK
<1>18. PICK y \in States(S, K) : y = ExtractEntry(x, e, symlinks) BY ExtractTyped
<1> HIDE DEF I
<1>19. ASSUME StepFit(a, k, bytes, symlinks) PROVE k <= MaxEntries /\ HeaderOK(x, e, symlinks)
  <2>1. /\ k <= MaxEntries /\ EntryFit(e, symlinks) /\ bytes + SizeIn(e) <= MaxOutputBytes
        /\ \A i \in 1 .. k - 1 : PairFit(a, i, k)
    BY <1>3, <1>19 DEF StepFit
  <2>2. p \notin DOMAIN x.seen BY <1>4, <1>14, <2>1 DEF PairFit
  <2>3. ~Conflict(p, e.kind, x.seen) BY <1>3, <1>4, <1>15, <2>1 DEF PairFit
  <2> QED BY <1>16, <1>17, <2>1, <2>2, <2>3 DEF EntryFit
<1>20. CASE ~(k <= MaxEntries /\ HeaderOK(x, e, symlinks))
  <2>1. y = Stop(x) BY <1>11, <1>18, <1>20, EntryStops
  <2>2. y.ok = FALSE BY <2>1, Stopped
  <2> QED BY <1>3, <1>18, <1>19, <1>20, <2>2 DEF Outcome
<1>21. CASE k <= MaxEntries /\ HeaderOK(x, e, symlinks)
  <2>1. x.ok /\ ~(x.entries >= MaxEntries) BY <1>6, <1>11, <1>21
  <2>2. /\ CleanName(e.name) /\ Supported(e, symlinks) /\ p \notin DOMAIN x.seen
        /\ \A i \in 1 .. k - 1 : NameAt(a, i) # p
        /\ \A i \in 1 .. k - 1 : NameAt(a, i) \in Ancestors(p) => IsDir(a[i])
        /\ IsDir(e) => \A i \in 1 .. k - 1 : p \notin Ancestors(NameAt(a, i))
        /\ IF IsFile(e) THEN 0 <= e.size /\ e.size <= MaxFileBytes ELSE e.size = 0
        /\ bytes + SizeIn(e) <= MaxOutputBytes
    BY <1>14, <1>15, <1>16, <1>17, <1>21
  <2>3. p \in Seq(S) /\ p # <<>>
    <3>1. e.name \in Seq(S) BY DEF EntriesOf
    <3> QED BY <1>5, <2>2, <3>1, CleanNamed
  <2>4. Typical(e) BY <2>2, SupportedTypical
  <2>5. Named(a, {k}, S, K) BY <1>3, <1>4, <2>3, <2>4 DEF Named
  <2>6. SeenFor(z.seen, a, k) BY <1>1, <1>3, <1>4, <1>6, <1>12, <2>2, SeenGrows
  <2>7. I \subseteq 1 .. k - 1 BY DEF I, NonLinks
  <2>8. p \notin NamesAt(a, I) BY <2>2, <2>7 DEF NamesAt
  <2>9. p \in DOMAIN x.tree <=> \E i \in I : p \in Ancestors(NameAt(a, i)) BY <1>6, <2>3, <2>8, InTheTree
  <2>10. ASSUME NEW ps, Ancestors(p) \subseteq ps, ps \subseteq Ancestors(p) \cup {<<>>}
         PROVE  ~Blocked(x.tree, ps)
    <3>1. Blocked(x.tree, ps) <=> \E i \in I : NameAt(a, i) \in Ancestors(p) /\ ~IsDir(a[i])
      BY <1>6, <1>9, <2>3, <2>10, InTheWay
    <3> QED BY <2>2, <2>7, <3>1
  <2>11. StepFit(a, k, bytes, symlinks) <=>
            /\ IsFile(e) => e.whole /\ p \notin DOMAIN x.tree
            /\ IsLink(e) => TargetOK(e)
    <3>1. ASSUME StepFit(a, k, bytes, symlinks), IsFile(e) PROVE e.whole /\ p \notin DOMAIN x.tree
      <4>1. EntryFit(e, symlinks) /\ \A i \in 1 .. k - 1 : PairFit(a, i, k) BY <1>3, <3>1 DEF StepFit
      <4>2. \A i \in I : p \notin Ancestors(NameAt(a, i))
        BY <1>3, <1>4, <2>7, <3>1, <4>1 DEF PairFit, I, NonLinks
      <4> QED BY <2>9, <3>1, <4>1, <4>2 DEF EntryFit
    <3>2. ASSUME StepFit(a, k, bytes, symlinks), IsLink(e) PROVE TargetOK(e)
      BY <1>3, <3>2 DEF StepFit, EntryFit
    <3>3. ASSUME IsFile(e) => e.whole /\ p \notin DOMAIN x.tree, IsLink(e) => TargetOK(e)
          PROVE  StepFit(a, k, bytes, symlinks)
      <4>1. EntryFit(e, symlinks) BY <2>2, <3>3 DEF EntryFit
      <4>2. ASSUME NEW i \in 1 .. k - 1 PROVE PairFit(a, i, k)
        <5>1. i \in I <=> ~IsLink(a[i]) BY DEF I, NonLinks
        <5>2. ASSUME p \in Ancestors(NameAt(a, i)) PROVE ~IsDir(e) /\ (IsFile(e) => IsLink(a[i]))
          BY <2>2, <2>9, <3>3, <5>1, <5>2
        <5> QED BY <1>3, <1>4, <2>2, <5>2 DEF PairFit
      <4> QED BY <1>3, <1>21, <2>2, <4>1, <4>2 DEF StepFit
    <3> QED BY <3>1, <3>2, <3>3
  <2>12. CASE IsDir(e)
    <3>1. ~IsFile(e) /\ ~IsLink(e) BY <2>12, KindsApart
    <3>2. p \notin DOMAIN x.tree BY <2>2, <2>7, <2>9, <2>12
    <3>3. ~Blocked(x.tree, Way(p))
      <4>1. ~Blocked(x.tree, Ancestors(p)) BY <2>10
      <4> QED BY <3>2, <4>1 DEF Blocked, Way
    <3>4. y = MakeDirs(z, p) BY <1>5, <1>12, <1>18, <1>21, <2>1, <2>12, EntryCases
    <3>5. y = [z EXCEPT !.tree = Grown(x.tree, Way(p))] BY <1>13, <3>3, <3>4, MakeDirsFacts
    <3>6. Grown(x.tree, Way(p)) \in Maps(Seq(S), Nodes(S))
      <4>1. Way(p) \in SUBSET Seq(S) BY <2>3, AncestorFacts DEF Way
      <4> QED BY <1>7, <4>1, GrownTyped
    <3>7. Regrown(z, Grown(x.tree, Way(p)), y) BY <3>5, <3>6, WithTree
    <3>8. TreeFor(y.tree, a, I \cup {k})
      <4>1. TreeFor(Grown(x.tree, Way(p)), a, I \cup {k})
        BY <1>3, <1>4, <1>6, <1>9, <2>5, <2>12, <3>2, AddedDir
      <4> QED BY <3>7, <4>1 DEF Regrown
    <3>9. NonLinks(a, k) = I \cup {k} BY <1>1, <1>3, <3>1, NonLinksGrow DEF I
    <3>10. LinksFor(y.links, a, k)
      <4>1. LinksFor(x.links, a, k) BY <1>1, <1>3, <1>6, <1>7, <3>1, LinksKeep
      <4> QED BY <1>13, <3>7, <4>1 DEF Regrown
    <3>11. Passed(y, a, k, bytes + SizeIn(e))
      BY <1>13, <2>2, <2>6, <3>7, <3>8, <3>9, <3>10 DEF Passed, Regrown
    <3>12. y.ok BY <3>11 DEF Passed
    <3> QED BY <1>3, <1>18, <2>11, <3>1, <3>11, <3>12 DEF Outcome
  <2>13. CASE IsFile(e)
    <3>1. ~IsDir(e) /\ ~IsLink(e) BY <2>13, KindsApart
    <3>2. PICK ps : ps = Way(Parent(p)) OBVIOUS
    <3>3. Parent(p) \in Seq(S) /\ Ancestors(p) \subseteq ps /\ ps \subseteq Ancestors(p) \cup {<<>>}
      BY <2>3, <3>2, ParentFacts
    <3>4. ~Blocked(x.tree, ps) BY <2>10, <3>3
    <3>5. PICK w : w = MakeDirs(z, Parent(p)) OBVIOUS
    <3>6. w \in States(S, K) BY <3>3, <3>5, MakeDirsTyped
    <3>7. w = [z EXCEPT !.tree = Grown(x.tree, ps)] BY <1>13, <3>2, <3>4, <3>5, MakeDirsFacts
    <3>8. Grown(x.tree, ps) \in Maps(Seq(S), Nodes(S))
      <4>1. \A q \in Ancestors(p) : q \in Seq(S) BY <2>3, AncestorFacts
      <4>2. <<>> \in Seq(S) OBVIOUS
      <4>3. ps \in SUBSET Seq(S) BY <3>3, <4>1, <4>2
      <4> QED BY <1>7, <4>3, GrownTyped
    <3>9. Regrown(z, Grown(x.tree, ps), w) BY <3>7, <3>8, WithTree
    <3>10. y = WriteRegular(w, p, e) BY <1>5, <1>12, <1>18, <1>21, <2>1, <2>13, <3>5, EntryCases
    <3>11. w.ok /\ w.tree = Grown(x.tree, ps) BY <1>13, <3>9 DEF Regrown
    <3>12. p \in DOMAIN w.tree <=> p \in DOMAIN x.tree
      <4>1. p \notin ps BY <2>3, <3>3, AncestorFacts
      <4> QED BY <3>11, <4>1 DEF Grown
    <3>13. CASE ~(e.whole /\ p \notin DOMAIN x.tree)
      <4>1. y.ok = FALSE BY <2>3, <3>6, <3>10, <3>12, <3>13, WriteTyped
      <4> QED BY <1>3, <1>18, <2>11, <2>13, <3>13, <4>1 DEF Outcome
    <3>14. CASE e.whole /\ p \notin DOMAIN x.tree
      <4>1. Regrown(w, Put(w.tree, p, File(e.size)), y)
        BY <2>3, <3>6, <3>10, <3>11, <3>12, <3>14, WriteTyped
      <4>2. NodeOf(e) = File(e.size) BY <2>13 DEF NodeOf, IsFile
      <4>3. TreeFor(Put(Grown(x.tree, ps), p, NodeOf(e)), a, I \cup {k})
        BY <1>3, <1>4, <1>6, <1>9, <2>5, <3>3, <3>14, AddedNode
      <4>4. TreeFor(y.tree, a, I \cup {k}) BY <3>11, <4>1, <4>2, <4>3 DEF Regrown
      <4>5. NonLinks(a, k) = I \cup {k} BY <1>1, <1>3, <3>1, NonLinksGrow DEF I
      <4>6. LinksFor(y.links, a, k)
        <5>1. LinksFor(x.links, a, k) BY <1>1, <1>3, <1>6, <1>7, <3>1, LinksKeep
        <5> QED BY <1>13, <3>9, <4>1, <5>1 DEF Regrown
      <4>7. Passed(y, a, k, bytes + SizeIn(e))
        <5>1. y.ok = z.ok /\ y.entries = z.entries /\ y.bytes = z.bytes /\ y.seen = z.seen
          BY <3>9, <4>1 DEF Regrown
        <5> QED BY <1>13, <2>2, <2>6, <4>4, <4>5, <4>6, <5>1 DEF Passed
      <4>8. y.ok BY <4>7 DEF Passed
      <4> QED BY <1>3, <1>18, <2>11, <3>1, <3>14, <4>7, <4>8 DEF Outcome
    <3> QED BY <3>13, <3>14
  <2>14. CASE IsLink(e)
    <3>1. ~IsDir(e) /\ ~IsFile(e) BY <2>14, KindsApart
    <3>2. PICK w : w = PutAside(z, e) OBVIOUS
    <3>3. y = Then(w, TargetOK(e)) BY <1>12, <1>18, <1>21, <2>1, <2>14, <3>2, EntryCases DEF PutAside
    <3>4. /\ w \in States(S, K) /\ w.links = Append(x.links, e) /\ w.ok /\ w.tree = x.tree /\ w.seen = z.seen
          /\ w.bytes = z.bytes /\ w.entries = z.entries
      <4>1. /\ PutAside(z, e) \in States(S, K) /\ PutAside(z, e).links = Append(z.links, e)
            /\ PutAside(z, e).ok = z.ok /\ PutAside(z, e).tree = z.tree /\ PutAside(z, e).seen = z.seen
            /\ PutAside(z, e).bytes = z.bytes /\ PutAside(z, e).entries = z.entries
        BY AsideTyped
      <4> QED BY <1>13, <3>2, <4>1
    <3>5. CASE ~TargetOK(e)
      <4>1. y.ok = FALSE BY <3>3, <3>4, <3>5, Stopped DEF Then
      <4> QED BY <1>3, <1>18, <2>11, <2>14, <3>5, <4>1 DEF Outcome
    <3>6. CASE TargetOK(e)
      <4>1. y = w BY <3>3, <3>6 DEF Then
      <4>2. LinksFor(y.links, a, k)
        <5>1. LinksFor(Append(x.links, a[k]), a, k) BY <1>1, <1>3, <1>6, <1>7, <2>14, LinksGrow
        <5> QED BY <1>3, <3>4, <4>1, <5>1
      <4>3. NonLinks(a, k) = I BY <1>1, <1>3, <2>14, NonLinksGrow DEF I
      <4>4. Passed(y, a, k, bytes + SizeIn(e))
        BY <1>6, <1>13, <2>2, <2>6, <3>4, <4>1, <4>2, <4>3 DEF Passed
      <4>5. y.ok BY <4>4 DEF Passed
      <4> QED BY <1>3, <1>18, <2>11, <3>1, <3>6, <4>4, <4>5 DEF Outcome
    <3> QED BY <3>5, <3>6
  <2> QED BY <2>4, <2>12, <2>13, <2>14 DEF Typical
<1> QED BY <1>20, <1>21

-----------------------------------------------------------------------------
(* The passes and the sum of the sizes, entry by entry. *)

Added(n, e) == IF e.kind = "file" THEN n + e.size ELSE n

SumSteps(r, archive) ==
    /\ r \in [0 .. Len(archive) -> Int] /\ r[0] = 0 /\ r[Len(archive)] = Sum(archive)
    /\ \A k \in 1 .. Len(archive) : r[k] = Added(r[k - 1], archive[k])

(* The sum of the sizes, entry by entry. *)
LEMMA SumRun ==
    ASSUME NEW S, NEW K, NEW archive \in Seq(EntriesOf(S, K))
    PROVE  \E r : SumSteps(r, archive)
<1> DEFINE n == Len(archive)
           A == Int
           base == 0
           Op(a, i) == Added(a, archive[i])
           F == [p \in A \X (1 .. n) |-> Op(p[1], p[2])]
           Eq(g) == g = [s \in SUBSET (1 .. n) |-> IF s = {} THEN base ELSE Op(g[s \ {Max(s)}], Max(s))]
           I == CHOOSE g : Eq(g)
<1>1. n \in Nat /\ DOMAIN archive = 1 .. n OBVIOUS
<1>2. Sum(archive) = I[1 .. n]
  <2>1. Sum(archive) = (CHOOSE g : g = [s \in SUBSET DOMAIN archive |->
                    IF s = {} THEN 0 ELSE Added(g[s \ {Max(s)}], archive[Max(s)])])[DOMAIN archive]
    BY DEF FoldLeft, MapThenFoldSet, Sum, Added
  <2> QED BY <1>1, <2>1
<1>3. base \in A /\ \A a \in A, i \in 1 .. n : Op(a, i) \in A
  <2>1. \A i \in 1 .. n : archive[i] \in EntriesOf(S, K) OBVIOUS
  <2>2. ASSUME NEW a \in Int, NEW e \in EntriesOf(S, K) PROVE Added(a, e) \in Int
    <3>1. e.size \in Int BY DEF EntriesOf
    <3> QED BY <3>1 DEF Added
  <2> HIDE DEF n
  <2> QED BY <2>1, <2>2
<1> HIDE DEF Op, A, base, n
<1>4. \A a \in A, i \in 1 .. n : F[<<a, i>>] = Op(a, i) BY <1>3
<1>c. base \in A /\ F \in [A \X (1 .. n) -> A] BY <1>3
<1>5. \E g : Eq(g)
  <2> HIDE DEF F
  <2>1. PICK g : TableOf(F, base, g, A, n) BY <1>1, <1>c, TableExists
  <2>2. ASSUME NEW s \in SUBSET (1 .. n)
        PROVE  g[s] = IF s = {} THEN base ELSE Op(g[s \ {Max(s)}], Max(s))
    <3>1. s # {} => Max(s) \in 1 .. n BY <1>1, MaxFacts
    <3>2. s \ {Max(s)} \in SUBSET (1 .. n) OBVIOUS
    <3>3. g[s \ {Max(s)}] \in A BY <2>1, <3>2 DEF TableOf
    <3> QED BY <1>4, <2>1, <3>1, <3>3 DEF TableOf, TableStep
  <2>3. g = [s \in SUBSET (1 .. n) |-> IF s = {} THEN base ELSE Op(g[s \ {Max(s)}], Max(s))]
    BY <2>1, <2>2 DEF TableOf
  <2> QED BY <2>3
<1>6. Eq(I)
  <2> HIDE DEF Eq
  <2> QED BY <1>5
<1> HIDE DEF I
<1>7. I[{}] = base BY <1>6
<1>8. ASSUME NEW s \in SUBSET (1 .. n), s # {} /\ Max(s) \in 1 .. n /\ I[s \ {Max(s)}] \in A
      PROVE  I[s] = F[<<I[s \ {Max(s)}], Max(s)>>]
  <2>1. I[s] = Op(I[s \ {Max(s)}], Max(s)) BY <1>6, <1>8
  <2> HIDE DEF F, Eq
  <2> QED BY <1>4, <1>8, <2>1
<1> HIDE DEF Eq, F
<1>t. Tabled(F, base, I, A, n) BY <1>7, <1>8 DEF Tabled
<1>9. PICK r : RunOf(F, base, r, I, A, n) BY <1>1, <1>c, <1>t, TableRun
<1>10. ASSUME NEW k \in 1 .. n PROVE r[k] = Op(r[k - 1], k)
  <2>1. k - 1 \in 0 .. n BY <1>1
  <2>2. r[k - 1] \in A BY <1>9, <2>1 DEF RunOf
  <2> QED BY <1>4, <1>9, <2>2 DEF RunOf
<1> QED BY <1>2, <1>9, <1>10 DEF RunOf, SumSteps, n, A, base, Op

(* The first pass of Unpack. *)
FirstFold(archive, symlinks) == FoldLeft(LAMBDA s, e : ExtractEntry(s, e, symlinks), Start, archive)

(* The state extraction starts in. *)
LEMMA StartTyped ==
    ASSUME NEW S, NEW K
    PROVE  Start \in States(S, K)
<1>1. PICK seen : seen = <<>> OBVIOUS
<1>2. seen \in Maps(Seq(S), K)
  <2>1. DOMAIN seen = {} BY <1>1
  <2>2. seen \in Seq(K) BY <1>1
  <2>3. Len(seen) = 0 BY <1>1
  <2>4. seen \in [1 .. 0 -> K] BY <2>2, <2>3
  <2>5. seen = [q \in DOMAIN seen |-> seen[q]] BY <2>4
  <2> QED BY <2>1, <2>5, MapFacts
<1>3. [p \in {<<>>} |-> Dir] \in Maps(Seq(S), Nodes(S))
  <2>1. Dir \in Nodes(S) BY DEF Dir, Nodes
  <2>2. [p \in {<<>>} |-> Dir] \in [{<<>>} -> Nodes(S)] BY <2>1
  <2>3. {<<>>} \in SUBSET Seq(S) OBVIOUS
  <2> QED BY <2>2, <2>3 DEF Maps
<1>4. PICK links : links = <<>> OBVIOUS
<1>5. links \in Seq(EntriesOf(S, K)) BY <1>4
<1>6. Start = [ok |-> TRUE, seen |-> seen, tree |-> [p \in {<<>>} |-> Dir], links |-> links,
               bytes |-> 0, entries |-> 0]
  BY <1>1, <1>4 DEF Start
<1> QED BY <1>2, <1>3, <1>5, <1>6 DEF States

ExtractSteps(r, archive, symlinks, S, K) ==
    /\ r \in [0 .. Len(archive) -> States(S, K)]
    /\ r[0] = Start /\ r[Len(archive)] = FirstFold(archive, symlinks)
    /\ \A k \in 1 .. Len(archive) : r[k] = ExtractEntry(r[k - 1], archive[k], symlinks)

(* The first pass, entry by entry. *)
LEMMA ExtractRun ==
    ASSUME NEW S, NEW K, NEW archive \in Seq(EntriesOf(S, K)), NEW symlinks
    PROVE  \E r : ExtractSteps(r, archive, symlinks, S, K)
<1> DEFINE n == Len(archive)
           A == States(S, K)
           base == Start
           Op(a, i) == ExtractEntry(a, archive[i], symlinks)
           F == [p \in A \X (1 .. n) |-> Op(p[1], p[2])]
           Eq(g) == g = [s \in SUBSET (1 .. n) |-> IF s = {} THEN base ELSE Op(g[s \ {Max(s)}], Max(s))]
           I == CHOOSE g : Eq(g)
<1>1. n \in Nat /\ DOMAIN archive = 1 .. n OBVIOUS
<1>2. FirstFold(archive, symlinks) = I[1 .. n]
  <2>1. FirstFold(archive, symlinks) = (CHOOSE g : g = [s \in SUBSET DOMAIN archive |->
                    IF s = {} THEN Start
                    ELSE ExtractEntry(g[s \ {Max(s)}], archive[Max(s)], symlinks)])[DOMAIN archive]
    BY DEF FoldLeft, MapThenFoldSet, FirstFold
  <2> QED BY <1>1, <2>1
<1>3. base \in A /\ \A a \in A, i \in 1 .. n : Op(a, i) \in A
  <2>1. \A i \in 1 .. n : archive[i] \in EntriesOf(S, K) OBVIOUS
  <2>2. \A a \in States(S, K), e \in EntriesOf(S, K) : ExtractEntry(a, e, symlinks) \in States(S, K)
    BY ExtractTyped
  <2>3. Start \in States(S, K) BY StartTyped
  <2> HIDE DEF n
  <2> QED BY <2>1, <2>2, <2>3
<1> HIDE DEF Op, A, base, n
<1>4. \A a \in A, i \in 1 .. n : F[<<a, i>>] = Op(a, i) BY <1>3
<1>c. base \in A /\ F \in [A \X (1 .. n) -> A] BY <1>3
<1>5. \E g : Eq(g)
  <2> HIDE DEF F
  <2>1. PICK g : TableOf(F, base, g, A, n) BY <1>1, <1>c, TableExists
  <2>2. ASSUME NEW s \in SUBSET (1 .. n)
        PROVE  g[s] = IF s = {} THEN base ELSE Op(g[s \ {Max(s)}], Max(s))
    <3>1. s # {} => Max(s) \in 1 .. n BY <1>1, MaxFacts
    <3>2. s \ {Max(s)} \in SUBSET (1 .. n) OBVIOUS
    <3>3. g[s \ {Max(s)}] \in A BY <2>1, <3>2 DEF TableOf
    <3> QED BY <1>4, <2>1, <3>1, <3>3 DEF TableOf, TableStep
  <2>3. g = [s \in SUBSET (1 .. n) |-> IF s = {} THEN base ELSE Op(g[s \ {Max(s)}], Max(s))]
    BY <2>1, <2>2 DEF TableOf
  <2> QED BY <2>3
<1>6. Eq(I)
  <2> HIDE DEF Eq
  <2> QED BY <1>5
<1> HIDE DEF I
<1>7. I[{}] = base BY <1>6
<1>8. ASSUME NEW s \in SUBSET (1 .. n), s # {} /\ Max(s) \in 1 .. n /\ I[s \ {Max(s)}] \in A
      PROVE  I[s] = F[<<I[s \ {Max(s)}], Max(s)>>]
  <2>1. I[s] = Op(I[s \ {Max(s)}], Max(s)) BY <1>6, <1>8
  <2> HIDE DEF F, Eq
  <2> QED BY <1>4, <1>8, <2>1
<1> HIDE DEF Eq, F
<1>t. Tabled(F, base, I, A, n) BY <1>7, <1>8 DEF Tabled
<1>9. PICK r : RunOf(F, base, r, I, A, n) BY <1>1, <1>c, <1>t, TableRun
<1>10. ASSUME NEW k \in 1 .. n PROVE r[k] = Op(r[k - 1], k)
  <2>1. k - 1 \in 0 .. n BY <1>1
  <2>2. r[k - 1] \in A BY <1>9, <2>1 DEF RunOf
  <2> QED BY <1>4, <1>9, <2>2 DEF RunOf
<1> QED BY <1>2, <1>9, <1>10 DEF RunOf, ExtractSteps, n, A, base, Op

(* Nothing has been extracted at the start. *)
LEMMA StartPassed ==
    ASSUME NEW a
    PROVE  Passed(Start, a, 0, 0)
<1>1. /\ Start.ok /\ Start.entries = 0 /\ Start.bytes = 0 /\ Start.seen = <<>> /\ Start.links = <<>>
      /\ Start.tree = [p \in {<<>>} |-> Dir]
  BY DEF Start
<1>2. 1 .. 0 = {} /\ DOMAIN <<>> = {} /\ Len(<<>>) = 0 OBVIOUS
<1>3. 0 <= MaxOutputBytes
  <2>1. MaxOutputBytes \in Nat BY LimitsAssumption
  <2> QED BY <2>1
<1>4. SeenFor(<<>>, a, 0) BY <1>2 DEF SeenFor, NamesAt
<1>5. PICK tree : tree = [p \in {<<>>} |-> Dir] OBVIOUS
<1>6. NonLinks(a, 0) = {} BY <1>2 DEF NonLinks
<1>7. DOMAIN tree = {<<>>} /\ \A p \in DOMAIN tree : tree[p] = Dir BY <1>5
<1>8. TreeFor(tree, a, NonLinks(a, 0))
  <2>1. UNION {Way(NameAt(a, i)) : i \in NonLinks(a, 0)} = {} BY <1>6
  <2>2. DOMAIN tree = {<<>>} \cup UNION {Way(NameAt(a, i)) : i \in NonLinks(a, 0)} BY <1>7, <2>1
  <2> QED BY <1>6, <1>7, <2>2 DEF TreeFor
<1>9. LinksFor(<<>>, a, 0)
  <2>1. PICK pos : pos = [q \in 1 .. 0 |-> q] OBVIOUS
  <2>2. pos \in [1 .. 0 -> 1 .. 0] BY <2>1
  <2>3. LinkPlaces(pos, <<>>, a, 0) BY <1>2, <2>2 DEF LinkPlaces
  <2> QED BY <2>3 DEF LinksFor
<1> QED BY <1>1, <1>3, <1>4, <1>5, <1>8, <1>9 DEF Passed

(* The first pass comes to an end exactly when every step finds its entry in
   order; then it has made the files and directories and put the links aside. *)
AfterFirst(x, a, symlinks, sums, S, K) ==
    /\ x \in States(S, K)
    /\ x.ok <=> \A k \in 1 .. Len(a) : StepFit(a, k, sums[k - 1], symlinks)
    /\ x.ok => Passed(x, a, Len(a), sums[Len(a)])

LEMMA FirstPass ==
    ASSUME NEW S, NEW K, NEW a \in Seq(EntriesOf(S, K)), NEW symlinks, NEW sums, SumSteps(sums, a)
    PROVE  AfterFirst(FirstFold(a, symlinks), a, symlinks, sums, S, K)
<1>1. PICK n \in Nat : n = Len(a) OBVIOUS
<1>2. PICK r : ExtractSteps(r, a, symlinks, S, K) BY ExtractRun
<1>3. /\ \A k \in 0 .. n : r[k] \in States(S, K)
      /\ r[0] = Start /\ r[n] = FirstFold(a, symlinks)
      /\ \A k \in 1 .. n : r[k] = ExtractEntry(r[k - 1], a[k], symlinks)
  BY <1>1, <1>2 DEF ExtractSteps
<1>4. /\ \A k \in 0 .. n : sums[k] \in Int
      /\ sums[0] = 0
      /\ \A k \in 1 .. n : sums[k] = Added(sums[k - 1], a[k])
  BY <1>1 DEF SumSteps
<1>5. \A k \in 1 .. n : a[k] \in EntriesOf(S, K) BY <1>1
<1> DEFINE Fit(k) == \A i \in 1 .. k : StepFit(a, i, sums[i - 1], symlinks)
           Good(k) == (r[k].ok <=> Fit(k)) /\ (r[k].ok => Passed(r[k], a, k, sums[k]))
           T == {k \in 0 .. n : Good(k)}
<1>6. 0 \in T
  <2>1. Passed(r[0], a, 0, sums[0]) BY <1>3, <1>4, StartPassed
  <2>2. r[0].ok BY <2>1 DEF Passed
  <2>3. Fit(0) OBVIOUS
  <2>4. 0 \in 0 .. n OBVIOUS
  <2> HIDE DEF Fit
  <2> QED BY <2>1, <2>2, <2>3, <2>4
<1>7. ASSUME NEW k \in 1 .. n, k - 1 \in T PROVE k \in T
  <2>1. k \in 0 .. n /\ k - 1 \in 0 .. n /\ k \in Nat \ {0} /\ k \in 1 .. Len(a) BY <1>1
  <2>2. Fit(k) <=> Fit(k - 1) /\ StepFit(a, k, sums[k - 1], symlinks)
    <3>1. \A i \in 1 .. k : i \in 1 .. k - 1 \/ i = k OBVIOUS
    <3>2. 1 .. k - 1 \subseteq 1 .. k /\ k \in 1 .. k OBVIOUS
    <3> QED BY <3>1, <3>2
  <2>3. PICK x \in States(S, K) : x = r[k - 1] BY <1>3, <2>1
  <2>4. PICK y \in States(S, K) : y = r[k] BY <1>3, <2>1
  <2>5. y = ExtractEntry(x, a[k], symlinks) BY <1>3, <2>3, <2>4
  <2>6. PICK b \in Int : b = sums[k - 1] BY <1>4, <2>1
  <2>7. sums[k] = b + SizeIn(a[k])
    <3>1. sums[k] = Added(b, a[k]) BY <1>4, <2>6
    <3> QED BY <3>1 DEF Added, SizeIn, IsFile
  <2>8. (x.ok <=> Fit(k - 1)) /\ (x.ok => Passed(x, a, k - 1, b))
    <3> HIDE DEF Fit
    <3> QED BY <1>7, <2>3, <2>6
  <2>9. CASE ~x.ok
    <3>1. y = Stop(x) BY <2>5, <2>9, EntryStops
    <3>2. y.ok = FALSE BY <3>1, Stopped
    <3> HIDE DEF Fit
    <3> QED BY <2>1, <2>2, <2>4, <2>8, <2>9, <3>2
  <2>10. CASE x.ok
    <3>1. \A i \in 1 .. k - 1 : EntryFit(a[i], symlinks) BY <2>8, <2>10 DEF StepFit
    <3> HIDE DEF Fit
    <3>2. Passed(x, a, k - 1, b) BY <2>8, <2>10
    <3>3. Outcome(y, a, k, b, symlinks) BY <2>1, <2>5, <3>1, <3>2, FirstPassStep
    <3>4. (y.ok <=> StepFit(a, k, sums[k - 1], symlinks)) /\ (y.ok => Passed(y, a, k, sums[k]))
      BY <2>6, <2>7, <3>3 DEF Outcome
    <3> QED BY <2>1, <2>2, <2>4, <2>8, <2>10, <3>4
  <2> HIDE DEF T
  <2> QED BY <2>9, <2>10
<1>8. 0 .. n \subseteq T
  <2> HIDE DEF T
  <2> QED BY <1>6, <1>7, PrefixInduction
<1>9. Good(n) /\ r[n] \in States(S, K)
  <2>1. n \in 0 .. n OBVIOUS
  <2> HIDE DEF Good
  <2> QED BY <1>3, <1>8, <2>1
<1> QED BY <1>1, <1>3, <1>9 DEF AfterFirst

-----------------------------------------------------------------------------
(* The second pass. *)

(* createVerifiedSymlinks stops or makes the link. *)
LEMMA MakeLinkCases ==
    ASSUME NEW x, NEW e, NEW name, name = TrimSlashes(e.name), NEW target, target = Resolved(e),
           NEW y, y = MakeDirs(x, Parent(name))
    PROVE  LET stops == \/ ~x.ok \/ target \notin DOMAIN x.seen \/ x.seen[target] = "link"
                        \/ target \notin DOMAIN x.tree \/ x.tree[target].kind = "link"
                        \/ ~y.ok \/ name \in DOMAIN y.tree
           IN  /\ stops => MakeLink(x, e) = Stop(x)
               /\ ~stops => MakeLink(x, e) = [y EXCEPT !.tree = Put(@, name, Link(e.target))]
BY DEF MakeLink

(* A link that is made. *)
LEMMA LinkMade ==
    ASSUME NEW S, NEW K, NEW y \in States(S, K), NEW name \in Seq(S), NEW e \in EntriesOf(S, K)
    PROVE  LET z == [y EXCEPT !.tree = Put(@, name, Link(e.target))]
           IN  z \in States(S, K) /\ Regrown(y, Put(y.tree, name, Link(e.target)), z)
<1>1. [y EXCEPT !.tree = Put(@, name, Link(e.target))] = [y EXCEPT !.tree = Put(y.tree, name, Link(e.target))]
  BY DEF States
<1>2. y.tree \in Maps(Seq(S), Nodes(S)) BY DEF States
<1>3. Link(e.target) \in Nodes(S) BY DEF EntriesOf, Nodes, Link
<1>4. Put(y.tree, name, Link(e.target)) \in Maps(Seq(S), Nodes(S)) BY <1>2, <1>3, PutTyped
<1> QED BY <1>1, <1>4, WithTree

(* A state stays one, and stays stopped. *)
LEMMA MakeLinkTyped ==
    ASSUME NEW S, NEW K, NEW x \in States(S, K), NEW e \in EntriesOf(S, K)
    PROVE  /\ MakeLink(x, e) \in States(S, K)
           /\ ~x.ok => MakeLink(x, e).ok = FALSE
<1>1. PICK name : name = TrimSlashes(e.name) OBVIOUS
<1>2. PICK target : target = Resolved(e) OBVIOUS
<1>3. PICK y : y = MakeDirs(x, Parent(name)) OBVIOUS
<1>5. name \in Seq(S)
  <2>1. e.name \in Seq(S) BY DEF EntriesOf
  <2> QED BY <1>1, <2>1, TrimmedPath
<1>6. y \in States(S, K)
  <2>1. Parent(name) \in Seq(S) BY <1>5, ParentPath
  <2> QED BY <1>3, <2>1, MakeDirsTyped
<1>7. MakeLink(x, e) = Stop(x) \/ (x.ok /\ MakeLink(x, e) = [y EXCEPT !.tree = Put(@, name, Link(e.target))])
  BY <1>1, <1>2, <1>3, MakeLinkCases
<1>8. Stop(x) \in States(S, K) /\ Stop(x).ok = FALSE BY Stopped
<1>9. [y EXCEPT !.tree = Put(@, name, Link(e.target))] \in States(S, K) BY <1>5, <1>6, LinkMade
<1> QED BY <1>7, <1>8, <1>9

LinkSteps(r, x, links, S, K) ==
    /\ r \in [0 .. Len(links) -> States(S, K)] /\ r[0] = x /\ r[Len(links)] = FoldLeft(MakeLink, x, links)
    /\ \A k \in 1 .. Len(links) : r[k] = MakeLink(r[k - 1], links[k])

(* The second pass, link by link. *)
LEMMA LinkRun ==
    ASSUME NEW S, NEW K, NEW x \in States(S, K), NEW links \in Seq(EntriesOf(S, K))
    PROVE  \E r : LinkSteps(r, x, links, S, K)
<1> DEFINE n == Len(links)
           A == States(S, K)
           base == x
           Op(a, i) == MakeLink(a, links[i])
           F == [p \in A \X (1 .. n) |-> Op(p[1], p[2])]
           Eq(g) == g = [s \in SUBSET (1 .. n) |-> IF s = {} THEN base ELSE Op(g[s \ {Max(s)}], Max(s))]
           I == CHOOSE g : Eq(g)
<1>1. n \in Nat /\ DOMAIN links = 1 .. n OBVIOUS
<1>2. FoldLeft(MakeLink, x, links) = I[1 .. n]
  <2>1. FoldLeft(MakeLink, x, links) = (CHOOSE g : g = [s \in SUBSET DOMAIN links |->
                    IF s = {} THEN x ELSE MakeLink(g[s \ {Max(s)}], links[Max(s)])])[DOMAIN links]
    BY DEF FoldLeft, MapThenFoldSet
  <2> QED BY <1>1, <2>1
<1>3. base \in A /\ \A a \in A, i \in 1 .. n : Op(a, i) \in A
  <2>1. \A i \in 1 .. n : links[i] \in EntriesOf(S, K) OBVIOUS
  <2>2. \A a \in States(S, K), e \in EntriesOf(S, K) : MakeLink(a, e) \in States(S, K) BY MakeLinkTyped
  <2> HIDE DEF n
  <2> QED BY <2>1, <2>2
<1> HIDE DEF Op, A, base, n
<1>4. \A a \in A, i \in 1 .. n : F[<<a, i>>] = Op(a, i) BY <1>3
<1>c. base \in A /\ F \in [A \X (1 .. n) -> A] BY <1>3
<1>5. \E g : Eq(g)
  <2> HIDE DEF F
  <2>1. PICK g : TableOf(F, base, g, A, n) BY <1>1, <1>c, TableExists
  <2>2. ASSUME NEW s \in SUBSET (1 .. n)
        PROVE  g[s] = IF s = {} THEN base ELSE Op(g[s \ {Max(s)}], Max(s))
    <3>1. s # {} => Max(s) \in 1 .. n BY <1>1, MaxFacts
    <3>2. s \ {Max(s)} \in SUBSET (1 .. n) OBVIOUS
    <3>3. g[s \ {Max(s)}] \in A BY <2>1, <3>2 DEF TableOf
    <3> QED BY <1>4, <2>1, <3>1, <3>3 DEF TableOf, TableStep
  <2>3. g = [s \in SUBSET (1 .. n) |-> IF s = {} THEN base ELSE Op(g[s \ {Max(s)}], Max(s))]
    BY <2>1, <2>2 DEF TableOf
  <2> QED BY <2>3
<1>6. Eq(I)
  <2> HIDE DEF Eq
  <2> QED BY <1>5
<1> HIDE DEF I
<1>7. I[{}] = base BY <1>6
<1>8. ASSUME NEW s \in SUBSET (1 .. n), s # {} /\ Max(s) \in 1 .. n /\ I[s \ {Max(s)}] \in A
      PROVE  I[s] = F[<<I[s \ {Max(s)}], Max(s)>>]
  <2>1. I[s] = Op(I[s \ {Max(s)}], Max(s)) BY <1>6, <1>8
  <2> HIDE DEF F, Eq
  <2> QED BY <1>4, <1>8, <2>1
<1> HIDE DEF Eq, F
<1>t. Tabled(F, base, I, A, n) BY <1>7, <1>8 DEF Tabled
<1>9. PICK r : RunOf(F, base, r, I, A, n) BY <1>1, <1>c, <1>t, TableRun
<1>10. ASSUME NEW k \in 1 .. n PROVE r[k] = Op(r[k - 1], k)
  <2>1. k - 1 \in 0 .. n BY <1>1
  <2>2. r[k - 1] \in A BY <1>9, <2>1 DEF RunOf
  <2> QED BY <1>4, <1>9, <2>2 DEF RunOf
<1> QED BY <1>2, <1>9, <1>10 DEF RunOf, LinkSteps, n, A, base, Op

(* A link is in order when its target was unpacked, and no entry on the disk is
   above it that is no directory, or below it. *)
TargetFit(a, n, i) == \E j \in 1 .. n : NameAt(a, j) = Resolved(a[i]) /\ ~IsLink(a[j])
Apart(a, i, j) ==
    /\ NameAt(a, j) \in Ancestors(NameAt(a, i)) => IsDir(a[j])
    /\ NameAt(a, i) \notin Ancestors(NameAt(a, j))
LinkFit(a, n, I, i) == TargetFit(a, n, i) /\ \A j \in I : Apart(a, i, j)

Linked(x, a, n, I) == x.ok /\ SeenFor(x.seen, a, n) /\ TreeFor(x.tree, a, I)

LinkOutcome(y, a, n, I, i) ==
    /\ y.ok <=> LinkFit(a, n, I, i)
    /\ y.ok => Linked(y, a, n, I \cup {i})

(* A step of the second pass goes on exactly when its link is in order. *)
LEMMA SecondPassStep ==
    ASSUME NEW S, NEW K, NEW a, NEW n \in Nat, Named(a, 1 .. n, S, K),
           NEW I, I \subseteq 1 .. n, NonLinks(a, n) \subseteq I,
           NEW i \in 1 .. n, IsLink(a[i]), NameAt(a, i) \notin NamesAt(a, I),
           NEW x \in States(S, K), Linked(x, a, n, I)
    PROVE  LinkOutcome(MakeLink(x, a[i]), a, n, I, i)
<1>1. PICK e : e = a[i] OBVIOUS
<1>2. PICK name : name = NameAt(a, i) OBVIOUS
<1>3. PICK target : target = Resolved(e) OBVIOUS
<1>4. PICK y : y = MakeDirs(x, Parent(name)) OBVIOUS
<1>5. PICK z : z = MakeLink(x, e) OBVIOUS
<1>6. name = TrimSlashes(e.name) BY <1>1, <1>2 DEF NameAt
<1>7. e \in EntriesOf(S, K) /\ name \in Seq(S) /\ name # <<>> BY <1>1, <1>2 DEF Named
<1>9. x.ok /\ SeenFor(x.seen, a, n) /\ TreeFor(x.tree, a, I) BY DEF Linked
<1>10. Named(a, I, S, K) /\ Named(a, {i}, S, K) BY DEF Named
<1>11. x.tree \in Maps(Seq(S), Nodes(S)) BY DEF States
<1>12. PICK ps : ps = Way(Parent(name)) OBVIOUS
<1>13. Parent(name) \in Seq(S) /\ Ancestors(name) \subseteq ps /\ ps \subseteq Ancestors(name) \cup {<<>>}
  BY <1>7, <1>12, ParentFacts
<1>14. y \in States(S, K) BY <1>4, <1>13, MakeDirsTyped
<1> DEFINE TargetThere == /\ target \in DOMAIN x.seen /\ x.seen[target] # "link"
                          /\ target \in DOMAIN x.tree /\ x.tree[target].kind # "link"
           Clear == ~Blocked(x.tree, ps)
           New == name \notin DOMAIN x.tree
<1>15. TargetThere <=> TargetFit(a, n, i)
  <2>1. ASSUME TargetThere PROVE TargetFit(a, n, i)
    <3>1. PICK j \in 1 .. n : target = NameAt(a, j) BY <1>9, <2>1 DEF SeenFor, NamesAt
    <3>2. x.seen[target] = a[j].kind BY <1>9, <3>1 DEF SeenFor
    <3>3. ~IsLink(a[j]) BY <2>1, <3>2 DEF IsLink
    <3> QED BY <1>1, <1>3, <3>1, <3>3 DEF TargetFit
  <2>2. ASSUME NEW j \in 1 .. n, NameAt(a, j) = target, ~IsLink(a[j]) PROVE TargetThere
    <3>1. j \in I BY <2>2 DEF NonLinks
    <3>2. target \in DOMAIN x.seen /\ x.seen[target] = a[j].kind BY <1>9, <2>2 DEF SeenFor, NamesAt
    <3>3. target \in DOMAIN x.tree /\ x.tree[target] = NodeOf(a[j]) BY <1>9, <2>2, <3>1 DEF TreeFor, Way
    <3>4. a[j] \in EntriesOf(S, K) /\ Typical(a[j]) BY DEF Named
    <3>5. NodeOf(a[j]).kind = a[j].kind BY <3>4, NodeFacts
    <3> QED BY <2>2, <3>2, <3>3, <3>5 DEF IsLink
  <2> HIDE DEF TargetThere
  <2> QED BY <1>1, <1>3, <2>1, <2>2 DEF TargetFit
<1>16. Clear <=> \A j \in I : NameAt(a, j) \in Ancestors(name) => IsDir(a[j])
  <2>1. Blocked(x.tree, ps) <=> \E j \in I : NameAt(a, j) \in Ancestors(name) /\ ~IsDir(a[j])
    <3>1. PICK tree : tree = x.tree OBVIOUS
    <3>c. PICK J : J = I OBVIOUS
    <3>2. TreeFor(tree, a, J) /\ Named(a, J, S, K) BY <1>9, <1>10, <3>1, <3>c
    <3>3. name \in Seq(S) /\ Ancestors(name) \subseteq ps /\ ps \subseteq Ancestors(name) \cup {<<>>}
      BY <1>7, <1>13
    <3>4. Blocked(tree, ps) <=> \E j \in J : NameAt(a, j) \in Ancestors(name) /\ ~IsDir(a[j])
      <4> HIDE DEF TargetThere, Clear, New
      <4> QED BY <3>2, <3>3, InTheWay
    <3> QED BY <3>1, <3>c, <3>4
  <2> QED BY <2>1
<1>17. New <=> \A j \in I : name \notin Ancestors(NameAt(a, j))
  <2>1. name \in DOMAIN x.tree <=> \E j \in I : name \in Ancestors(NameAt(a, j))
    BY <1>2, <1>7, <1>9, InTheTree
  <2> QED BY <2>1
<1>18. y.ok <=> Clear
  <2>1. CASE Clear
    <3>1. y = [x EXCEPT !.tree = Grown(x.tree, ps)] BY <1>4, <1>12, <2>1, MakeDirsFacts
    <3> QED BY <1>9, <2>1, <3>1 DEF States
  <2>2. CASE ~Clear
    <3>1. y = Stop(x) BY <1>4, <1>12, <2>2, MakeDirsFacts
    <3>2. y.ok = FALSE BY <3>1, Stopped
    <3> QED BY <2>2, <3>2
  <2> QED BY <2>1, <2>2
<1>19. Clear => Regrown(x, Grown(x.tree, ps), y)
  <2> SUFFICES ASSUME Clear PROVE Regrown(x, Grown(x.tree, ps), y) OBVIOUS
  <2>1. y = [x EXCEPT !.tree = Grown(x.tree, ps)] BY <1>4, <1>12, MakeDirsFacts
  <2>2. \A q \in Ancestors(name) : q \in Seq(S) BY <1>7, AncestorFacts
  <2>3. <<>> \in Seq(S) OBVIOUS
  <2>4. ps \in SUBSET Seq(S) BY <1>13, <2>2, <2>3
  <2>5. Grown(x.tree, ps) \in Maps(Seq(S), Nodes(S)) BY <1>11, <2>4, GrownTyped
  <2> QED BY <2>1, <2>5, WithTree
<1>20. Clear => (name \notin DOMAIN y.tree <=> New)
  <2>1. name \notin ps BY <1>7, <1>13, AncestorFacts
  <2>2. Clear => y.tree = Grown(x.tree, ps) BY <1>19 DEF Regrown
  <2> QED BY <2>1, <2>2 DEF Grown
<1> HIDE DEF TargetThere, Clear, New
<1>21. LinkFit(a, n, I, i) <=> TargetThere /\ Clear /\ New
  <2>1. (\A j \in I : Apart(a, i, j)) <=>
            /\ \A j \in I : NameAt(a, j) \in Ancestors(name) => IsDir(a[j])
            /\ \A j \in I : name \notin Ancestors(NameAt(a, j))
    BY <1>2 DEF Apart
  <2> QED BY <1>15, <1>16, <1>17, <2>1 DEF LinkFit
<1>22. CASE ~(TargetThere /\ Clear /\ New)
  <2>1. \/ ~x.ok \/ target \notin DOMAIN x.seen \/ x.seen[target] = "link"
        \/ target \notin DOMAIN x.tree \/ x.tree[target].kind = "link"
        \/ ~y.ok \/ name \in DOMAIN y.tree
    BY <1>18, <1>20, <1>22 DEF TargetThere
  <2>2. z = Stop(x) BY <1>3, <1>4, <1>5, <1>6, <2>1, MakeLinkCases
  <2>3. z.ok = FALSE BY <2>2, Stopped
  <2> QED BY <1>1, <1>5, <1>21, <1>22, <2>3 DEF LinkOutcome
<1>23. CASE TargetThere /\ Clear /\ New
  <2>1. ~(\/ ~x.ok \/ target \notin DOMAIN x.seen \/ x.seen[target] = "link"
          \/ target \notin DOMAIN x.tree \/ x.tree[target].kind = "link"
          \/ ~y.ok \/ name \in DOMAIN y.tree)
    BY <1>9, <1>18, <1>20, <1>23 DEF TargetThere
  <2>2. z = [y EXCEPT !.tree = Put(@, name, Link(e.target))] BY <1>3, <1>4, <1>5, <1>6, <2>1, MakeLinkCases
  <2>3. Regrown(y, Put(y.tree, name, Link(e.target)), z) BY <1>7, <1>14, <2>2, LinkMade
  <2>4. Regrown(x, Grown(x.tree, ps), y) BY <1>19, <1>23
  <2>5. NodeOf(e) = Link(e.target) BY <1>1 DEF NodeOf, IsLink
  <2>6. name \notin DOMAIN x.tree BY <1>23 DEF New
  <2>7. TreeFor(Put(Grown(x.tree, ps), name, NodeOf(e)), a, I \cup {i})
    BY <1>1, <1>2, <1>9, <1>10, <1>13, <2>6, AddedNode
  <2>8. TreeFor(z.tree, a, I \cup {i}) BY <2>3, <2>4, <2>5, <2>7 DEF Regrown
  <2>9. z.ok /\ z.seen = x.seen BY <1>9, <2>3, <2>4 DEF Regrown
  <2>10. Linked(z, a, n, I \cup {i}) BY <1>9, <2>8, <2>9 DEF Linked
  <2> QED BY <1>1, <1>5, <1>21, <1>23, <2>9, <2>10 DEF LinkOutcome
<1> QED BY <1>22, <1>23

(* After a stop, no more links are made. *)
LEMMA NoLinkAfter ==
    ASSUME NEW S, NEW K, NEW u \in States(S, K), ~u.ok, NEW e \in EntriesOf(S, K),
           NEW v, v = MakeLink(u, e)
    PROVE  v.ok = FALSE
BY MakeLinkTyped

(* The second pass comes to an end exactly when all links are in order; then
   the tree is the one of all the entries. *)
LinksFit(a, n) ==
    \A i \in 1 .. n : IsLink(a[i]) => TargetFit(a, n, i) /\ \A j \in 1 .. n : j # i => Apart(a, i, j)

AfterSecond(y, a, n) ==
    /\ y.ok <=> LinksFit(a, n)
    /\ y.ok => TreeFor(y.tree, a, 1 .. n)

LEMMA SecondPass ==
    ASSUME NEW S, NEW K, NEW a, NEW n \in Nat, Named(a, 1 .. n, S, K),
           \A i, j \in 1 .. n : NameAt(a, i) = NameAt(a, j) => i = j,
           NEW x \in States(S, K), NEW bytes, Passed(x, a, n, bytes)
    PROVE  AfterSecond(FoldLeft(MakeLink, x, x.links), a, n)
<1>1. PICK links \in Seq(EntriesOf(S, K)) : links = x.links BY DEF States
<1>2. PICK m \in Nat : m = Len(links) OBVIOUS
<1>3. PICK pos : LinkPlaces(pos, links, a, n) BY <1>1 DEF Passed, LinksFor
<1>4. /\ \A q \in 1 .. m : pos[q] \in 1 .. n /\ IsLink(a[pos[q]]) /\ links[q] = a[pos[q]]
      /\ \A q, w \in 1 .. m : pos[q] = pos[w] => q = w
      /\ \A i \in 1 .. n : IsLink(a[i]) => \E q \in 1 .. m : pos[q] = i
  BY <1>2, <1>3 DEF LinkPlaces
<1>6. PICK r : LinkSteps(r, x, links, S, K) BY LinkRun
<1>7. /\ \A q \in 0 .. m : r[q] \in States(S, K)
      /\ r[0] = x /\ r[m] = FoldLeft(MakeLink, x, links)
      /\ \A q \in 1 .. m : r[q] = MakeLink(r[q - 1], links[q])
  BY <1>2, <1>6 DEF LinkSteps
<1> DEFINE Made(q) == NonLinks(a, n) \cup {pos[w] : w \in 1 .. q}
           Fit(q) == \A w \in 1 .. q : LinkFit(a, n, Made(w - 1), pos[w])
           Good(q) == (r[q].ok <=> Fit(q)) /\ (r[q].ok => Linked(r[q], a, n, Made(q)))
           T == {q \in 0 .. m : Good(q)}
<1>8. 0 \in T
  <2>1. Made(0) = NonLinks(a, n)
    <3>1. 1 .. 0 = {} OBVIOUS
    <3> QED BY <3>1
  <2>2. Linked(x, a, n, Made(0)) BY <2>1 DEF Passed, Linked
  <2>3. Fit(0) OBVIOUS
  <2>4. 0 \in 0 .. m /\ r[0] = x BY <1>7
  <2>5. r[0].ok BY <2>2, <2>4 DEF Linked
  <2> HIDE DEF Fit, Made
  <2> QED BY <2>2, <2>3, <2>4, <2>5
<1>9. ASSUME NEW q \in 1 .. m, q - 1 \in T PROVE q \in T
  <2>1. q \in 0 .. m /\ q - 1 \in 0 .. m /\ q \in Nat \ {0} OBVIOUS
  <2>2. PICK i \in 1 .. n : i = pos[q] /\ IsLink(a[i]) /\ links[q] = a[i] BY <1>4
  <2>3. Made(q) = Made(q - 1) \cup {i}
    <3>1. 1 .. q = (1 .. q - 1) \cup {q} BY <2>1
    <3> QED BY <2>2, <3>1
  <2>4. Fit(q) <=> Fit(q - 1) /\ LinkFit(a, n, Made(q - 1), i)
    <3>1. \A w \in 1 .. q : w \in 1 .. q - 1 \/ w = q BY <2>1
    <3>2. 1 .. q - 1 \subseteq 1 .. q /\ q \in 1 .. q BY <2>1
    <3> HIDE DEF Made
    <3> QED BY <2>2, <3>1, <3>2
  <2>5. PICK I : I = Made(q - 1) OBVIOUS
  <2>6. I \subseteq 1 .. n /\ NonLinks(a, n) \subseteq I /\ i \notin I
    <3>1. \A w \in 1 .. q - 1 : w \in 1 .. m /\ w # q BY <2>1
    <3>2. \A w \in 1 .. q - 1 : pos[w] \in 1 .. n /\ pos[w] # i BY <1>4, <2>2, <3>1
    <3>3. i \notin NonLinks(a, n) /\ NonLinks(a, n) \subseteq 1 .. n BY <2>2 DEF NonLinks
    <3> QED BY <2>5, <3>2, <3>3
  <2>7. NameAt(a, i) \notin NamesAt(a, I) BY <2>6 DEF NamesAt
  <2>8. PICK u \in States(S, K) : u = r[q - 1] BY <1>7, <2>1
  <2>9. PICK v \in States(S, K) : v = r[q] BY <1>7, <2>1
  <2>10. v = MakeLink(u, a[i]) BY <1>7, <2>2, <2>8, <2>9
  <2>11. (u.ok <=> Fit(q - 1)) /\ (u.ok => Linked(u, a, n, I))
    <3> HIDE DEF Fit, Made
    <3> QED BY <1>9, <2>5, <2>8
  <2>12. CASE ~u.ok
    <3>1. a[i] \in EntriesOf(S, K) BY DEF Named
    <3>2. PICK e \in EntriesOf(S, K) : e = a[i] BY <3>1
    <3>3. v = MakeLink(u, e) BY <2>10, <3>2
    <3>4. v.ok = FALSE
      <4> HIDE DEF Fit, Made, Good, T
      <4> QED BY <2>12, <3>3, NoLinkAfter
    <3> HIDE DEF Fit, Made
    <3> QED BY <2>1, <2>4, <2>9, <2>11, <2>12, <3>4
  <2>13. CASE u.ok
    <3> HIDE DEF Fit, Made
    <3>1. Linked(u, a, n, I) BY <2>11, <2>13
    <3>2. LinkOutcome(v, a, n, I, i) BY <2>2, <2>6, <2>7, <2>10, <3>1, SecondPassStep
    <3>3. (v.ok <=> LinkFit(a, n, I, i)) /\ (v.ok => Linked(v, a, n, I \cup {i})) BY <3>2 DEF LinkOutcome
    <3> QED BY <2>1, <2>3, <2>4, <2>5, <2>9, <2>11, <2>13, <3>3
  <2> HIDE DEF T
  <2> QED BY <2>12, <2>13
<1>10. 0 .. m \subseteq T
  <2> HIDE DEF T
  <2> QED BY <1>8, <1>9, PrefixInduction
<1>11. Good(m)
  <2>1. m \in 0 .. m OBVIOUS
  <2> HIDE DEF Good
  <2> QED BY <1>10, <2>1
<1>12. Made(m) = 1 .. n
  <2>1. \A i \in 1 .. n : i \in Made(m) BY <1>4 DEF NonLinks
  <2>2. \A i \in Made(m) : i \in 1 .. n BY <1>4 DEF NonLinks
  <2> HIDE DEF Made
  <2> QED BY <2>1, <2>2
<1>13. ASSUME LinksFit(a, n) PROVE Fit(m)
  <2> SUFFICES ASSUME NEW w \in 1 .. m PROVE LinkFit(a, n, Made(w - 1), pos[w]) OBVIOUS
  <2>1. PICK i \in 1 .. n : i = pos[w] /\ IsLink(a[i]) BY <1>4
  <2>2. \A j \in Made(w - 1) : j \in 1 .. n /\ j # i
    <3>1. \A v \in 1 .. w - 1 : v \in 1 .. m /\ v # w OBVIOUS
    <3>2. \A v \in 1 .. w - 1 : pos[v] \in 1 .. n /\ pos[v] # i BY <1>4, <2>1, <3>1
    <3> QED BY <2>1, <3>2 DEF NonLinks
  <2> HIDE DEF Made
  <2> QED BY <1>13, <2>1, <2>2 DEF LinksFit, LinkFit
<1>14. ASSUME Fit(m) PROVE LinksFit(a, n)
  <2> SUFFICES ASSUME NEW i \in 1 .. n, IsLink(a[i])
               PROVE  TargetFit(a, n, i) /\ \A j \in 1 .. n : j # i => Apart(a, i, j)
    BY DEF LinksFit
  <2>1. PICK q \in 1 .. m : pos[q] = i BY <1>4
  <2>2. LinkFit(a, n, Made(q - 1), i)
    <3> HIDE DEF Made
    <3> QED BY <1>14, <2>1
  <2>3. ASSUME NEW j \in 1 .. n, j # i PROVE Apart(a, i, j)
    <3>1. CASE ~IsLink(a[j])
      <4>1. j \in Made(q - 1) BY <3>1 DEF NonLinks
      <4> HIDE DEF Made
      <4> QED BY <2>2, <4>1 DEF LinkFit
    <3>2. CASE IsLink(a[j])
      <4>1. PICK w \in 1 .. m : pos[w] = j BY <1>4, <3>2
      <4>2. CASE w < q
        <5>1. w \in 1 .. q - 1 BY <4>2
        <5>2. j \in Made(q - 1) BY <4>1, <5>1
        <5> HIDE DEF Made
        <5> QED BY <2>2, <5>2 DEF LinkFit
      <4>3. CASE q < w
        <5>1. q \in 1 .. w - 1 BY <4>3
        <5>2. i \in Made(w - 1) BY <2>1, <5>1
        <5>3. LinkFit(a, n, Made(w - 1), j)
          <6> HIDE DEF Made
          <6> QED BY <1>14, <4>1
        <5> HIDE DEF Made
        <5>4. Apart(a, j, i) BY <5>2, <5>3 DEF LinkFit
        <5>5. ~IsDir(a[i]) BY KindsApart
        <5> QED BY <5>4, <5>5 DEF Apart
      <4>4. w # q BY <2>1, <2>3, <4>1
      <4> QED BY <4>2, <4>3, <4>4
    <3> QED BY <3>1, <3>2
  <2>4. TargetFit(a, n, i) BY <2>2 DEF LinkFit
  <2> QED BY <2>3, <2>4
<1>15. PICK y : y = FoldLeft(MakeLink, x, x.links) OBVIOUS
<1>16. y = r[m] BY <1>1, <1>7, <1>15
<1> HIDE DEF Fit, Made
<1>17. y.ok <=> LinksFit(a, n) BY <1>11, <1>13, <1>14, <1>16
<1>18. y.ok => TreeFor(y.tree, a, 1 .. n) BY <1>11, <1>12, <1>16 DEF Linked
<1> QED BY <1>15, <1>17, <1>18 DEF AfterSecond

(* After a first pass that stopped, so does the second. *)
LEMMA NothingLinked ==
    ASSUME NEW S, NEW K, NEW x \in States(S, K), ~x.ok
    PROVE  ~FoldLeft(MakeLink, x, x.links).ok
<1>1. PICK links \in Seq(EntriesOf(S, K)) : links = x.links BY DEF States
<1>2. PICK m \in Nat : m = Len(links) OBVIOUS
<1>3. PICK r : LinkSteps(r, x, links, S, K) BY LinkRun
<1>4. /\ \A q \in 0 .. m : r[q] \in States(S, K)
      /\ r[0] = x /\ r[m] = FoldLeft(MakeLink, x, links)
      /\ \A q \in 1 .. m : r[q] = MakeLink(r[q - 1], links[q])
  BY <1>2, <1>3 DEF LinkSteps
<1> DEFINE T == {q \in 0 .. m : ~r[q].ok}
<1>5. 0 \in T BY <1>4
<1>6. ASSUME NEW q \in 1 .. m, q - 1 \in T PROVE q \in T
  <2>1. q \in 0 .. m /\ q - 1 \in 0 .. m /\ ~r[q - 1].ok BY <1>6
  <2>2. r[q - 1] \in States(S, K) /\ r[q] = MakeLink(r[q - 1], links[q]) BY <1>4, <2>1
  <2>3. links[q] \in EntriesOf(S, K) BY <1>2
  <2>4. r[q].ok = FALSE
    <3>1. PICK u \in States(S, K) : u = r[q - 1] BY <2>2
    <3>2. PICK e \in EntriesOf(S, K) : e = links[q] BY <2>3
    <3>3. ~u.ok BY <2>1, <3>1
    <3>4. MakeLink(u, e).ok = FALSE BY <3>3, MakeLinkTyped
    <3> QED BY <2>2, <3>1, <3>2, <3>4
  <2> QED BY <2>1, <2>4
<1>7. 0 .. m \subseteq T
  <2> HIDE DEF T
  <2> QED BY <1>5, <1>6, PrefixInduction
<1>8. m \in 0 .. m OBVIOUS
<1> QED BY <1>1, <1>4, <1>7, <1>8

-----------------------------------------------------------------------------
(* What the two passes ask of an archive, taken together, is well-formedness. *)

Distinct(a) == \A i, j \in 1 .. Len(a) : NameAt(a, i) = NameAt(a, j) => i = j

(* There are as many names as entries exactly when no two entries share one. *)
LEMMA NamesCounted ==
    ASSUME NEW S, NEW K, NEW a \in Seq(EntriesOf(S, K))
    PROVE  Cardinality(EntryNames(a)) = Len(a) <=> Distinct(a)
<1>1. PICK n \in Nat : n = Len(a) OBVIOUS
<1>2. PICK f : f = [i \in 1 .. n |-> NameAt(a, i)] OBVIOUS
<1>3. PICK T : T = {f[i] : i \in 1 .. n} OBVIOUS
<1>4. EntryNames(a) = T
  <2>1. DOMAIN a = 1 .. n BY <1>1
  <2> QED BY <1>2, <1>3, <2>1 DEF EntryNames, NameAt
<1>5. f \in Surjection(1 .. n, T) BY <1>2, <1>3 DEF Surjection
<1>6. IsFiniteSet(1 .. n) /\ Cardinality(1 .. n) = n
  <2>1. 1 \in Int /\ n \in Int OBVIOUS
  <2>2. /\ IsFiniteSet(1 .. n)
        /\ Cardinality(1 .. n) = IF 1 > n THEN 0 ELSE n - 1 + 1
    BY <2>1, FS_Interval
  <2> QED BY <2>2
<1>7. Cardinality(T) = n <=> f \in Injection(1 .. n, T)
  <2>1. Cardinality(T) = Cardinality(1 .. n) <=> f \in Injection(1 .. n, T) BY <1>5, <1>6, FS_Surjection
  <2> QED BY <1>6, <2>1
<1>8. f \in Injection(1 .. n, T) <=> Distinct(a)
  <2>1. f \in [1 .. n -> T] /\ DOMAIN f = 1 .. n /\ \A i \in 1 .. n : f[i] = NameAt(a, i) BY <1>2, <1>3
  <2> QED BY <1>1, <2>1 DEF Injection, IsInjective, Distinct
<1> QED BY <1>1, <1>4, <1>7, <1>8

(* No sum of the sizes exceeds the limit exactly when the last does not. *)
Roomy(a, sums) == \A k \in 1 .. Len(a) : sums[k - 1] + SizeIn(a[k]) <= MaxOutputBytes

LEMMA SumsBounded ==
    ASSUME NEW S, NEW K, NEW a \in Seq(EntriesOf(S, K)), NEW sums, SumSteps(sums, a),
           \A k \in 1 .. Len(a) : IsFile(a[k]) => 0 <= a[k].size
    PROVE  Sum(a) <= MaxOutputBytes <=> Roomy(a, sums)
<1>1. PICK n \in Nat : n = Len(a) OBVIOUS
<1>2. MaxOutputBytes \in Nat BY LimitsAssumption
<1>3. /\ \A k \in 0 .. n : sums[k] \in Int
      /\ sums[0] = 0 /\ sums[n] = Sum(a)
      /\ \A k \in 1 .. n : sums[k] = Added(sums[k - 1], a[k])
  BY <1>1 DEF SumSteps
<1>4. ASSUME NEW k \in 1 .. n PROVE sums[k] = sums[k - 1] + SizeIn(a[k]) /\ sums[k - 1] <= sums[k]
  <2>1. k - 1 \in 0 .. n /\ k \in 0 .. n OBVIOUS
  <2>2. sums[k - 1] \in Int /\ sums[k] \in Int BY <1>3, <2>1
  <2>3. PICK e \in EntriesOf(S, K) : e = a[k] BY <1>1
  <2>4. e.size \in Int BY DEF EntriesOf
  <2>5. IsFile(e) => 0 <= e.size BY <1>1, <2>3
  <2>6. SizeIn(e) \in Int /\ 0 <= SizeIn(e) BY <2>4, <2>5 DEF SizeIn
  <2>7. Added(sums[k - 1], e) = sums[k - 1] + SizeIn(e) BY <2>2, <2>4 DEF Added, SizeIn, IsFile
  <2> QED BY <1>3, <2>2, <2>3, <2>6, <2>7
<1>5. Roomy(a, sums) <=> \A k \in 1 .. n : sums[k] <= MaxOutputBytes BY <1>1, <1>4 DEF Roomy
<1>6. ASSUME \A k \in 1 .. n : sums[k] <= MaxOutputBytes PROVE sums[n] <= MaxOutputBytes
  <2>1. CASE n = 0 BY <1>2, <1>3, <2>1
  <2>2. CASE n # 0
    <3>1. n \in 1 .. n BY <2>2
    <3> QED BY <1>6, <3>1
  <2> QED BY <2>1, <2>2
<1>7. ASSUME sums[n] <= MaxOutputBytes, NEW k \in 1 .. n PROVE sums[k] <= MaxOutputBytes
  <2> DEFINE T == {i \in 0 .. n : sums[n - i] <= MaxOutputBytes}
  <2>1. 0 \in T
    <3>1. n - 0 = n /\ 0 \in 0 .. n OBVIOUS
    <3> QED BY <1>7, <3>1
  <2>2. ASSUME NEW i \in 1 .. n, i - 1 \in T PROVE i \in T
    <3>1. PICK j \in 1 .. n : j = n - (i - 1) OBVIOUS
    <3>2. j - 1 = n - i /\ j - 1 \in 0 .. n /\ j \in 0 .. n /\ i \in 0 .. n BY <3>1
    <3>3. sums[j] <= MaxOutputBytes BY <2>2, <3>1
    <3>4. sums[j - 1] <= sums[j] BY <1>4
    <3>5. sums[j - 1] \in Int /\ sums[j] \in Int BY <1>3, <3>2
    <3>6. sums[j - 1] <= MaxOutputBytes BY <1>2, <3>3, <3>4, <3>5
    <3> QED BY <3>2, <3>6
  <2>3. 0 .. n \subseteq T
    <3> HIDE DEF T
    <3> QED BY <2>1, <2>2, PrefixInduction
  <2>4. n - k \in 0 .. n /\ n - (n - k) = k OBVIOUS
  <2>5. n - k \in T BY <2>3, <2>4
  <2> QED BY <2>4, <2>5
<1> QED BY <1>3, <1>5, <1>6, <1>7

(* What has children is a directory that comes before them: between entries in
   the order of the first pass, and between the links and all the others. *)
Nested(a) == \A i, j \in 1 .. Len(a) : NameAt(a, i) \in Ancestors(NameAt(a, j)) => IsDir(a[i]) /\ i < j
Ordered(a) == \A k \in 1 .. Len(a) : \A i \in 1 .. k - 1 : PairFit(a, i, k)
Parted(a) == \A i \in 1 .. Len(a) : IsLink(a[i]) => \A j \in 1 .. Len(a) : j # i => Apart(a, i, j)

LEMMA NestedOrder ==
    ASSUME NEW S, NEW K, NEW a \in Seq(EntriesOf(S, K)), Named(a, 1 .. Len(a), S, K), Distinct(a)
    PROVE  Nested(a) <=> Ordered(a) /\ Parted(a)
<1>1. PICK n \in Nat : n = Len(a) OBVIOUS
<1>2. \A i \in 1 .. n : NameAt(a, i) \in Seq(S) /\ Typical(a[i]) BY <1>1 DEF Named
<1>3. \A i \in 1 .. n : NameAt(a, i) \notin Ancestors(NameAt(a, i)) BY <1>2, AncestorFacts
<1>4. ASSUME Nested(a), NEW k \in 1 .. n, NEW i \in 1 .. k - 1 PROVE PairFit(a, i, k)
  <2>1. i \in 1 .. n /\ i < k /\ ~(k < i) /\ i # k OBVIOUS
  <2>2. NameAt(a, i) # NameAt(a, k) BY <1>1, <2>1 DEF Distinct
  <2>3. NameAt(a, i) \in Ancestors(NameAt(a, k)) => IsDir(a[i]) BY <1>1, <1>4, <2>1 DEF Nested
  <2>4. NameAt(a, k) \notin Ancestors(NameAt(a, i)) BY <1>1, <1>4, <2>1 DEF Nested
  <2> QED BY <2>2, <2>3, <2>4 DEF PairFit
<1>5. ASSUME Nested(a), NEW i \in 1 .. n, IsLink(a[i]), NEW j \in 1 .. n, j # i PROVE Apart(a, i, j)
  <2>1. NameAt(a, j) \in Ancestors(NameAt(a, i)) => IsDir(a[j]) BY <1>1, <1>5 DEF Nested
  <2>2. NameAt(a, i) \in Ancestors(NameAt(a, j)) => IsDir(a[i]) BY <1>1, <1>5 DEF Nested
  <2> QED BY <1>5, <2>1, <2>2, KindsApart DEF Apart
<1>6. ASSUME Ordered(a), Parted(a), NEW i \in 1 .. n, NEW j \in 1 .. n, NameAt(a, i) \in Ancestors(NameAt(a, j))
      PROVE  IsDir(a[i]) /\ i < j
  <2>1. i # j BY <1>3, <1>6
  <2>2. CASE i < j
    <3>1. i \in 1 .. j - 1 BY <2>2
    <3>2. PairFit(a, i, j) BY <1>1, <1>6, <3>1 DEF Ordered
    <3> QED BY <1>6, <2>2, <3>2 DEF PairFit
  <2>3. CASE j < i
    <3>1. j \in 1 .. i - 1 BY <2>3
    <3>2. PairFit(a, j, i) BY <1>1, <1>6, <3>1 DEF Ordered
    <3>3. ~IsDir(a[i]) /\ (IsFile(a[i]) => IsLink(a[j])) BY <1>6, <3>2 DEF PairFit
    <3>4. CASE IsFile(a[i])
      <4>1. Apart(a, j, i) BY <1>1, <1>6, <2>1, <3>3, <3>4 DEF Parted
      <4> QED BY <1>6, <3>3, <4>1 DEF Apart
    <3>5. CASE IsLink(a[i])
      <4>1. Apart(a, i, j) BY <1>1, <1>6, <2>1, <3>5 DEF Parted
      <4> QED BY <1>6, <4>1 DEF Apart
    <3> QED BY <1>2, <3>3, <3>4, <3>5 DEF Typical
  <2> QED BY <2>1, <2>2, <2>3
<1>7. Nested(a) => Ordered(a) /\ Parted(a)
  <2>1. ASSUME Nested(a) PROVE Ordered(a) BY <1>1, <1>4, <2>1 DEF Ordered
  <2>2. ASSUME Nested(a) PROVE Parted(a) BY <1>1, <1>5, <2>2 DEF Parted
  <2> QED BY <2>1, <2>2
<1>8. Ordered(a) /\ Parted(a) => Nested(a) BY <1>1, <1>6 DEF Nested
<1> QED BY <1>7, <1>8

(* The entry of a name. *)
LEMMA EntryNamed ==
    ASSUME NEW S, NEW K, NEW a \in Seq(EntriesOf(S, K)), Distinct(a), NEW i \in 1 .. Len(a)
    PROVE  EntryOf(a, NameAt(a, i)) = a[i]
<1>1. PICK n \in Nat : n = Len(a) /\ DOMAIN a = 1 .. n OBVIOUS
<1>2. PICK p : p = NameAt(a, i) OBVIOUS
<1>3. PICK k : k = CHOOSE j \in DOMAIN a : TrimSlashes(a[j].name) = p OBVIOUS
<1>4. \E j \in DOMAIN a : TrimSlashes(a[j].name) = p BY <1>1, <1>2 DEF NameAt
<1>5. k \in DOMAIN a /\ TrimSlashes(a[k].name) = p BY <1>3, <1>4
<1>6. k = i BY <1>1, <1>2, <1>5 DEF Distinct, NameAt
<1> QED BY <1>2, <1>3, <1>6 DEF EntryOf

(* The target of a link was an entry, and is none that is a link. *)
LEMMA TargetListed ==
    ASSUME NEW S, NEW K, NEW a \in Seq(EntriesOf(S, K)), Distinct(a), NEW i \in 1 .. Len(a)
    PROVE  TargetFit(a, Len(a), i) <=>
             Resolved(a[i]) \in EntryNames(a) /\ EntryOf(a, Resolved(a[i])).kind # "link"
<1>1. PICK n \in Nat : n = Len(a) /\ DOMAIN a = 1 .. n OBVIOUS
<1>2. PICK p : p = Resolved(a[i]) OBVIOUS
<1>3. p \in EntryNames(a) <=> \E j \in 1 .. n : NameAt(a, j) = p BY <1>1 DEF EntryNames, NameAt
<1>4. \A j \in 1 .. n : NameAt(a, j) = p => EntryOf(a, p) = a[j] BY <1>1, EntryNamed
<1> QED BY <1>1, <1>2, <1>3, <1>4 DEF TargetFit, IsLink

(* The same list of demands, with every entry looked at by itself. *)
Listed(a, sums, symlinks) ==
    /\ \A k \in 1 .. Len(a) : k <= MaxEntries
    /\ Roomy(a, sums) /\ Distinct(a) /\ Nested(a)
    /\ \A k \in 1 .. Len(a) : EntryFit(a[k], symlinks)
    /\ \A k \in 1 .. Len(a) : IsLink(a[k]) => TargetFit(a, Len(a), k)

Shaped(e) == IF e.kind = "file" THEN e.size \in 0 .. MaxFileBytes /\ e.whole ELSE e.size = 0

(* What is asked of one entry by itself. *)
LEMMA EntryShape ==
    ASSUME NEW S, NEW K, NEW e \in EntriesOf(S, K), NEW symlinks
    PROVE  EntryFit(e, symlinks) <=>
             CleanName(e.name) /\ Supported(e, symlinks) /\ Shaped(e) /\ (IsLink(e) => TargetOK(e))
<1>1. MaxFileBytes \in Nat BY LimitsAssumption
<1>2. e.size \in Int BY DEF EntriesOf
<1>3. e.size \in 0 .. MaxFileBytes <=> 0 <= e.size /\ e.size <= MaxFileBytes BY <1>1, <1>2
<1> QED BY <1>3 DEF EntryFit, Shaped, IsFile

(* Well-formedness is this list, *)
LEMMA WellFormedListed ==
    ASSUME NEW S, NEW K, NEW a \in Seq(EntriesOf(S, K)), NEW symlinks, NEW sums, SumSteps(sums, a)
    PROVE  WellFormed(a, symlinks) <=> Listed(a, sums, symlinks)
<1>1. PICK n \in Nat : n = Len(a) /\ DOMAIN a = 1 .. n OBVIOUS
<1>2. MaxEntries \in Nat /\ MaxOutputBytes \in Nat BY LimitsAssumption
<1> DEFINE Own(k) == CleanName(a[k].name) /\ Supported(a[k], symlinks) /\ Shaped(a[k])
           Aimed(k) == /\ TargetOK(a[k]) /\ Resolved(a[k]) \in EntryNames(a)
                       /\ EntryOf(a, Resolved(a[k])).kind # "link"
           Counted == Len(a) <= MaxEntries /\ Sum(a) <= MaxOutputBytes /\ Cardinality(EntryNames(a)) = Len(a)
           Above(k) == \A j \in 1 .. n : NameAt(a, k) \in Ancestors(NameAt(a, j)) => IsDir(a[k]) /\ k < j
<1>3. WellFormed(a, symlinks) <=>
        Counted /\ \A k \in 1 .. n : Own(k) /\ Above(k) /\ (IsLink(a[k]) => Aimed(k))
  BY <1>1 DEF WellFormed, Shaped, NameAt, IsDir, IsLink
<1>4. \A k \in 1 .. n : EntryFit(a[k], symlinks) <=> Own(k) /\ (IsLink(a[k]) => TargetOK(a[k]))
  <2> SUFFICES ASSUME NEW k \in 1 .. n
               PROVE  EntryFit(a[k], symlinks) <=> Own(k) /\ (IsLink(a[k]) => TargetOK(a[k]))
    OBVIOUS
  <2>1. PICK e \in EntriesOf(S, K) : e = a[k] BY <1>1
  <2>2. EntryFit(e, symlinks) <=>
          CleanName(e.name) /\ Supported(e, symlinks) /\ Shaped(e) /\ (IsLink(e) => TargetOK(e))
    BY EntryShape
  <2> QED BY <2>1, <2>2
<1>5. Len(a) <= MaxEntries <=> \A k \in 1 .. n : k <= MaxEntries
  <2>1. CASE n = 0 BY <1>1, <1>2, <2>1
  <2>2. CASE n # 0
    <3>1. n \in 1 .. n BY <2>2
    <3>2. \A k \in 1 .. n : n <= MaxEntries => k <= MaxEntries BY <1>2
    <3> QED BY <1>1, <3>1, <3>2
  <2> QED BY <2>1, <2>2
<1>6. Cardinality(EntryNames(a)) = Len(a) <=> Distinct(a) BY NamesCounted
<1>7. ASSUME \A k \in 1 .. n : EntryFit(a[k], symlinks)
      PROVE  Sum(a) <= MaxOutputBytes <=> Roomy(a, sums)
  <2>1. \A k \in 1 .. Len(a) : IsFile(a[k]) => 0 <= a[k].size BY <1>1, <1>7 DEF EntryFit
  <2> QED BY <2>1, SumsBounded
<1>8. ASSUME Distinct(a), NEW k \in 1 .. n
      PROVE  TargetFit(a, n, k) <=>
               Resolved(a[k]) \in EntryNames(a) /\ EntryOf(a, Resolved(a[k])).kind # "link"
  BY <1>1, <1>8, TargetListed
<1>9. Nested(a) <=> \A k \in 1 .. n : Above(k) BY <1>1 DEF Nested
<1>10. (\A k \in 1 .. n : Own(k) /\ Above(k) /\ (IsLink(a[k]) => Aimed(k))) <=>
          /\ \A k \in 1 .. n : Above(k)
          /\ \A k \in 1 .. n : Own(k) /\ (IsLink(a[k]) => TargetOK(a[k]))
          /\ \A k \in 1 .. n : IsLink(a[k]) =>
                Resolved(a[k]) \in EntryNames(a) /\ EntryOf(a, Resolved(a[k])).kind # "link"
  <2> HIDE DEF Own, Above
  <2> QED OBVIOUS
<1>11. ASSUME Distinct(a)
       PROVE  (\A k \in 1 .. n : IsLink(a[k]) => TargetFit(a, n, k)) <=>
              (\A k \in 1 .. n : IsLink(a[k]) =>
                Resolved(a[k]) \in EntryNames(a) /\ EntryOf(a, Resolved(a[k])).kind # "link")
  BY <1>8, <1>11
<1> DEFINE Fits1 == \A k \in 1 .. n : EntryFit(a[k], symlinks)
           Fits2 == \A k \in 1 .. n : IsLink(a[k]) => TargetFit(a, n, k)
           Aims == \A k \in 1 .. n : IsLink(a[k]) =>
                      Resolved(a[k]) \in EntryNames(a) /\ EntryOf(a, Resolved(a[k])).kind # "link"
           Nests == \A k \in 1 .. n : Above(k)
           Short == \A k \in 1 .. n : k <= MaxEntries
<1>12. Fits1 <=> \A k \in 1 .. n : Own(k) /\ (IsLink(a[k]) => TargetOK(a[k]))
  <2> HIDE DEF Own
  <2> QED BY <1>4
<1>13. WellFormed(a, symlinks) <=> Counted /\ Nests /\ Fits1 /\ Aims
  <2> HIDE DEF Own, Above, Counted, Aimed
  <2> QED BY <1>3, <1>10, <1>12
<1>14. Listed(a, sums, symlinks) <=> Short /\ Roomy(a, sums) /\ Distinct(a) /\ Nests /\ Fits1 /\ Fits2
  <2>1. Listed(a, sums, symlinks) <=> Short /\ Roomy(a, sums) /\ Distinct(a) /\ Nested(a) /\ Fits1 /\ Fits2
    <3> HIDE DEF Above
    <3> QED BY <1>1 DEF Listed
  <2> HIDE DEF Nests, Short, Fits1, Fits2
  <2> QED BY <1>9, <2>1 DEF Nests
<1>15. Counted <=> Len(a) <= MaxEntries /\ Sum(a) <= MaxOutputBytes /\ Distinct(a) BY <1>6
<1>16. Len(a) <= MaxEntries <=> Short BY <1>5
<1>17. Fits1 => (Sum(a) <= MaxOutputBytes <=> Roomy(a, sums)) BY <1>7
<1>18. Distinct(a) => (Fits2 <=> Aims) BY <1>11
<1> HIDE DEF Counted, Fits1, Fits2, Aims, Nests, Short
<1> QED BY <1>13, <1>14, <1>15, <1>16, <1>17, <1>18

(* Entries in order have names and kinds that are supported. *)
LEMMA FitNamed ==
    ASSUME NEW S, NEW K, NEW a \in Seq(EntriesOf(S, K)), NEW symlinks,
           \A k \in 1 .. Len(a) : EntryFit(a[k], symlinks)
    PROVE  Named(a, 1 .. Len(a), S, K)
<1>1. PICK n \in Nat : n = Len(a) OBVIOUS
<1> SUFFICES ASSUME NEW k \in 1 .. n
             PROVE  a[k] \in EntriesOf(S, K) /\ NameAt(a, k) \in Seq(S) /\ NameAt(a, k) # <<>> /\ Typical(a[k])
  BY <1>1 DEF Named
<1>2. PICK e \in EntriesOf(S, K) : e = a[k] BY <1>1
<1>3. CleanName(e.name) /\ Supported(e, symlinks) BY <1>1, <1>2 DEF EntryFit
<1>4. e.name \in Seq(S) BY DEF EntriesOf
<1>5. TrimSlashes(e.name) \in Seq(S) /\ TrimSlashes(e.name) # <<>> BY <1>3, <1>4, CleanNamed
<1> QED BY <1>2, <1>3, <1>5, SupportedTypical DEF NameAt

(* which is what the steps of both passes ask for. *)
LEMMA ListedSteps ==
    ASSUME NEW S, NEW K, NEW a \in Seq(EntriesOf(S, K)), NEW symlinks, NEW sums
    PROVE  Listed(a, sums, symlinks) <=>
             (\A k \in 1 .. Len(a) : StepFit(a, k, sums[k - 1], symlinks)) /\ LinksFit(a, Len(a))
<1>1. PICK n \in Nat : n = Len(a) OBVIOUS
<1> DEFINE Steps == \A k \in 1 .. n : StepFit(a, k, sums[k - 1], symlinks)
           Fit == \A k \in 1 .. n : EntryFit(a[k], symlinks)
           Short == \A k \in 1 .. n : k <= MaxEntries
           Aims == \A k \in 1 .. n : IsLink(a[k]) => TargetFit(a, n, k)
<1>2. Steps <=> Short /\ Fit /\ Roomy(a, sums) /\ Ordered(a) BY <1>1 DEF StepFit, Roomy, Ordered
<1>3. LinksFit(a, n) <=> Aims /\ Parted(a) BY <1>1 DEF LinksFit, Parted
<1>4. Listed(a, sums, symlinks) <=> Short /\ Roomy(a, sums) /\ Distinct(a) /\ Nested(a) /\ Fit /\ Aims
  BY <1>1 DEF Listed
<1>5. ASSUME Fit PROVE Named(a, 1 .. n, S, K) BY <1>1, <1>5, FitNamed
<1>6. Ordered(a) => Distinct(a)
  <2> SUFFICES ASSUME Ordered(a), NEW i \in 1 .. n, NEW j \in 1 .. n, NameAt(a, i) = NameAt(a, j), i # j
               PROVE  FALSE
    BY <1>1 DEF Distinct
  <2>1. i < j => i \in 1 .. j - 1 OBVIOUS
  <2>2. j < i => j \in 1 .. i - 1 OBVIOUS
  <2>3. i < j \/ j < i OBVIOUS
  <2> QED BY <1>1, <2>1, <2>2, <2>3 DEF Ordered, PairFit
<1>7. Fit /\ Distinct(a) => (Nested(a) <=> Ordered(a) /\ Parted(a)) BY <1>1, <1>5, NestedOrder
<1>8. Listed(a, sums, symlinks) <=> Steps /\ LinksFit(a, n)
  <2> HIDE DEF Fit, Short, Aims, Steps
  <2> QED BY <1>2, <1>3, <1>4, <1>6, <1>7
<1> QED BY <1>1, <1>8

(* The tree of all the entries is the one the archive says. *)
LEMMA IntendedTree ==
    ASSUME NEW S, NEW K, NEW a \in Seq(EntriesOf(S, K)), Distinct(a),
           NEW tree \in Maps(Seq(S), Nodes(S)), TreeFor(tree, a, 1 .. Len(a))
    PROVE  tree = Intended(a)
<1>1. PICK n \in Nat : n = Len(a) /\ DOMAIN a = 1 .. n OBVIOUS
<1>2. PICK names : names = EntryNames(a) OBVIOUS
<1>3. names = NamesAt(a, 1 .. n) BY <1>1, <1>2 DEF EntryNames, NamesAt, NameAt
<1>4. PICK D : D = {<<>>} \cup UNION {Ancestors(p) \cup {p} : p \in names} OBVIOUS
<1>5. {Way(NameAt(a, i)) : i \in 1 .. n} = {Ancestors(p) \cup {p} : p \in names}
  <2>1. names = {NameAt(a, i) : i \in 1 .. n} BY <1>3 DEF NamesAt
  <2> QED BY <2>1 DEF Way
<1>6. DOMAIN tree = D
  <2>1. DOMAIN tree = {<<>>} \cup UNION {Way(NameAt(a, i)) : i \in 1 .. n} BY <1>1 DEF TreeFor
  <2> QED BY <1>4, <1>5, <2>1
<1>7. tree = [p \in D |-> tree[p]] BY <1>6, MapFacts
<1>8. ASSUME NEW p \in D PROVE tree[p] = IF p \in names THEN NodeOf(EntryOf(a, p)) ELSE Dir
  <2>1. CASE p \in names
    <3>1. PICK i \in 1 .. n : p = NameAt(a, i) BY <1>3, <2>1 DEF NamesAt
    <3>2. tree[p] = NodeOf(a[i]) BY <1>1, <3>1 DEF TreeFor
    <3>3. EntryOf(a, p) = a[i] BY <1>1, <3>1, EntryNamed
    <3> QED BY <2>1, <3>2, <3>3
  <2>2. CASE p \notin names
    <3>1. tree[p] = Dir BY <1>1, <1>3, <1>6, <2>2 DEF TreeFor
    <3> QED BY <2>2, <3>1
  <2> QED BY <2>1, <2>2
<1>9. Intended(a) = [p \in D |-> IF p \in names THEN NodeOf(EntryOf(a, p)) ELSE Dir]
  BY <1>2, <1>4 DEF Intended
<1> QED BY <1>7, <1>8, <1>9

Right(y, a, symlinks) ==
    /\ y.ok <=> WellFormed(a, symlinks)
    /\ y.ok => y.tree = Intended(a)

(* Both passes together. *)
LEMMA Unpacked ==
    ASSUME NEW S, NEW K, NEW a \in Seq(EntriesOf(S, K)), NEW symlinks
    PROVE  Right(Unpack(a, symlinks), a, symlinks)
<1>1. PICK n \in Nat : n = Len(a) OBVIOUS
<1>2. PICK sums : SumSteps(sums, a) BY SumRun
<1>3. PICK x : x = FirstFold(a, symlinks) OBVIOUS
<1>4. AfterFirst(x, a, symlinks, sums, S, K) BY <1>2, <1>3, FirstPass
<1> DEFINE Steps == \A k \in 1 .. n : StepFit(a, k, sums[k - 1], symlinks)
<1>5. /\ x \in States(S, K)
      /\ x.ok <=> Steps
      /\ x.ok => Passed(x, a, n, sums[n])
  BY <1>1, <1>4 DEF AfterFirst
<1>6. PICK y : y = FoldLeft(MakeLink, x, x.links) OBVIOUS
<1>7. y = Unpack(a, symlinks) BY <1>3, <1>6 DEF Unpack, FirstFold
<1>8. y \in States(S, K)
  <2>1. PICK links \in Seq(EntriesOf(S, K)) : links = x.links BY <1>5 DEF States
  <2>2. PICK r : LinkSteps(r, x, links, S, K) BY <1>5, LinkRun
  <2>3. PICK m \in Nat : m = Len(links) OBVIOUS
  <2>4. m \in 0 .. m OBVIOUS
  <2>5. r[m] \in States(S, K) /\ r[m] = FoldLeft(MakeLink, x, links) BY <2>2, <2>3, <2>4 DEF LinkSteps
  <2> QED BY <1>6, <2>1, <2>5
<1>9. WellFormed(a, symlinks) <=> Steps /\ LinksFit(a, n)
  <2>1. WellFormed(a, symlinks) <=> Listed(a, sums, symlinks) BY <1>2, WellFormedListed
  <2>2. Listed(a, sums, symlinks) <=> Steps /\ LinksFit(a, n)
    <3>1. Listed(a, sums, symlinks) <=>
            (\A k \in 1 .. Len(a) : StepFit(a, k, sums[k - 1], symlinks)) /\ LinksFit(a, Len(a))
      BY ListedSteps
    <3> QED BY <1>1, <3>1
  <2> QED BY <2>1, <2>2
<1>10. CASE ~x.ok
  <2>1. ~y.ok BY <1>5, <1>6, <1>10, NothingLinked
  <2> HIDE DEF Steps
  <2> QED BY <1>5, <1>7, <1>9, <1>10, <2>1 DEF Right
<1>11. CASE x.ok
  <2>1. Steps BY <1>5, <1>11
  <2>2. Named(a, 1 .. n, S, K)
    <3>1. \A k \in 1 .. Len(a) : EntryFit(a[k], symlinks) BY <1>1, <2>1 DEF StepFit
    <3> QED BY <1>1, <3>1, FitNamed
  <2>3. Distinct(a)
    <3> SUFFICES ASSUME NEW i \in 1 .. n, NEW j \in 1 .. n, NameAt(a, i) = NameAt(a, j), i # j
                 PROVE  FALSE
      BY <1>1 DEF Distinct
    <3>1. i < j => i \in 1 .. j - 1 OBVIOUS
    <3>2. j < i => j \in 1 .. i - 1 OBVIOUS
    <3>3. i < j \/ j < i OBVIOUS
    <3> QED BY <2>1, <3>1, <3>2, <3>3 DEF StepFit, PairFit
  <2>4. AfterSecond(y, a, n)
    <3>1. \A i, j \in 1 .. n : NameAt(a, i) = NameAt(a, j) => i = j BY <1>1, <2>3 DEF Distinct
    <3>2. Passed(x, a, n, sums[n]) BY <1>5, <1>11
    <3>3. AfterSecond(FoldLeft(MakeLink, x, x.links), a, n) BY <1>5, <2>2, <3>1, <3>2, SecondPass
    <3> QED BY <1>6, <3>3
  <2>5. y.ok => y.tree = Intended(a)
    <3> SUFFICES ASSUME y.ok PROVE y.tree = Intended(a) OBVIOUS
    <3>1. TreeFor(y.tree, a, 1 .. n) BY <2>4 DEF AfterSecond
    <3>2. y.tree \in Maps(Seq(S), Nodes(S)) BY <1>8 DEF States
    <3> QED BY <1>1, <2>3, <3>1, <3>2, IntendedTree
  <2>6. y.ok <=> LinksFit(a, n) BY <2>4 DEF AfterSecond
  <2> HIDE DEF Steps
  <2> QED BY <1>7, <1>9, <2>1, <2>5, <2>6 DEF Right
<1> QED BY <1>10, <1>11

(* The entries of a zip in the form of a tar's. *)
LEMMA ZipTyped ==
    ASSUME NEW S, NEW K, NEW e \in EntriesOf(S, K), NEW Z, Z = K \cup {"dir", "link", "file", "fifo"}
    PROVE  ZipEntry(e) \in EntriesOf(S, Z)
<1>1. PICK kind : kind = IF e.kind \in {"dir", "link", "file"} THEN e.kind ELSE "fifo" OBVIOUS
<1>2. PICK size : size = IF e.kind = "file" THEN e.size ELSE 0 OBVIOUS
<1>3. ZipEntry(e) = [e EXCEPT !.kind = kind, !.size = size] BY <1>1, <1>2 DEF ZipEntry, EntriesOf
<1>4. kind \in Z /\ size \in Int BY <1>1, <1>2 DEF EntriesOf
<1> QED BY <1>3, <1>4 DEF EntriesOf

(* For every archive, of any length: extraction accepts it exactly when it is
   well-formed, and then makes the tree it says; a zip likewise, once its
   entries are in the form of a tar's. *)
THEOREM ExtractsExactly ==
    ASSUME NEW S, NEW K, NEW archive \in Seq(EntriesOf(S, K))
    PROVE  AcceptsWellFormed(archive) /\ AllOrNothing(archive)
<1>1. \A symlinks : Right(Unpack(archive, symlinks), archive, symlinks) BY Unpacked
<1>2. PICK Z : Z = K \cup {"dir", "link", "file", "fifo"} OBVIOUS
<1>3. PICK zip : zip = FromZip(archive) OBVIOUS
<1>4. zip \in Seq(EntriesOf(S, Z))
  <2>1. PICK n \in Nat : n = Len(archive) /\ DOMAIN archive = 1 .. n OBVIOUS
  <2>2. zip = [i \in 1 .. n |-> ZipEntry(archive[i])] BY <1>3, <2>1 DEF FromZip
  <2>3. ASSUME NEW i \in 1 .. n PROVE ZipEntry(archive[i]) \in EntriesOf(S, Z)
    <3>1. PICK e \in EntriesOf(S, K) : e = archive[i] BY <2>1
    <3> QED BY <1>2, <3>1, ZipTyped
  <2> QED BY <2>2, <2>3, SeqDef
<1>5. Right(UnpackZip(archive), zip, FALSE) BY <1>3, <1>4, Unpacked DEF UnpackZip
<1>6. AcceptsWellFormed(archive) BY <1>1, <1>3, <1>5 DEF AcceptsWellFormed, Right
<1>7. AllOrNothing(archive)
  <2>1. PICK x : x = Unpack(archive, TRUE) OBVIOUS
  <2>2. x.ok <=> WellFormed(archive, TRUE) BY <1>1, <2>1 DEF Right
  <2> QED BY <2>1, <2>2 DEF AllOrNothing, Extract, Commit, Fits
<1> QED BY <1>6, <1>7
=============================================================================
