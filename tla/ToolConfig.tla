----------------------------- MODULE ToolConfig -----------------------------
(***************************************************************************)
(* What setup makes of the manifest and the lock before it touches the     *)
(* disk (src/internal/config/config.go): both are validated, compared, and *)
(* turned into a plan.  Versions are sequences of characters; the other    *)
(* strings are values of small sets, "" among them; paths as in ToolPaths. *)
(***************************************************************************)
EXTENDS ToolPaths, Integers, FiniteSets

CONSTANTS
    DigitOf,        \* the digits, as a function to their values
    Letters,
    CalVers,        \* bundles of the form YYYY.MM.DD.N
    MaxArtifactSize

Digits == DOMAIN DigitOf

ASSUME CharactersAssumption ==
    /\ {".", "+", "-", "v"} \cap Digits = {} /\ {".", "+", "-"} \cap Letters = {}
    /\ DigitOf \in [Digits -> 0 .. 9]
----------------------------------------------------------------------------
(* Versions. *)

AddTo(parts, c, sep) ==
    IF c = sep THEN Append(parts, <<>>) ELSE [parts EXCEPT ![Len(parts)] = Append(@, c)]
Split(s, sep) == FoldLeft(LAMBDA parts, c : AddTo(parts, c, sep), << <<>> >>, s)
TrimV(v) == IF v # <<>> /\ v[1] = "v" THEN Tail(v) ELSE v

\* validNumericIdentifier, validIdentifierList
NumericOK(id) == id # <<>> /\ Range(id) \subseteq Digits /\ (Len(id) = 1 \/ id[1] # "0")
IdentifiersOK(list, pre) ==
    /\ list # <<>>
    /\ \A id \in Range(Split(list, ".")) :
          /\ id # <<>> /\ Range(id) \subseteq Digits \cup Letters \cup {"-"}
          /\ pre /\ Range(id) \subseteq Digits => NumericOK(id)

\* Mutant: the pre-release is cut off before the build.
ValidSemVerPreFirst(v) ==
    LET pre == Split(v, "-")
        build == Split(Last(pre), "+")
        core == Split(Split(pre[1], "+")[1], ".")
    IN  /\ Len(build) <= 2 /\ (Len(build) = 2 => IdentifiersOK(build[2], FALSE))
        /\ Len(pre) <= 2 /\ (Len(pre) = 2 => IdentifiersOK(build[1], TRUE))
        /\ Len(core) = 3 /\ \A part \in Range(core) : NumericOK(part)

\* validSemVer
ValidSemVer(v) ==
    LET build == Split(v, "+")
        pre == Split(build[1], "-")
        core == Split(pre[1], ".")
    IN  /\ Len(build) <= 2 /\ (Len(build) = 2 => IdentifiersOK(build[2], FALSE))
        /\ Len(pre) <= 2 /\ (Len(pre) = 2 => IdentifiersOK(pre[2], TRUE))
        /\ Len(core) = 3 /\ \A part \in Range(core) : NumericOK(part)

\* parseVersion splits at the dots before it drops a suffix.
Cut(part) ==
    LET at == {i \in DOMAIN part : part[i] \in {"-", "+"}}
    IN  IF at = {} THEN part ELSE SubSeq(part, 1, (CHOOSE i \in at : \A j \in at : i <= j) - 1)
Number(digits) == FoldLeft(LAMBDA n, c : 10 * n + DigitOf[c], 0, digits)
Parsable(v) ==
    LET parts == Split(v, ".")
    IN  Len(parts) = 3 /\ \A i \in 1 .. 3 : Cut(parts[i]) # <<>> /\ Range(Cut(parts[i])) \subseteq Digits
ParseVersion(v) == [i \in 1 .. 3 |-> Number(Cut(Split(v, ".")[i]))]

\* compareVersion and engineCheck.matches: the sign of the first difference.
Compare(a, b) ==
    IF a[1] # b[1] THEN a[1] - b[1] ELSE IF a[2] # b[2] THEN a[2] - b[2] ELSE a[3] - b[3]
EngineMatches(op, n) ==
    CASE op = ">=" -> n >= 0 [] op = "<=" -> n <= 0 [] op = ">" -> n > 0 [] op = "<" -> n < 0 [] op = "=" -> n = 0

\* A range is a sequence of comparators [op, version], <<>> when there is none.
Operators == {">=", "<=", ">", "<", "="}
RangeOK(engine) == \A i \in DOMAIN engine : engine[i].op \in Operators /\ Parsable(TrimV(engine[i].version))
Satisfies(version, engine) ==
    \A i \in DOMAIN engine :
        EngineMatches(engine[i].op, Compare(ParseVersion(version), ParseVersion(TrimV(engine[i].version))))
----------------------------------------------------------------------------
(* Validation. *)

\* validateUpstreamVersion
UpstreamOK(name, v) ==
    /\ v # <<>> /\ Range(v) \subseteq Digits \cup Letters \cup {"v", ".", "_", "+", "-"}
    /\ v[1] \in Digits \cup Letters \cup {"v"}
    /\ ~\E i \in 1 .. Len(v) - 1 : v[i] = "." /\ v[i + 1] = "."
    /\ name \in {"gopls", "node"} => v[1] = "v" /\ ValidSemVer(Tail(v))
    /\ name \in {"typescript", "typescript-language-server"} => ValidSemVer(v)

Identified(c) ==
    /\ c.name # "" /\ c.kind # "" /\ c.source # "" /\ UpstreamOK(c.name, c.version)
    /\ RangeOK(c.runtime)
NamesOf(components) == [i \in DOMAIN components |-> components[i].name]
PathsOf(install) == [i \in DOMAIN install |-> install[i].path]

BundleOK(m, schema) ==
    /\ m.schema = schema /\ ValidSemVer(m.cli) /\ m.bundle \in CalVers
    /\ m.target = "darwin/arm64" /\ m.components # <<>>

DesiredOK(m) ==
    /\ BundleOK(m, "desired")
    /\ m.policy # <<>> => Parsable(TrimV(m.policy))
    /\ \A c \in Range(m.components) : Identified(c)
    /\ IsInjective(NamesOf(m.components))

LockedOK(c) ==
    /\ Identified(c) /\ c.target = "darwin/arm64"
    /\ RepoPath(c.artifact.path) /\ c.artifact.size \in 1 .. MaxArtifactSize
    /\ c.artifact.sha = "sha" /\ c.artifact.url # "" /\ c.artifact.at = "time"
    /\ RepoPath(c.license) /\ (c.notice # <<>> => RepoPath(c.notice))
    /\ c.builder # ""
    /\ c.install # <<>> /\ IsInjective(PathsOf(c.install))
    /\ \A e \in Range(c.install) : RepoPath(e.path) /\ e.mode \in {"file", "executable", "directory"}
    /\ RepoPath(c.probe)

\* The first component that is a node runtime, without its "v".
IsNode(c) == c.name = "node" \/ c.kind = "node-runtime"
NodeVersion(components) ==
    LET at == {i \in DOMAIN components : IsNode(components[i])}
    IN  IF at = {} THEN <<>> ELSE TrimV(components[CHOOSE i \in at : \A j \in at : i <= j].version)

\* validateRuntimeCompatibility
Compatible(components) ==
    LET node == NodeVersion(components)
    IN  \A c \in Range(components) : c.runtime # <<>> => Parsable(node) /\ Satisfies(node, c.runtime)

LockOK(l) ==
    /\ BundleOK(l, "lock")
    /\ \A c \in Range(l.components) : LockedOK(c)
    /\ IsInjective(NamesOf(l.components))
    /\ Compatible(l.components)

\* DesiredManifest.ValidateLock: every component that is desired takes its own
\* out of the lock's, and none may be left over.
Identity(c) == <<c.kind, c.source, c.version, c.revision, c.runtime>>
ByName(components) == [n \in {c.name : c \in Range(components)} |->
    Identity(components[CHOOSE i \in DOMAIN components : components[i].name = n])]
TakenOut(x, name) == [x EXCEPT !.left = [n \in DOMAIN @ \ {name} |-> @[n]]]
\* Mutant: a desired component that the lock does not have is passed over.
TakeOutLoosely(x, c) ==
    IF x.ok /\ (c.name \notin DOMAIN x.left \/ x.left[c.name] = Identity(c))
    THEN TakenOut(x, c.name) ELSE [x EXCEPT !.ok = FALSE]
TakeOut(x, c) ==
    IF x.ok /\ c.name \in DOMAIN x.left /\ x.left[c.name] = Identity(c)
    THEN TakenOut(x, c.name) ELSE [x EXCEPT !.ok = FALSE]
LockMatches(m, l) ==
    /\ m.cli = l.cli /\ m.bundle = l.bundle /\ m.target = l.target
    /\ m.policy # <<>> => /\ NodeVersion(l.components) # <<>>
                          /\ TrimV(m.policy) = NodeVersion(l.components)
    /\ LET x == FoldLeft(TakeOut, [ok |-> TRUE, left |-> ByName(l.components)], m.components)
       IN  x.ok /\ DOMAIN x.left = {}

\* BuildPlan
Planned(m, l) == DesiredOK(m) /\ LockOK(l) /\ LockMatches(m, l)
----------------------------------------------------------------------------
(* What they are to mean. *)

FirstOf(s, c) == CHOOSE i \in 1 .. Len(s) + 1 : (i > Len(s) \/ s[i] = c) /\ \A j \in 1 .. i - 1 : s[j] # c
Before(s, c) == SubSeq(s, 1, FirstOf(s, c) - 1)
After(s, c) == SubSeq(s, FirstOf(s, c) + 1, Len(s))
Core(v) == Before(Before(v, "+"), "-")
Pre(v) == After(Before(v, "+"), "-")
Build(v) == After(v, "+")

\* Semantic Versioning 2.0.0: the first "+" begins the build, the first "-"
\* before it the pre-release.
SemVer(v) ==
    /\ Len(Split(Core(v), ".")) = 3 /\ \A part \in Range(Split(Core(v), ".")) : NumericOK(part)
    /\ "-" \in Range(Before(v, "+")) => IdentifiersOK(Pre(v), TRUE)
    /\ "+" \in Range(v) => IdentifiersOK(Build(v), FALSE)

\* What is accepted as a version is one, and every version without a hyphen
\* inside its pre-release is accepted; the reader of node ranges understands
\* every accepted version whose suffix has no dot.
VersionsRead(v) ==
    /\ ValidSemVer(v) => SemVer(v)
    /\ SemVer(v) /\ "-" \notin Range(Pre(v)) => ValidSemVer(v)
    /\ ValidSemVer(v) /\ "." \notin Range(Pre(v) \o Build(v)) => Parsable(v)

OneNode(components) ==
    \A i, j \in DOMAIN components : IsNode(components[i]) /\ IsNode(components[j]) => i = j

\* A plan is made exactly when both files are valid, the lock has the desired
\* components and no others, and the node it locks is the one the policy names;
\* then that node satisfies the ranges of all components.  Which node that is may
\* be told from the manifest, unless it has several.
PlanExact(m, l) ==
    /\ Planned(m, l) <=>
          /\ DesiredOK(m) /\ LockOK(l)
          /\ <<m.cli, m.bundle, m.target>> = <<l.cli, l.bundle, l.target>>
          /\ {<<c.name, Identity(c)>> : c \in Range(m.components)} = {<<c.name, Identity(c)>> : c \in Range(l.components)}
          /\ m.policy # <<>> => TrimV(m.policy) = NodeVersion(l.components)
    /\ Planned(m, l) =>
          /\ \A c \in Range(m.components) : c.runtime # <<>> => Satisfies(NodeVersion(l.components), c.runtime)
          /\ OneNode(m.components) => NodeVersion(m.components) = NodeVersion(l.components)
=============================================================================
