----------------------------- MODULE Algorithms -----------------------------
(***************************************************************************)
(* The pure algorithms that are free of recursion over files: the verdict  *)
(* of compare mode, what happens to the files of an action, the response   *)
(* to rewrapper and the translation of paths.  Each job lets an input grow *)
(* by one item at a time, so that the states of a job are all its inputs,  *)
(* and its properties compare the algorithm with what it is for.  What the *)
(* inputs are made of are constants; the assumptions say which of them the *)
(* program can meet.                                                       *)
(***************************************************************************)
EXTENDS Integers, Verdict
O == INSTANCE Reports
P == INSTANCE ActionFiles    \* which extends Paths

-----------------------------------------------------------------------------
(* What the algorithms are given                                           *)

\* A rerun has its side and finitely many outputs; a rule is one of three kinds.
IsRerun(r) == r.remote \in BOOLEAN /\ IsFiniteSet(DOMAIN r.dgs)
Rule == [kind : {"path", "bad", "unknown"}, matches : SUBSET STRING, inverted : BOOLEAN]

\* The fields of a response, of which the beginning of each may be gone.
Field == [pre : Nat, tail : Nat]
Response == [stderr : Field, stdout : Field, msg : Field, result : BOOLEAN, rest : Nat]
Whole(r) == r.stderr.pre = 0 /\ r.stdout.pre = 0 /\ r.msg.pre = 0

\* The elements of a path are strings; those that the model names are listed
\* because the provers do not know that they are.
Element == STRING \cup {P!Up, P!Root, ".", "set_by_reclient", "a"}
Path == Seq(Element)
Dots == {"", "."}
Special == Dots \cup {P!Up, P!Root}
\* Absolute clean paths, relative ones, those below where they start, and what
\* reproxy may be given: the root is at the beginning of a path only.
Rooted(q) == q \in Path /\ Len(q) >= 1 /\ q[1] = P!Root /\ \A i \in 2..Len(q) : q[i] \notin Special
Relative(q) == q \in Path /\ \A i \in 1..Len(q) : q[i] # P!Root
Plain(w) == w \in Path /\ \A i \in 1..Len(w) : w[i] \notin Special
Given(p) == p \in Path /\ \A i \in 2..Len(p) : p[i] # P!Root
\* A file of the exec root: its name there, which does not start with two dots.
Inside(p) == Plain(p) /\ p # <<>> /\ p[1] # "..x"

\* The versions that the names in a directory stand for, and where those of the
\* Windows SDK and of the toolchain are looked for.
Version == [1..4 -> Nat]
Listing == Seq(Version \cup {<<>>})
SDKDir(d) == \/ d = <<"Windows Kits">>
             \/ d = <<"VC", "Tools", "MSVC">>
             \/ d = <<"Windows Kits", d[2], "Include">> /\ d[2] \in Version

\* Files that were there before the action carry an earlier time.
Earlier(disk) == \A p \in DOMAIN disk : disk[p].t # P!New
Option == [download : BOOLEAN, preserve : BOOLEAN, atomic : BOOLEAN,
           filter : [sign : {"+", "-"}, re : {"o", "none", "bad"}]]
\* The outputs of an action, below its working directory, each asked for by its
\* name or with its directory; no directory is in another one.
IsDownload(w) ==
    /\ Earlier(w.disk) /\ Plain(w.wd)
    /\ \A q \in DOMAIN w.outs \cup w.dirs : Plain(q)
    /\ \A q \in DOMAIN w.outs : q \in w.files \/ \E d \in w.dirs : P!Under(q, d)
    /\ \A c, d \in w.dirs : ~P!Under(c, d)
\* An action that has run, and has changed nothing but its outputs, each of
\* which it has in one spelling.
HasRun(w) ==
    /\ Relative(w.wd) /\ \A f \in w.files \cup w.dirs : Relative(f) /\ f # <<>>
    /\ \A c, d \in w.dirs : P!At(w.wd, c) = P!At(w.wd, d) => c = d
    /\ \A i \in w.inputs : Inside(i)
    /\ \A p \in DOMAIN w.disk \ P!FileList(w.disk, w.wd, w.files, w.dirs) :
          p \in DOMAIN w.ran /\ w.ran[p] = w.disk[p]
    /\ w.deps \in w.files => P!At(w.wd, w.deps) = w.deps
\* A virtual input is a directory, or has contents or their digest.
IsVirtual(v) == /\ Plain(v.path) /\ v.dir \in BOOLEAN
                /\ v.dir = FALSE => v.contents # "" \/ v.digest # ""

CONSTANTS Reruns, RuleLists,             \* compare mode
          Responses, Limits, NoteLengths,   \* the response, its limit, the length of the note
          Downloads, Reran,               \* actions with outputs, actions to be rerun
          Places, Virtuals,              \* what is on disk, and what is to be there
          OutputNames,                   \* names of outputs
          ExecRoot, WorkingDirs, PathStarts, Elements,     \* paths
          Versions, SDKTrees,            \* the names in a directory, the SDK directories
          Bound, MaxRuled                \* how far the input of each job grows
ASSUME CompareAssumption ==
    (\A r \in Reruns : IsRerun(r)) /\ RuleLists \subseteq Seq(Rule)
ASSUME ResponseAssumption ==
    /\ \A r \in Responses : r \in Response /\ Whole(r)
    /\ Limits \subseteq Nat /\ NoteLengths \subseteq Nat
ASSUME FilesAssumption ==
    /\ \A w \in Downloads : IsDownload(w)
    /\ \A w \in Reran : HasRun(w)
    /\ \A v \in Virtuals : IsVirtual(v)
    /\ \A n \in OutputNames : Relative(n) /\ Plain(P!Clean(n))
ASSUME PathsAssumption ==
    /\ Rooted(ExecRoot) /\ \A wd \in WorkingDirs : Plain(wd)
    /\ Elements \subseteq Element \ {P!Root}
    /\ \A p \in PathStarts : Given(p)
ASSUME VersionsAssumption ==
    /\ Versions \subseteq Version \cup {<<>>}
    /\ \A tree \in SDKTrees : \A d \in DOMAIN tree : SDKDir(d) /\ tree[d] \in Listing

-----------------------------------------------------------------------------
(* Jobs                                                                    *)

\* input is what grows, with is what it is read together with.
VARIABLES job, with, input
vars == <<job, with, input>>

Start(j, w, i) == job = j /\ with = w /\ input = i
Grow(item, bound) == Len(input) < bound /\ input' = Append(input, item)
GrowIn(j, items) ==
    /\ job = j /\ \E item \in items : Grow(item, Bound[j])
    /\ UNCHANGED <<job, with>>
GrowReruns == GrowIn("reruns", Reruns)
GrowPath == GrowIn("path", Elements)
GrowVersions == GrowIn("versions", Versions)
GrowVirtual == GrowIn("virtual", Virtuals)
GrowNames == GrowIn("names", OutputNames)

StartJob ==
    \/ \E j \in {"names", "reruns", "versions"} : Start(j, "", <<>>)
    \/ \E w \in Downloads : Start("outputs", w, <<>>)
    \/ \E w \in Reran : Start("clean", w, <<>>)
    \/ \E w \in Places : Start("virtual", w, <<>>)
    \/ \E w \in Responses : Start("response", w, <<>>)
    \/ \E p \in PathStarts : Start("path", "", p)
    \/ \E t \in SDKTrees : Start("sdk", t, <<>>)
GrowJob == GrowReruns \/ GrowPath \/ GrowVersions \/ GrowVirtual \/ GrowNames
JobSpec == StartJob /\ [][GrowJob]_vars

-----------------------------------------------------------------------------
(* Properties                                                              *)

NumLocal == Cardinality(Side(input, FALSE))
NumRemote == Cardinality(Side(input, TRUE))
\* compareAction's verdict is what the reruns say, also if the remote action
\* was to be rerun and no rerun came back; the rules on mismatches drop what
\* they name and nothing else.
VerdictSound ==
    job = "reruns" =>
        /\ \A asked \in {NumRemote, IF NumRemote = 0 THEN 1 ELSE NumRemote} :
              VerdictFollows(input, NumLocal, asked)
        /\ Len(input) <= MaxRuled => \A rules \in RuleLists :
              IgnoredByRuleOnly(input, NumLocal, NumRemote, rules)

\* Every output is named once.  The outputs of an action reach the disk with
\* the times they should have, a rerun in compare mode starts from clean
\* inputs, virtual inputs are there for a local run, each path given once, and
\* the response fits.
InputSet == {input[i] : i \in 1..Len(input)}
FilesDelivered ==
    /\ job = "outputs" => \A opt \in Option :
          P!OutputsDelivered(with.disk, with.wd, with.outs, with.files, with.dirs, opt)
    /\ job = "clean" => \A tmpHere \in BOOLEAN :
          P!RerunsStartClean(ExecRoot, with.wd, with.disk, with.ran, with.inputs, with.files,
                             with.dirs, with.deps, tmpHere)
    /\ job = "response" => \A max \in Limits, prefix \in NoteLengths : O!ResponseFits(with, max, prefix)
    /\ job = "names" => \A wd \in WorkingDirs : P!OutputsNamedOnce(ExecRoot, wd, input)
    /\ (job = "virtual" /\ \A u, v \in InputSet : u.path = v.path => u = v) =>
          P!VirtualInputsThere(with.disk, with.dirs, InputSet)

\* Paths still name their files when they are translated, an include path adds
\* the directory that it names to the remote tree, the files that the
\* dependency scanner finds are saved under their names, and clang-cl takes the
\* greatest version.
PathsRight ==
    /\ job = "path" =>
          /\ \A wd \in WorkingDirs : P!PathsKeepTheirFile(ExecRoot, wd, input)
          /\ input # <<>> => \A wd \in WorkingDirs :
                P!SavedDepsAreScanned(ExecRoot, wd, {<<"a">>, input})
    /\ job = "sdk" => P!SDKFound(with)
    /\ job = "versions" => P!MaxVersionFound(input)

\* Outputs that are unchanged stay, in output directories and with atomic
\* downloads too.
UnchangedOutputsStay ==
    job = "outputs" => \A opt \in Option :
        P!UnchangedOutputsStay(with.disk, with.wd, with.outs, with.files, with.dirs, opt)
=============================================================================
