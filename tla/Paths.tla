------------------------------- MODULE Paths --------------------------------
(***************************************************************************)
(* How paths are translated between the exec root, the working directory   *)
(* and the remote working directory (internal/pkg/pathtranslator,          *)
(* reproxy/action.go), which directory an include path adds to the remote  *)
(* tree (cppcompile), how clang-cl chooses an SDK version, and how         *)
(* spellings of a directory are made one.                                  *)
(*                                                                         *)
(* A path is the sequence of its elements; an absolute one starts with     *)
(* "/".  The element "..x" stands for a name that starts with two dots.    *)
(***************************************************************************)
EXTENDS Naturals, Sequences, SequencesExt, FiniteSets

Root == "/"
Up == ".."
IsAbs(p) == p # <<>> /\ p[1] = Root

\* filepath.Clean, one element after the other, Join and Rel.
CleanElement(out, e) ==
    IF e \in {"", "."} THEN out
    ELSE IF e # Up \/ out = <<>> THEN Append(out, e)
    ELSE IF Last(out) = Up THEN Append(out, e)
    ELSE IF Last(out) = Root THEN out
    ELSE Front(out)
Clean(p) ==
    LET clean[i \in 0..Len(p)] == IF i = 0 THEN <<>> ELSE CleanElement(clean[i - 1], p[i])
    IN clean[Len(p)]
Join(a, b) == Clean(a \o b)
CommonPrefix(a, b) ==
    LET lens == {n \in 0..Len(a) : n <= Len(b) /\ SubSeq(a, 1, n) = SubSeq(b, 1, n)}
    IN CHOOSE n \in lens : \A k \in lens : k <= n
Rel(base, target) ==
    LET n == CommonPrefix(base, target)
    IN [i \in 1..(Len(base) - n) |-> Up] \o SubSeq(target, n + 1, Len(target))

-----------------------------------------------------------------------------
(* pathtranslator                                                          *)

NoPath == <<"">>    \* the empty string: such paths are dropped from lists
StartsWithDots(p) == p # <<>> /\ p[1] \in {Up, "..x"}

\* Mutant: only paths that are the parent itself count as outside.
OutsideParent(rp) == rp = <<Up>>
Outside(rp) == StartsWithDots(rp)
RelToExecRoot(execRoot, wd, p) ==
    LET abs == IF IsAbs(p) THEN Clean(p) ELSE Clean(execRoot \o wd \o p)
        rp == Rel(execRoot, abs)
    IN IF p = <<>> \/ Outside(rp) THEN NoPath ELSE rp
RelToWorkingDir(execRoot, wd, p) ==
    Rel(Join(execRoot, wd), IF IsAbs(p) THEN Clean(p) ELSE Join(execRoot, p))

\* toRemoteWorkingDir: a canonical directory of the same depth.
Depth(p) == IF p = <<>> THEN 1 ELSE Len(p)    \* a clean path without elements is "."
ToRemoteWorkingDir(wd) ==
    IF wd \in {<<>>, <<".">>} THEN wd
    ELSE [i \in 1..Depth(Clean(wd)) |-> IF i = 1 THEN "set_by_reclient" ELSE "a"]

\* RewriteEnvironmentVariables, for one element of a path list, and
\* cleanIncludePaths, for one -I.
RewriteEnvironmentVariable(execRoot, wd, val) ==
    IF IsAbs(val) /\ RelToExecRoot(execRoot, wd, val) # NoPath
    THEN RelToWorkingDir(execRoot, wd, val) ELSE val
CleanIncludePath(execRoot, wd, dir) ==
    IF IsAbs(dir) THEN Rel(Join(execRoot, wd), Clean(dir)) ELSE dir

-----------------------------------------------------------------------------
(* cppcompile: virtual inputs, empty directories of the remote tree.       *)

\* extractVirtualSubdirectories, of a relative path: the directories that it
\* leaves by "..", and its end.
Leaves(p, i) == p[i] = Up /\ i > 1 /\ p[i - 1] \notin {"", Up}
ExtractVirtualSubdirectories(p) ==
    LET left == {Clean(SubSeq(p, 1, i - 1)) : i \in {j \in 1..Len(p) : Leaves(p, j)}}
    IN IF left = {} \/ Last(p) # Up THEN left \cup {Clean(p)} ELSE left

\* VirtualInputs joins the path to the working directory first, which cleans it.
\* Mutant: an absolute path is made relative to the exec root.
VirtualInputsOfRoot(execRoot, wd, p) ==
    ExtractVirtualSubdirectories(Join(wd, IF IsAbs(p) THEN Rel(execRoot, Clean(p)) ELSE p))
VirtualInputs(execRoot, wd, p) ==
    ExtractVirtualSubdirectories(
        Join(wd, IF IsAbs(p) THEN Rel(Join(execRoot, wd), Clean(p)) ELSE p))

-----------------------------------------------------------------------------
(* cppcompile: the command line given to the dependency scanner.           *)

\* A flag is [key, value, joined], one key for all that are treated alike, an
\* argument is <<key, value>>; <<>> is the empty value.
ToAbsArgs == {"sysroot"}
ToRemoveArgs == {"fconserve-stack"}
ToRemoveXclangFlags == {<<"verify">>}
Empty == <<"", <<>>>>
AppendFlag(args, key, value, joined) ==
    args \o SelectSeq(IF joined THEN <<<<key, value>>>> ELSE <<<<key, <<>>>>, <<"", value>>>>,
                      LAMBDA a : a # Empty)
Absolute(dir, p) == IF IsAbs(p) THEN Clean(p) ELSE Join(dir, p)

Removed(flag) == \/ flag.key = "Xclang" /\ flag.value \in ToRemoveXclangFlags
                 \/ flag.key \in ToRemoveArgs
\* Mutant: the value is left as it is.
ValueAsGiven(dir, flag) == flag.value
ValueOf(dir, flag) == IF flag.key \in ToAbsArgs THEN Absolute(dir, flag.value) ELSE flag.value
\* BuildCommandLine; c is p.Flags.  Of several targets, only the first is scanned.
BuildCommandLine(execRoot, wd, c) ==
    LET dir == Join(execRoot, wd)
        addFlag(args, f) ==
            IF Removed(f) THEN args ELSE AppendFlag(args, f.key, ValueOf(dir, f), f.joined)
        addOutput(args, o) == IF o = c.dfile THEN args ELSE AppendFlag(args, "o", o, FALSE)
        exe == IF IsAbs(c.exe) THEN c.exe ELSE Join(dir, c.exe)
        flags == FoldLeft(addFlag, <<<<"", exe>>>>, c.flags)
        target == IF c.targets = <<>> THEN <<>>
                  ELSE IF IsAbs(c.targets[1]) THEN c.targets[1] ELSE Join(dir, c.targets[1])
    IN Append(FoldLeft(addOutput, Append(flags, <<"Qunused", <<>>>>), c.outs), <<"", target>>)

\* saveDeps: what the scanner found, relative to the exec root, made absolute
\* again for the deps cache.
SaveDeps(execRoot, deps) == {Absolute(execRoot, d) : d \in deps}
ListRelToExecRoot(execRoot, wd, paths) ==
    {RelToExecRoot(execRoot, wd, p) : p \in paths} \ {NoPath}

-----------------------------------------------------------------------------
(* clang-cl: the greatest version among the names in a directory.          *)

\* version.gt on <<major, minor, micro, build>>.
Gt(a, b) == \E k \in 1..Len(a) : a[k] > b[k] /\ \A j \in 1..(k - 1) : a[j] = b[j]
\* getMaxVersionFromPath: entries are versions, or <<>> for what is not one.
Zero == <<0, 0, 0, 0>>
GetMaxVersionFromPath(entries) ==
    LET max[i \in 0..Len(entries)] ==
          IF i = 0 THEN Zero
          ELSE IF entries[i] # <<>> /\ Gt(entries[i], max[i - 1]) THEN entries[i]
          ELSE max[i - 1]
    IN max[Len(entries)]

\* getMaxVersionDir, winSDKDir and vcToolchainDir, in a tree that gives the
\* versions found in each directory.
GetMaxVersionDir(tree, path) ==
    IF path = NoPath \/ path \notin DOMAIN tree THEN NoPath
    ELSE LET max == GetMaxVersionFromPath(tree[path])
         IN IF max = Zero THEN NoPath ELSE Append(path, max)
WinSDKDir(tree) ==
    LET kit == GetMaxVersionDir(tree, <<"Windows Kits">>)
    IN IF kit = NoPath THEN NoPath ELSE GetMaxVersionDir(tree, Append(kit, "Include"))
VcToolchainDir(tree) == GetMaxVersionDir(tree, <<"VC", "Tools", "MSVC">>)
\* AppendVirtualInput of a path of -winsysroot: the SDK and the toolchain found
\* in it, and not the path itself.
AppendVirtualInput(tree) == {WinSDKDir(tree), VcToolchainDir(tree)} \ {NoPath}

-----------------------------------------------------------------------------
(* The spelling of inputs on file systems that ignore case.                *)

Lower(p) == [i \in 1..Len(p) |-> IF p[i] = "A" THEN "a" ELSE p[i]]
Missing == <<"missing">>

\* dirEntCache.get: the names in a directory, as they are stored on the disk.
Entries(disk, dir) == {Last(d) : d \in {e \in disk : Len(e) = Len(dir) + 1 /\ Lower(Front(e)) = Lower(dir)}}

\* pathNormalizerNative: one element after the other, remembering in m what is
\* stored for the spellings met.  acc.pre is the path so far as it is given.
\* Mutant: a name that differs from the one on the disk is kept as it is given.
GivenName(disk, dir, name) == name
StoredName(disk, dir, name) ==
    CHOOSE e \in Entries(disk, dir) : Lower(<<e>>) = Lower(<<name>>)
NormalizeElement(disk, acc, name) ==
    LET pre == Append(acc.pre, name)
        listed == {<<Append(acc.pre, e), e>> : e \in Entries(disk, acc.pre)}
        known == IF \E x \in acc.m : x[1] = pre THEN acc.m ELSE acc.m \cup listed
        found == {x[2] : x \in {y \in known : y[1] = pre}}
        exists == Lower(pre) \in {Lower(d) : d \in disk}
        stored == StoredName(disk, acc.pre, name)
    IN CASE acc.out = Missing -> acc
         [] acc.out # Missing /\ found # {} ->
              [m |-> known, pre |-> pre, out |-> Append(acc.out, CHOOSE e \in found : TRUE)]
         [] acc.out # Missing /\ found = {} /\ exists ->
              [m |-> known \cup {<<pre, stored>>}, pre |-> pre, out |-> Append(acc.out, stored)]
         [] OTHER -> [m |-> known, pre |-> pre, out |-> Missing]
NormalizeNative(disk, paths) ==
    FoldLeft(LAMBDA acc, p :
        LET r == FoldLeft(LAMBDA a, name : NormalizeElement(disk, a, name),
                          [m |-> acc.m, pre |-> <<>>, out |-> <<>>], p)
        IN [m |-> r.m, out |-> Append(acc.out, r.out)],
        [m |-> {}, out |-> <<>>], paths).out

\* pathNormalizerCross: the first spelling of a directory is used for all.
NormalizeCross(disk, paths) ==
    LET first(i) == Head(SelectSeq(SubSeq(paths, 1, i),
                            LAMBDA q : q \in disk /\ Lower(Front(q)) = Lower(Front(paths[i]))))
    IN [i \in 1..Len(paths) |->
          IF paths[i] \notin disk THEN Missing
          ELSE Append(Front(first(i)), Last(paths[i]))]

-----------------------------------------------------------------------------

\* A path that is translated still names the same file: one under the exec root
\* is found again from there and from the working directory, one outside is
\* dropped, and an environment variable and an include path lead there from the
\* working directory.  A name in the exec root that starts with two dots is
\* taken for one outside.
Meant(execRoot, wd, p) == IF IsAbs(p) THEN Clean(p) ELSE Clean(execRoot \o wd \o p)
TranslationKeepsFile(execRoot, wd, p) ==
    LET meant == Meant(execRoot, wd, p)
        rp == RelToExecRoot(execRoot, wd, p)
        dotted == Len(meant) > Len(execRoot) /\ meant[Len(execRoot) + 1] = "..x"
    IN /\ p # <<>> => (rp = NoPath <=> ~IsPrefix(execRoot, meant) \/ dotted)
       /\ rp # NoPath => /\ Clean(execRoot \o rp) = meant
                         /\ Clean(execRoot \o wd \o RelToWorkingDir(execRoot, wd, rp)) = meant
       /\ Meant(execRoot, wd, RewriteEnvironmentVariable(execRoot, wd, p)) = meant
       /\ Meant(execRoot, wd, CleanIncludePath(execRoot, wd, p)) = meant

\* A path that climbs out of the working directory leads to the same file from
\* the canonical working directory, and the virtual input of an include flag is
\* the directory that it names, and no other: directories that the path enters
\* and leaves again by ".." are not sent, because the path is cleaned first.
PathsKeepTheirFile(execRoot, wd, p) ==
    LET meant == Meant(execRoot, wd, p)
        climbs == \A i \in 1..Len(Clean(wd)) : i <= Len(Clean(p)) /\ Clean(p)[i] = Up
    IN /\ TranslationKeepsFile(execRoot, wd, p)
       /\ p # <<>> => {Clean(execRoot \o v) : v \in VirtualInputs(execRoot, wd, p)} = {meant}
       /\ (~IsAbs(p) /\ climbs) => Clean(execRoot \o ToRemoteWorkingDir(wd) \o p) = meant

\* getMaxVersionFromPath finds a version that none in the directory exceeds.
MaxVersionFound(entries) ==
    LET max == GetMaxVersionFromPath(entries)
    IN /\ max # Zero => Contains(entries, max)
       /\ \A i \in 1..Len(entries) : entries[i] # <<>> => ~Gt(entries[i], max)

\* The files of an action go to the remote tree under one spelling, however the
\* dependency scanner and the flags spell them and in whatever order: the one
\* on the disk, or, across operating systems, one for every directory.
OneSpelling(disk, paths) ==
    LET native == NormalizeNative(disk, paths)
        cross == NormalizeCross(disk, paths)
        meant(p) == {d \in disk : Lower(d) = Lower(p)}
    IN /\ \A i \in 1..Len(paths) :
            IF meant(paths[i]) = {} THEN native[i] = Missing ELSE native[i] \in meant(paths[i])
       /\ \A i, j \in 1..Len(paths) :
            (/\ paths[i] \in disk /\ paths[j] \in disk
             /\ Lower(Front(paths[i])) = Lower(Front(paths[j])))
            => Front(cross[i]) = Front(cross[j])

\* The directories of the greatest version in one directory, in some of them.
Best(tree, dir) ==
    {Append(dir, v) : v \in {w \in ToSet(tree[dir]) \ {<<>>, Zero} :
                                \A x \in ToSet(tree[dir]) \ {<<>>} : ~Gt(x, w)}}
BestIn(tree, dirs) == UNION {Best(tree, d) : d \in dirs \cap DOMAIN tree}

\* -winsysroot: the directories sent are those of the greatest kit's greatest
\* SDK and of the greatest toolchain, as far as they are there.
SDKFound(tree) ==
    AppendVirtualInput(tree) =
         BestIn(tree, {Append(k, "Include") : k \in BestIn(tree, {<<"Windows Kits">>})})
         \cup BestIn(tree, {<<"VC", "Tools", "MSVC">>})

\* The scanner is given the compilation that the action is: the first target
\* wherever the scanner runs, every flag that it supports naming the file that
\* it names in the working directory (and, of those that the scanner resolves
\* itself, naming it wherever the scanner runs), and the outputs without the
\* dependency file.
ScanCommandKeepsMeaning(execRoot, wd, c) ==
    LET dir == Join(execRoot, wd)
        args == BuildCommandLine(execRoot, wd, c)
        kept == SelectSeq(c.flags, LAMBDA f : ~Removed(f) /\ f.value # <<>>)
        values == SelectSeq(SubSeq(args, 2, Len(args) - 1), LAMBDA a : a[2] # <<>>)
        outs == SelectSeq(c.outs, LAMBDA o : o # c.dfile)
    IN (\A i \in 1..Len(c.flags) : c.flags[i].key \in ToAbsArgs => c.flags[i].value # <<>>) =>
       /\ c.targets # <<>> => Last(args) = <<"", Absolute(dir, c.targets[1])>>
       /\ Len(values) = Len(kept) + Len(outs)
       /\ \A i \in 1..Len(kept) :
            /\ Absolute(dir, values[i][2]) = Absolute(dir, kept[i].value)
            /\ kept[i].key \in ToAbsArgs => IsAbs(values[i][2])
       /\ \A i \in 1..Len(outs) : values[Len(kept) + i][2] = outs[i]

\* The files saved in the deps cache are those of the scan under the exec root.
SavedDepsAreScanned(execRoot, wd, scanned) ==
    SaveDeps(execRoot, ListRelToExecRoot(execRoot, wd, scanned))
      = {f \in {Absolute(Join(execRoot, wd), p) : p \in scanned} :
            IsPrefix(execRoot, f) /\ ~(Len(f) > Len(execRoot) /\ f[Len(execRoot) + 1] = "..x")}
=============================================================================
