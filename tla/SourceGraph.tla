---------------------------- MODULE SourceGraph -----------------------------
(***************************************************************************)
(* Inputs that are found by following files from one to the next: the      *)
(* imports and projects of TypeScript (action/typescript), and the         *)
(* -include lines of the flag files of r8 (action/r8), and the lists of    *)
(* files kept beside the tools of a toolchain (toolchain/inputfiles.go).   *)
(*                                                                         *)
(* tree is a function from the paths that exist to their contents:         *)
(*   [kind |-> "ts", imports |-> seq of seqs of candidate paths]           *)
(*   [kind |-> "config", extends, files, include, references]              *)
(* with None for a section that is not there.                              *)
(***************************************************************************)
EXTENDS Naturals, Sequences, SequencesExt, FiniteSets

None == <<"none">>
Error == "error"
Failed == <<Error>>                  \* instead of a list of paths
NoConfig == [kind |-> Error]         \* instead of a configuration

-----------------------------------------------------------------------------
(* tsfile_parser.go, tsconfig_parser.go                                    *)

\* Tsfile.Inputs: an import without extension is searched under a list of
\* suffixes, and the first file that can be read is taken.
Found(tree, cands) == \E k \in 1..Len(cands) : cands[k] \in DOMAIN tree
Resolve(tree, cands) ==
    cands[CHOOSE k \in 1..Len(cands) :
            cands[k] \in DOMAIN tree /\ \A j \in 1..(k - 1) : cands[j] \notin DOMAIN tree]
TsfileInputs(tree, f) ==
    IF \A i \in 1..Len(f.imports) : Found(tree, f.imports[i])
    THEN [i \in 1..Len(f.imports) |-> Resolve(tree, f.imports[i])]
    ELSE Failed

\* parseTsconfig with extend: a section that is missing is inherited, and
\* without files and directories everything under the directory is included.
All == <<"all">>
Inherit(mine, parents) == IF mine = None THEN parents ELSE mine
Default(c) ==
    [c EXCEPT !.include = IF @ \in {None, <<>>} /\ c.files \in {None, <<>>} THEN All ELSE @]
RECURSIVE ParseTsconfig(_, _)
ParseTsconfig(tree, path) ==
    IF path \notin DOMAIN tree THEN NoConfig
    ELSE LET c == tree[path] IN
         IF c.extends = "" THEN Default(c)
         ELSE LET parent == ParseTsconfig(tree, c.extends) IN
              IF parent = NoConfig THEN NoConfig
              ELSE Default([c EXCEPT !.files = Inherit(@, parent.files),
                                     !.include = Inherit(@, parent.include)])

\* Tsconfig.Inputs: files, what is included, references.  The patterns of
\* exclude are joined to the path of the file tsconfig.json itself, under which
\* there is nothing: they exclude nothing.
SourcesOf(tree) == {p \in DOMAIN tree : tree[p].kind = "ts"}
Section(s) == IF s = None THEN <<>> ELSE s
TsconfigInputs(tree, c) ==
    LET files == Section(c.files)
        included == IF c.include = All THEN SetToSeq(SourcesOf(tree)) ELSE Section(c.include)
        refs == Section(c.references)
        next == files \o included \o refs
    IN IF \A i \in 1..Len(next) :
            IF i <= Len(files \o included) THEN next[i] \in DOMAIN tree
            ELSE ParseTsconfig(tree, next[i]) # NoConfig
       THEN next ELSE Failed

DirectInputs(tree, path) ==
    IF tree[path].kind = "ts" THEN TsfileInputs(tree, tree[path])
    ELSE LET c == ParseTsconfig(tree, path) IN IF c = NoConfig THEN Failed ELSE TsconfigInputs(tree, c)

\* TsinputProcessor.Inputs: rounds of a breadth-first search.  seen is
\* t.Paths, todo the Tsinputs of this round, next those of the next one.
\* Mutant: the dependencies of a file replace those found before it.
CollectLast(next, direct) == direct
Collect(next, direct) == next \o direct
RECURSIVE Search(_, _, _, _)
Search(tree, seen, todo, next) ==
    IF todo = <<>> THEN (IF next = <<>> THEN seen ELSE Search(tree, seen, next, <<>>))
    ELSE LET path == Head(todo) IN
         IF path \in seen THEN Search(tree, seen, Tail(todo), next)
         ELSE LET direct == DirectInputs(tree, path) IN
              IF direct = Failed THEN {Error}
              ELSE Search(tree, seen \cup {path}, Tail(todo), Collect(next, direct))
ProcessInputs(tree, path) ==
    IF path \notin DOMAIN tree THEN {Error} ELSE Search(tree, {}, <<path>>, <<>>)

-----------------------------------------------------------------------------
(* r8/preprocessor.go                                                      *)

\* includesInFlagsFile calls itself for every file included.  depth stands for
\* the stack: a cycle of includes has no end.
RECURSIVE IncludesInFlagsFile(_, _, _)
IncludesInFlagsFile(includes, f, depth) ==
    IF depth = 0 THEN Failed
    ELSE FlattenSeq([i \in 1..Len(includes[f]) |->
             <<includes[f][i]>> \o IncludesInFlagsFile(includes, includes[f][i], depth - 1)])

-----------------------------------------------------------------------------
(* toolchain/inputfiles.go                                                 *)

\* A tool or a file is <<dir, name>>; the list of a tool is named by the tool,
\* the list of its directory by <<dir, "">>.  A line is a name, or a comment.
\* A blank line names the directory.
Comment == "#"
LoadOrStoreToolchainCache(lists, there, rp) ==
    SelectSeq([i \in 1..Len(lists[rp]) |-> <<rp[1], lists[rp][i]>>],
              LAMBDA f : f[2] # Comment /\ f \in there)

\* Mutant: a tool without a list of its own has none.
OwnList(lists, tc) == tc
ListOf(lists, tc) == IF tc \in DOMAIN lists THEN tc ELSE <<tc[1], "">>
ProcessToolchainInputFiles(lists, there, tcs) ==
    FoldLeft(LAMBDA acc, tc :
        LET rp == ListOf(lists, tc)
            new == tc \notin acc.seen /\ rp \notin acc.seen /\ rp \in DOMAIN lists
            list == IF new THEN LoadOrStoreToolchainCache(lists, there, rp) ELSE <<>>
        IN [files |-> Append(acc.files, tc) \o list,
            seen |-> acc.seen \cup (IF tc \in acc.seen THEN {} ELSE {rp})],
        [files |-> <<>>, seen |-> {}], tcs).files

-----------------------------------------------------------------------------
(* The reference: the smallest set that is closed under a relation.        *)

Closure(nodes, start, Next(_)) ==
    {n \in nodes : \A S \in SUBSET nodes :
        (start \in S /\ \A m \in S : Next(m) \cap nodes \subseteq S) => n \in S}

\* TsinputProcessor.Inputs returns exactly the files that the first one reaches,
\* each once, also where imports and references form cycles; if one of those
\* reached names a file that does not exist it is an error, and only then.
ClosureFound(tree, start) ==
    LET next(p) == LET d == DirectInputs(tree, p) IN IF d = Failed THEN {} ELSE ToSet(d)
        reached == Closure(DOMAIN tree, start, next)
        result == ProcessInputs(tree, start)
    IN IF \E p \in reached : DirectInputs(tree, p) = Failed THEN result = {Error}
       ELSE result = reached

\* includesInFlagsFile lists what a flag file includes, directly or not, unless
\* the includes form a cycle that it reaches: then it does not end.
IncludesFound(includes, start) ==
    LET next(f) == ToSet(includes[f])
        below(f) == UNION {Closure(DOMAIN includes, g, next) : g \in next(f)}
        cyclic == \E f \in {start} \cup below(start) : f \in below(f)
        result == ToSet(IncludesInFlagsFile(includes, start, Cardinality(DOMAIN includes) + 1))
    IN IF cyclic THEN Error \in result ELSE result = below(start)

\* processToolchainInputFiles finds every file that is there and that a list
\* for one of the tools names, the tool's own or else the directory's, and no
\* list is taken twice, in whatever order and how often tools are named.
ToolchainsFound(lists, there, tcs) ==
    LET result == ProcessToolchainInputFiles(lists, there, tcs)
        own(tc) == {l \in DOMAIN lists : l[1] = tc[1] /\ l[2] = tc[2]}
        for(tc) == IF own(tc) # {} THEN own(tc) ELSE {l \in DOMAIN lists : l = <<tc[1], "">>}
        used == UNION {for(tcs[i]) : i \in 1..Len(tcs)}
        named(l) == {<<l[1], lists[l][i]>> : i \in {j \in 1..Len(lists[l]) : lists[l][j] # Comment}}
        entries(l) == Cardinality({i \in 1..Len(lists[l]) : <<l[1], lists[l][i]>> \in there})
    IN /\ ToSet(result) = ToSet(tcs) \cup (there \cap UNION {named(l) : l \in used})
       /\ Len(result) = Len(tcs) + MapThenSumSet(entries, used)
=============================================================================
