---------------------------- MODULE MCAlgorithms ----------------------------
(***************************************************************************)
(* All small inputs of the pure algorithms: those of module Algorithms,    *)
(* and those that follow files to other files or aggregate records, which  *)
(* are checked here against their reference definitions.                   *)
(***************************************************************************)
EXTENDS Algorithms, TLC
F == INSTANCE FlagsParser
D == INSTANCE Forecast
R == INSTANCE Records
G == INSTANCE SourceGraph

-----------------------------------------------------------------------------
(* Command lines, and the contents of a response file that they may name.  *)

JoinNames == {"datafile", "thinlto", "savetempsobj", "Fo", "clang", "clangMF", "Wl", "implib",
              "system", "maindex"}
Args(q) ==
    {F!Flag(n) : n \in DOMAIN F!Tables[q].flags \cup DOMAIN F!Tables[q].look \cup {"unknown"}}
    \cup {F!Join(n, <<"j">>) : n \in JoinNames \cap DOMAIN F!Tables[q].roles}
    \cup {F!Word(<<"x">>), F!Rsp(<<"r">>)}
    \cup {IF q \in {"javac", "metalava"} THEN F!List(<<<<"x">>, <<"y">>>>) ELSE F!Word(<<"y">>)}
Lines == {[parser |-> q, rsp |-> <<>>] : q \in DOMAIN F!Tables}
GrowLine ==
    /\ job = "line" /\ \E a \in Args(with.parser) : Grow(a, IF with.rsp = <<>> THEN 4 ELSE 1)
    /\ UNCHANGED <<job, with>>
GrowRsp ==
    /\ job = "line" /\ Len(input) <= 1 /\ Len(with.rsp) < 2
    /\ \E a \in Args(with.parser) : a.k # "rsp" /\ with' = [with EXCEPT !.rsp = Append(@, a)]
    /\ UNCHANGED <<job, input>>
Expanding == {"clang", "clangcl", "javac"}

\* Members of an archive.
GrowArchive ==
    /\ job = "archive" /\ UNCHANGED <<job, with>>
    /\ \E n \in {"m1", "m2"},
         k \in {[kind |-> "short"], [kind |-> "long"], [kind |-> "cut"]}
               \cup [kind : {"bsd"}, len : {<<9>>, <<1, 2>>, <<1>>}] :
           Grow([name |-> n] @@ k, 4)

-----------------------------------------------------------------------------
(* Files that name other files.                                            *)

Ts(imports) == [kind |-> "ts", imports |-> imports]
Cfg(e, f, i, r) == [kind |-> "config", extends |-> e, files |-> f, include |-> i, references |-> r]
Imports == {<<>>, <<<<"b">>>>, <<<<"x", "b", "c">>>>, <<<<"c">>, <<"a">>>>, <<<<"x">>>>}
Projects == {Cfg(e, f, i, r) : e \in {"", "q", "x"}, f \in {G!None, <<>>, <<"a">>},
                               i \in {G!None, <<"b">>}, r \in {G!None, <<"q">>}}
Parents == {Cfg("", f, i, r) : f \in {G!None, <<"c">>, <<"x">>}, i \in {G!None, <<"a">>},
                               r \in {G!None, <<"p">>}}
Trees == {[p |-> p, q |-> q, a |-> Ts(<<>>), b |-> Ts(<<<<"a">>>>), c |-> Ts(<<>>)] :
              p \in Projects, q \in Parents}
         \cup {[a |-> Ts(a), b |-> Ts(b), c |-> Ts(c)] : a, b, c \in Imports}
FlagFiles == {"f", "g", "h"}
Includes == {[f \in FlagFiles |-> SetToSeq({g \in FlagFiles : <<f, g>> \in E})] :
                 E \in SUBSET (FlagFiles \X FlagFiles)}

ListFiles == {<<"t", "x">>, <<"t", "">>}    \* t itself is there, t/y is not
ToolLists == SUBSET {<<"t", "c">>, <<"t", "g">>, <<"t", "">>, <<"u", "">>}
ListLines == [l \in {<<"t", "c">>, <<"t", "g">>, <<"t", "">>, <<"u", "">>} |->
                CASE l = <<"t", "c">> -> <<"x", G!Comment>>
                  [] l = <<"t", "g">> -> <<>>
                  [] l = <<"t", "">> -> <<"y", "x", "">>
                  [] OTHER -> <<"x">>]
GrowTools ==
    /\ job = "tools" /\ UNCHANGED <<job, with>>
    /\ \E t \in {<<"t", "c">>, <<"t", "g">>, <<"u", "c">>} : Grow(t, 4)

\* Names of files as the flags and the dependency scanner spell them.
Spellings == UNION {[1..n -> {"a", "A", "b"}] : n \in 1..2}
Disks == {{<<"a">>, <<"a", "A">>, <<"b">>}, {<<"A">>, <<"A", "b">>, <<"A", "a">>},
          {<<"A">>, <<"b">>, <<"b", "a">>}}
GrowInputs ==
    /\ job = "inputs" /\ UNCHANGED <<job, with>>
    /\ \E p \in Spellings : Grow(p, 3)

\* Compilations, by their flags.
Compile(flags, targets) ==
    [exe |-> <<"c">>, flags |-> flags, targets |-> targets, outs |-> <<<<"o">>, <<"d">>>>, dfile |-> <<"d">>]
GrowFlags ==
    /\ job = "scan" /\ UNCHANGED <<job, with>>
    /\ \E k \in {"sysroot", "I", "Xclang", "fconserve-stack"}, joined \in BOOLEAN,
         v \in {<<>>, <<"verify">>, <<"..", "a">>, <<"/", "r", ".", "a">>} :
            Grow([key |-> k, value |-> v, joined |-> joined], 2)

\* The inputs of an action are found.  The flag parsers give every value of a
\* command line its role, a response file changes nothing about it for the
\* parsers that expand one (the linker's is the exception, see the README),
\* an archive is read to its members, following imports, projects and includes
\* finds exactly what can be reached, in the presence of cycles and of files
\* that are missing, a toolchain is complete, a file has one spelling, and the
\* dependency scanner is given the same compilation.
InputsFound ==
    /\ job = "line" => /\ F!RolesFound(with.parser, input)
                       /\ with.parser \in Expanding => F!RspTransparent(with.parser, input, with.rsp)
    /\ job = "archive" => F!ArchiveRead(with, input)
    /\ job = "tree" => \A start \in {"a", "p"} \cap DOMAIN with : G!ClosureFound(with, start)
    /\ job = "includes" => G!IncludesFound(with, "f")
    /\ job = "tools" => G!ToolchainsFound([l \in with |-> ListLines[l]], ListFiles, input)
    /\ job = "inputs" => P!OneSpelling(with, input)
    /\ job = "scan" => \A wd \in {<<>>, <<"w">>} :
          P!ScanCommandKeepsMeaning(ExecRoot, wd, Compile(input, with))

-----------------------------------------------------------------------------
(* Aggregates of records and samples.                                      *)

Rec(id, label, status, remote, num, reruns, ti, inputs) ==
    [id |-> id, label |-> label, status |-> status, hit |-> status = "CACHE_HIT", remote |-> remote,
     num |-> num, reruns |-> reruns, mism |-> reruns, ti |-> ti, input |-> inputs]
Recs(id) ==
    {Rec(id, "x", "CACHE_HIT", TRUE, n, <<>>, <<1, 3>>, 2) : n \in 0..2}
    \cup {Rec(id, "", "NON_ZERO_EXIT", TRUE, n, <<n>>, <<2, 3>>, 1) : n \in 1..2}
    \cup {Rec(id, "x", "LOCAL_FALLBACK", FALSE, 0, <<>>, <<2, 0>>, 2),
          Rec(id, "", "CACHE_HIT", TRUE, 1, <<2, 0>>, <<>>, 0),
          Rec(id, "x", "NON_ZERO_EXIT", TRUE, 2, <<1, 1>>, <<1, 2>>, 0)}
GrowRecords ==
    /\ job = "records" /\ \E r \in Recs(Len(input) + 1) : Grow(r, 3)
    /\ UNCHANGED <<job, with>>

\* Runs of reproxy that wrote to one log directory; a run that was killed while
\* it logged has not written its info file.
GrowLogs ==
    /\ job = "logs" /\ UNCHANGED <<job, with>>
    /\ \E format \in {"text", "reducedtext"}, r \in Recs(Len(input) + 1),
          left \in {<<TRUE, "empty">>} \cup ({FALSE} \X {"empty", "cut", "whole"}) :
         Grow([format |-> format, recs |-> <<r>>, cut |-> left[1], info |-> left[2]], 2)

GrowSamples ==
    /\ job = "samples" /\ UNCHANGED <<job, with>>
    /\ \E e \in [k : {"sample"}, l : {"a", "b"}, v : 1..3] \cup {[k |-> "tick"]} : Grow(e, 5)

\* Local and remote times of a record in a trace.
LocalTimes == {O!NoPart, [LERCRun |-> <<>>]}
              \cup {[LERCRun |-> p] : p \in {q \in (1..3) \X (1..3) : q[1] <= q[2]}}
RemoteTimes == {O!NoPart, [Download |-> <<2, 3>>], [Download |-> <<1, 1>>, ServerQueued |-> <<1, 2>>],
                [ServerWorkerExecution |-> <<>>]}
GrowTrace ==
    /\ job = "trace" /\ UNCHANGED <<job, with>>
    /\ \E l \in LocalTimes, r \in RemoteTimes : Grow([local |-> l, remote |-> r], 3)

\* Directories by name, one of them a link and one missing.
DirNames == [x |-> "d1", y |-> "d2", link |-> "d1", gone |-> O!None]
DirFiles == [d1 |-> {"reproxy.rpl", "reproxy.INFO", "core"}, d2 |-> {"reproxy.INFO"}, d3 |-> {"my.log"}]
GrowDirs ==
    /\ job = "dirs" /\ UNCHANGED <<job, with>>
    /\ \E d \in DOMAIN DirNames : Grow(d, 4)
LogPaths == {<<>>, <<"d1", "reproxy.rpl">>, <<"d1", "my.log">>, <<"d2", "reproxy.rpl">>, <<"d3", "my.log">>}

\* The statistics of a build are those of its records as a whole, also when they
\* are computed from the logs that are left, and the forecast is that of the
\* latest samples.  In a trace no record hides another, and all logs are
\* collected.
AggregatesOfWhole ==
    /\ job = "records" => R!StatsOfValues(input)
    /\ job = "logs" => R!StatsFromLogs(input)
    /\ job = "samples" => \A p \in {50, 95}, minSize \in 1..2 :
                            D!ForecastOfLatestSamples(input, 2, minSize, "a", p)
    /\ job = "trace" => O!TraceReadable(input)
    /\ job = "dirs" => \A path \in LogPaths, broken \in {{}, {"d1"}} :
                          O!LogsCollected(DirFiles, DirNames, input, path, broken)

-----------------------------------------------------------------------------
(* Reruns of an action in compare mode.                                    *)

OutputDigests == UNION {[outs -> {"d1", "d2"}] : outs \in {{}, {"f"}}} \cup [{"f", "g"} -> {"d1"}]
MCReruns == [remote : BOOLEAN, ec : 0..1, dgs : OutputDigests]
Rules == [kind : {"path", "bad"}, matches : {{}, {"f"}}, inverted : BOOLEAN]
         \cup {[kind |-> "unknown", matches |-> {}, inverted |-> FALSE]}
MCRuleLists == {<<r, s>> : r, s \in Rules}

-----------------------------------------------------------------------------
(* Paths.                                                                  *)

MCExecRoot == <<"/", "r">>
MCWorkingDirs == {<<>>, <<"w">>, <<"w", "v">>}
MCPathStarts == {<<>>, <<"/">>, MCExecRoot, Append(MCExecRoot, "w")}
MCElements == {"a", "b", "..", "..x", "."}
MCVersions == {<<>>} \cup {<<a, 0, b, 0>> : a, b \in 0..2}
Ten == <<1, 0, 0, 0>>
MCSDKTrees == UNION {[dirs -> {<<Ten>>, <<Ten, <<0, 2, 0, 0>>, <<>>>>, <<<<>>, P!Zero>>}] :
                      dirs \in SUBSET {<<"Windows Kits">>, <<"Windows Kits", Ten, "Include">>,
                                    <<"VC", "Tools", "MSVC">>}}
-----------------------------------------------------------------------------
(* The files of an action: an output file, an output directory, a source.  *)

Obj == <<"o">>
Hdr == <<"d", "h">>
Lib == <<"d", "k">>
Src == <<"s">>
Digested(S) == UNION {[T -> {"1", "2"}] : T \in SUBSET S}
Timed(m, wd) == [p \in {wd \o q : q \in DOMAIN m} |->
                   [d |-> m[CHOOSE q \in DOMAIN m : wd \o q = p], t |-> 1]]
Outs(m) == [q \in DOMAIN m |-> [d |-> m[q]]]
MCDownloads == {[disk |-> Timed(disk @@ (Src :> "1"), wd), wd |-> wd, outs |-> Outs(outs),
                 files |-> files, dirs |-> {<<"d">>}] :
                   files \in {{Obj}, {Obj, Hdr}}, disk, outs \in Digested({Obj, Hdr, Lib}), wd \in {<<>>, <<"w">>}}

\* Inputs and outputs of an action that is rerun, as paths of the exec root
\* and of the working directory.
Deep == <<"d", "e", "h">>
Tree == {<<"w", "o">>, Obj, <<"w", "d", "h">>, Hdr, Deep, Src}
Before == [p \in Tree |-> [d |-> "1", t |-> 1]]
RunOf(wd, inputs, files, dirs) ==
    LET outs == [q \in files \cup {x \in {Hdr, Lib} : dirs # {}} |-> [d |-> "2"]]
    IN [wd |-> wd, disk |-> Before, ran |-> P!Written(wd, outs) @@ Before, inputs |-> inputs,
        files |-> files, dirs |-> dirs, deps |-> wd \o <<"m">>]
MCReran == {RunOf(wd, inputs, files, dirs) : wd \in {<<>>, <<"w">>},
             inputs \in SUBSET Tree \cup {{<<"d">>, Src} \cup S : S \in SUBSET {Hdr, Deep}},
             files \in SUBSET {Obj, <<"..", "s">>, <<"m">>},
             dirs \in {{}, {<<"d">>}, {<<".", "d">>}, {<<".">>}, {<<"d">>, <<".">>}}}

\* An empty directory, a file known by its digest, or one with its contents.
MCVirtuals ==
    {[path |-> p, dir |-> x = "dir", digest |-> IF x = "digest" THEN "2" ELSE "",
      contents |-> IF x = "file" THEN "c" ELSE "", mtime |-> m] :
        p \in {Hdr, Src}, x \in {"dir", "digest", "file"}, m \in {0, 5}}
MCPlaces == {[disk |-> [p \in {Src} |-> [d |-> "1", t |-> 1]], dirs |-> dirs] : dirs \in {{}, {Hdr}}}

MCOutputNames == {Obj, <<".", "o">>, <<"w", "..", "o">>, <<"w", "o">>, Hdr}

\* Lengths of the streams and the message of a response, around the limits.
Lengths == {0, 127, 1024, 1025, 1300, 16383, 16384, 20000}
Bytes(n) == [pre |-> 0, tail |-> n]
MCResponses ==
    {r \in [stderr : {Bytes(n) : n \in Lengths}, stdout : {Bytes(n) : n \in Lengths},
            msg : {Bytes(n) : n \in Lengths}, result : BOOLEAN, rest : {40}] :
        ~r.result => r.msg = Bytes(0)}
MCLimits == {1100, 4096, 17000, 17500, 40000}
MCNoteLengths == {22, 100, 1200}
MCBound == [reruns |-> 4, path |-> 5, versions |-> 3, virtual |-> 2, names |-> 4]

-----------------------------------------------------------------------------

Init ==
    \/ StartJob
    \/ \E w \in Lines : Start("line", w, <<>>)
    \/ \E thin \in BOOLEAN : Start("archive", thin, <<>>)
    \/ \E t \in Trees : Start("tree", t, <<>>)
    \/ \E i \in Includes : Start("includes", i, <<>>)
    \/ \E L \in ToolLists : Start("tools", L, <<>>)
    \/ \E j \in {"records", "logs", "samples", "trace", "dirs"} : Start(j, "", <<>>)
    \/ \E d \in Disks : Start("inputs", d, <<>>)
    \/ \E t \in {<<>>, <<<<"s">>>>, <<<<"/", "s">>, <<"t">>>>} : Start("scan", t, <<>>)
Next == GrowJob \/ GrowLine \/ GrowRsp \/ GrowArchive \/ GrowRecords \/ GrowLogs \/ GrowSamples
        \/ GrowInputs \/ GrowTools \/ GrowFlags \/ GrowTrace \/ GrowDirs
Spec == Init /\ [][Next]_vars
=============================================================================
