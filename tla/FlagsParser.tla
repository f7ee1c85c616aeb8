---------------------------- MODULE FlagsParser -----------------------------
(***************************************************************************)
(* The flag parsers (internal/pkg/inputprocessor: args, clangparser and    *)
(* the flagsparser of every action type), which decide from a command line *)
(* alone which files an action reads and writes.                           *)
(*                                                                         *)
(* An argument is a record: a flag, a flag with its value joined to it, a  *)
(* word, or the name of a response file.  A parser is a table: how many    *)
(* values each flag takes, which prefixes are joined, and the role of      *)
(* every value.  One flag stands for all the flags a parser treats alike.  *)
(* A path is a tuple, so that a path derived from another one can be told  *)
(* apart: <<"x", "gcno">> is x with its extension replaced.                *)
(***************************************************************************)
EXTENDS Naturals, Sequences, SequencesExt, TLC

Flag(n)    == [k |-> "flag", n |-> n, v |-> <<>>]
Join(n, p) == [k |-> "join", n |-> n, v |-> <<p>>]   \* -nPATH
Word(p)    == [k |-> "word", n |-> "", v |-> <<p>>]
List(ps)   == [k |-> "word", n |-> "", v |-> ps]     \* p1:p2:...
Rsp(p)     == [k |-> "rsp",  n |-> "", v |-> <<p>>]  \* @PATH

\* CommandFlags, with the lists an action's spec is made of.
NoFlags == [deps |-> <<>>, outs |-> <<>>, dirs |-> <<>>, targets |-> <<>>, virt |-> <<>>,
            dfile |-> <<>>, obj |-> <<>>, coverage |-> FALSE, split |-> FALSE, temps |-> ""]

-----------------------------------------------------------------------------
(* args.Scanner                                                            *)

\* ReadNextFlag: the flag at the head with the values that belong to it.
NumValues(t, h) == IF h.k = "flag" /\ h.n \in DOMAIN t.flags THEN t.flags[h.n] ELSE 0
ReadNextFlag(t, s) ==
    LET h == Head(s)
        n == NumValues(t, h)
        known == h.n \in DOMAIN t.roles
    IN [key |-> IF h.k \in {"flag", "join"} THEN (IF known THEN h.n ELSE "other") ELSE "",
        args |-> SubSeq(s, 1, n + 1),
        values |-> IF h.k = "flag" THEN SubSeq(s, 2, n + 1) ELSE <<h>>]

\* A line the parsers accept: every flag is followed by its values.
RECURSIVE WellFormed(_, _)
WellFormed(t, s) ==
    s = <<>> \/ (/\ NumValues(t, Head(s)) < Len(s)
                 /\ WellFormed(t, SubSeq(s, NumValues(t, Head(s)) + 2, Len(s))))

\* Every result of the scanner, in order (the loop on HasNext).
RECURSIVE Scan(_, _)
Scan(t, s) == IF s = <<>> THEN <<>>
              ELSE LET r == ReadNextFlag(t, s)
                   IN <<r>> \o Scan(t, SubSeq(s, Len(r.args) + 1, Len(s)))

-----------------------------------------------------------------------------
(* The handlers: what a value's role does to CommandFlags.                 *)

\* collectThinLTODeps: the bitcode file, and what the file of its imports
\* lists, of which one stands for all.
ThinLTODeps(v) == v \o <<Append(v[1], "imported")>>

AddRole(f, role, v) ==
    CASE role = "dep"    -> [f EXCEPT !.deps = @ \o v]
      [] role = "thinlto" -> [f EXCEPT !.deps = @ \o ThinLTODeps(v)]
      [] role = "cwd"    -> [f EXCEPT !.temps = "cwd"]
      [] role = "objdir" -> [f EXCEPT !.temps = "objdir"]
      [] role = "out"    -> [f EXCEPT !.outs = @ \o v]
      [] role = "obj"    -> [f EXCEPT !.outs = @ \o v, !.obj = v]
      [] role = "dfile"  -> [f EXCEPT !.outs = @ \o v, !.dfile = v]
      [] role = "inout"  -> [f EXCEPT !.outs = @ \o v, !.deps = @ \o v]
      [] role = "dir"    -> [f EXCEPT !.dirs = @ \o v]
      [] role = "target" -> [f EXCEPT !.targets = @ \o v]
      [] role = "virt"   -> [f EXCEPT !.virt = @ \o v]
      [] role = "coverage" -> [f EXCEPT !.coverage = TRUE]
      [] role = "split"  -> [f EXCEPT !.split = TRUE]
      [] role = "none"   -> f

\* A flag without values still has its role (--coverage, -gsplit-dwarf).
Roles(t, r) == CASE r.args[1].k = "rsp" -> <<t.rsp>>
                 [] r.args[1].k = "word" -> <<t.word>>
                 [] r.key = "other" -> <<>>
                 [] OTHER -> t.roles[r.key]
Handle(t, f, r) ==
    FoldLeft(LAMBDA g, i : AddRole(g, Roles(t, r)[i],
                                   IF i <= Len(r.values) THEN r.values[i].v ELSE <<>>),
             f, [i \in 1..Len(Roles(t, r)) |-> i])

\* ParseWithFunc: the contents of a response file, with a scanner of its own.
\* Mutant: only its first argument.
ParseFirst(t, f, contents) ==
    IF contents = <<>> THEN f ELSE Handle(t, f, Head(Scan(t, contents)))
ParseWithFunc(t, f, contents) == FoldLeft(LAMBDA g, r : Handle(t, g, r), f, Scan(t, contents))

\* Of a result that names a response file, the file itself becomes a
\* dependency or a target, and its contents are handled like the line's by
\* the parsers that expand it.  A file named inside one is not expanded.
HandleFromScanner(t, f, r, contents) ==
    IF r.args[1].k = "rsp" /\ t.expand
    THEN ParseWithFunc(t, AddRole(f, t.rsp, r.args[1].v), contents)
    ELSE Handle(t, f, r)

\* Finalize: the temporary files of every target, in the working directory or
\* next to the object, and what coverage and split debug info write there.
TempsOf(f, target) ==
    (IF f.temps = "objdir" /\ f.obj # <<>> THEN f.obj[1] ELSE <<"cwd">>) \o target \o <<"temps">>
Finalize(f) ==
    LET temps == IF f.temps = "" THEN <<>>
                 ELSE [i \in 1..Len(f.targets) |-> TempsOf(f, f.targets[i])]
        with(is, ext) == IF is /\ f.obj # <<>> THEN <<Append(f.obj[1], ext)>> ELSE <<>>
    IN [f EXCEPT !.outs = @ \o temps \o with(f.coverage, "gcno") \o with(f.split, "dwo")]

-----------------------------------------------------------------------------
(* The tables.                                                             *)

\* HandleClangFlags and its driver HandleClangFlagsFromScanner.
ClangRoles == [o |-> <<"obj">>, MF |-> <<"dfile">>, I |-> <<"none">>, B |-> <<"dep">>,
               coverage |-> <<"coverage">>, gsplit |-> <<"split">>, datafile |-> <<"out">>,
               thinlto |-> <<"thinlto">>, savetemps |-> <<"cwd">>, savetempsobj |-> <<"objdir">>]
Clang == [flags |-> [o |-> 1, MF |-> 1, I |-> 1, B |-> 1, coverage |-> 0, gsplit |-> 0, savetemps |-> 0],
          roles |-> ClangRoles, word |-> "target", rsp |-> "dep", expand |-> TRUE, look |-> <<>>]

\* clang-cl: /Fo names the object without becoming State.objFile, and
\* /clang:-MF /clang:FILE are two results that belong together.  clang-cl and
\* the linker copy an output of -MF, but not that it is the dependency file.
ClangCL == [flags |-> [MF |-> 1, I |-> 1, B |-> 1, coverage |-> 0, gsplit |-> 0],
            roles |-> [Fo |-> <<"out">>, MF |-> <<"out">>, clangMF |-> <<"none">>,
                       clang |-> <<"none">>] @@ ClangRoles,
            word |-> "target", rsp |-> "dep", expand |-> TRUE, look |-> <<>>]

\* The linker reads what words, -L, --sysroot and -Wl name.
ClangLink == [flags |-> [o |-> 1, MF |-> 1, L |-> 1, coverage |-> 0, gsplit |-> 0],
              roles |-> [L |-> <<"dep">>, Wl |-> <<"dep">>, implib |-> <<"out">>,
                         MF |-> <<"out">>] @@ ClangRoles,
              word |-> "dep", rsp |-> "dep", expand |-> TRUE, look |-> <<>>]

HeaderABI == [flags |-> [o |-> 1, MF |-> 1, I |-> 1, B |-> 1, root |-> 1],
              roles |-> [root |-> <<"none">>] @@ ClangRoles,
              word |-> "target", rsp |-> "dep", expand |-> FALSE, look |-> <<>>]

Javac == [flags |-> [classpath |-> 1, d |-> 1],
          roles |-> [classpath |-> <<"dep">>, d |-> <<"dir">>, system |-> <<"dep">>],
          word |-> "dep", rsp |-> "target", expand |-> TRUE, look |-> <<>>]

\* depFlags take no value: parseFlags looks ahead for one (see MetalavaFold).
\* --rewrite-annotations is among them and among the outDirFlags, which do.
MetalavaFlags == [api |-> 1, stubs |-> 1, baseline |-> 1, convert |-> 2, convertnew |-> 3,
                  strict |-> 1, rewrite |-> 1]
Metalava == [flags |-> MetalavaFlags,
             roles |-> [api |-> <<"out">>, stubs |-> <<"dir">>, baseline |-> <<"inout">>,
                        convert |-> <<"dep", "out">>, convertnew |-> <<"dep", "dep", "out">>,
                        strict |-> <<"dfile">>, rewrite |-> <<"dir">>, source |-> <<>>, sourcepath |-> <<>>],
             word |-> "none", rsp |-> "target", expand |-> FALSE,
             look |-> [source |-> "dep", rewrite |-> "dep", sourcepath |-> "virt"]]

D8 == [flags |-> [lib |-> 1, output |-> 1],
       roles |-> [lib |-> <<"dep">>, output |-> <<"dir">>, maindex |-> <<"dep">>],
       word |-> "none", rsp |-> "none", expand |-> FALSE, look |-> <<>>]

R8 == [flags |-> [include |-> 1, output |-> 1, printmapping |-> 1, injars |-> 1],
       roles |-> [include |-> <<"dep">>, output |-> <<"dir">>, printmapping |-> <<"out">>,
                  injars |-> <<"target">>, maindex |-> <<"dep">>],
       word |-> "none", rsp |-> "none", expand |-> FALSE, look |-> <<>>]

Tool == [flags |-> <<>>, roles |-> <<>>, word |-> "none", rsp |-> "none", expand |-> FALSE, look |-> <<>>]

Tables == [clang |-> Clang, clangcl |-> ClangCL, link |-> ClangLink, abi |-> HeaderABI,
           javac |-> Javac, metalava |-> Metalava, d8 |-> D8, r8 |-> R8, tool |-> Tool]

-----------------------------------------------------------------------------
(* The parsers.                                                            *)

\* Most of them: one result after the other.
ParseLine(t, s, contents) ==
    FoldLeft(LAMBDA f, r : HandleFromScanner(t, f, r, contents), NoFlags, Scan(t, s))

\* clang-cl looks at the previous result of the same scanner.
IsPair(rs, i) == i > 1 /\ rs[i].key \in {"clang", "clangMF"} /\ rs[i - 1].key = "clangMF"
PairFold(t, f, rs) ==
    FoldLeft(LAMBDA g, i : IF IsPair(rs, i) THEN AddRole(g, "dfile", rs[i].values[1].v)
                           ELSE Handle(t, g, rs[i]),
             f, [i \in 1..Len(rs) |-> i])
ClangCLParse(t, s, contents) ==
    LET rs == Scan(t, s) IN
    FoldLeft(LAMBDA g, i :
        IF rs[i].args[1].k = "rsp"
        THEN PairFold(t, AddRole(g, "dep", rs[i].args[1].v), Scan(t, contents))
        ELSE IF IsPair(rs, i) THEN AddRole(g, "dfile", rs[i].values[1].v)
        ELSE Handle(t, g, rs[i]),
        NoFlags, [i \in 1..Len(rs) |-> i])

\* metalava: a dependency flag takes the next result if that is a word,
\* whatever values it has; a response file there, or alone, only lists files.
RECURSIVE MetalavaFold(_, _, _, _)
MetalavaFold(t, f, rs, contents) ==
    IF rs = <<>> THEN f ELSE
    LET r == Head(rs)
        files == FlattenSeq([i \in 1..Len(contents) |-> contents[i].v])
    IN IF r.key \in DOMAIN t.look /\ Len(rs) > 1 /\ rs[2].key = ""
       THEN LET v == rs[2].args[1] IN
            MetalavaFold(t, AddRole(f, t.look[r.key],
                                    v.v \o (IF v.k = "rsp" /\ r.key # "sourcepath" THEN files ELSE <<>>)),
                         SubSeq(rs, 3, Len(rs)), contents)
       ELSE IF r.args[1].k = "rsp"
       THEN MetalavaFold(t, AddRole(AddRole(f, "target", r.args[1].v), "dep", files),
                         Tail(rs), contents)
       ELSE MetalavaFold(t, Handle(t, f, r), Tail(rs), contents)

\* d8's last argument is its target, the scanner sees the others.
D8Parse(t, s, contents) ==
    AddRole(ParseLine(t, Front(s), contents), "target", Last(s).v)

\* clanglink's handler passes the result of the command line, not the current
\* one of the response file, to HandleClangFlags: the flags that only
\* HandleClangFlags knows are lost inside a response file.
LinkHandlesItself == {"", "L", "Wl", "implib"}
LinkParse(t, s, contents) ==
    FoldLeft(LAMBDA f, r :
        IF r.args[1].k # "rsp" THEN Handle(t, f, r)
        ELSE FoldLeft(LAMBDA g, q : IF q.key \in LinkHandlesItself THEN Handle(t, g, q)
                                    ELSE AddRole(g, "dep", r.args[1].v),
                      AddRole(f, "dep", r.args[1].v), Scan(t, contents)),
        NoFlags, Scan(t, s))

ParseFlags(p, s, contents) ==
    LET t == Tables[p] IN
    CASE p = "metalava" -> MetalavaFold(t, NoFlags, Scan(t, s), contents)
      [] p = "clangcl"  -> Finalize(ClangCLParse(t, s, contents))
      [] p = "link"     -> Finalize(LinkParse(t, s, contents))
      [] p = "d8"       -> D8Parse(t, s, contents)
      [] p \in {"clang", "abi"} -> Finalize(ParseLine(t, s, contents))
      [] OTHER -> ParseLine(t, s, contents)

-----------------------------------------------------------------------------
(* clanglink's archive reader: entries are headers with what follows them. *)

\* The name table of a GNU archive holds the long names; "/i" refers to the
\* name at offset i.  A thin archive takes the names in the table's order.
\* Mutant: the name is not counted.
NextStays(acc) == acc.next
NextName(acc) == acc.next + 1
\* A BSD entry has the length of its name in the header, in decimal, and the
\* name in front of its data.  TrimLeft removes the characters of the prefix
\* "#1/", not the prefix: a length that begins with 1 loses that digit, and the
\* name is cut.  A length of which nothing is left, like a header or data that
\* end early, is an error, and no name is returned.
TrimLeft(digits) ==
    LET rest == {i \in DOMAIN digits : digits[i] # 1}
    IN IF rest = {} THEN <<>>
       ELSE SubSeq(digits, CHOOSE i \in rest : \A j \in rest : i <= j, Len(digits))
BsdName(en) == IF TrimLeft(en.len) = en.len THEN en.data ELSE <<en.data, TrimLeft(en.len)>>
Malformed(en) == en.name = "cut" \/ (en.name = "#1/" /\ TrimLeft(en.len) = <<>>)
ReadFileNames(thin, entries) ==
    FoldLeft(LAMBDA acc, en :
        CASE en.name = "//" -> [acc EXCEPT !.table = en.data, !.next = 1]
          [] en.name = "/"  -> acc
          [] en.name = "/i" /\ thin ->
               [acc EXCEPT !.files = Append(@, acc.table[acc.next]), !.next = NextName(acc)]
          [] en.name = "/i" /\ ~thin -> [acc EXCEPT !.files = Append(@, acc.table[en.off])]
          [] en.name = "#1/" -> [acc EXCEPT !.files = Append(@, BsdName(en))]
          [] OTHER -> [acc EXCEPT !.files = Append(@, en.name)],
        [files |-> <<>>, table |-> <<>>, next |-> 1], entries).files

\* processArchive: the archive, and with a deep scan its members before it.  An
\* archive that cannot be read is logged, and is itself no dependency then.
ProcessArchive(deep, thin, entries, archive) ==
    CASE ~deep -> <<archive>>
      [] deep /\ \E i \in DOMAIN entries : Malformed(entries[i]) -> <<>>
      [] OTHER -> Append(ReadFileNames(thin, entries), archive)

-----------------------------------------------------------------------------
(* What the parsers promise.                                               *)

\* The role of position i, read off the line without scanning it: that of the
\* value of a flag that reaches it, or what a word means.
ReferenceRole(t, s, i) ==
    LET reach == {j \in 1..(i - 1) : s[j].k = "flag" /\ j + NumValues(t, s[j]) >= i}
        roleOf(n, k) == IF n \in DOMAIN t.roles THEN t.roles[n][k] ELSE "none"
    IN CASE s[i].k = "flag" -> "none"
         [] reach # {} -> LET j == CHOOSE j \in reach : TRUE IN roleOf(s[j].n, i - j)
         [] i > 1 /\ s[i - 1].n \in DOMAIN t.look /\ s[i].k \in {"word", "rsp"} ->
              t.look[s[i - 1].n]
         [] i > 1 /\ s[i].n \in {"clang", "clangMF"} /\ s[i - 1].n = "clangMF" -> "dfile"
         [] s[i].k = "join" -> roleOf(s[i].n, 1)
         [] s[i].k = "rsp" -> t.rsp
         [] OTHER -> t.word
ReferenceList(t, s, roles) ==
    FlattenSeq([i \in 1..Len(s) |->
        LET role == ReferenceRole(t, s, i) IN
        CASE role \notin roles -> <<>>
          [] role = "thinlto" -> ThinLTODeps(s[i].v)
          [] OTHER -> s[i].v])
ReferenceDerived(t, s) ==
    LET objs == ReferenceList(t, s, {"obj"})
        saves == {i \in 1..Len(s) : s[i].n \in {"savetemps", "savetempsobj"}}
        latest == s[CHOOSE i \in saves : \A j \in saves : j <= i].n
        where == IF latest = "savetempsobj" /\ objs # <<>> THEN Last(objs) ELSE <<"cwd">>
        targets == ReferenceList(t, s, {"target"})
        temps == IF saves = {} \/ latest \notin DOMAIN t.roles THEN <<>>
                 ELSE [i \in 1..Len(targets) |-> where \o targets[i] \o <<"temps">>]
        with(flag, ext) == IF objs # <<>> /\ \E i \in 1..Len(s) : s[i] = Flag(flag)
                           THEN <<Append(Last(objs), ext)>> ELSE <<>>
    IN temps \o with("coverage", "gcno") \o with("gsplit", "dwo")

\* A line whose flags are followed by words: only on these is reading off the
\* roles meant to agree with scanning.
Plain(t, s) == /\ WellFormed(t, s)
               /\ \A i \in 1..Len(s) : \A j \in (i + 1)..(i + NumValues(t, s[i])) : s[j].k = "word"

\* A flag with a value that also looks ahead: --rewrite-annotations before a
\* word takes that word for a dependency and loses its directory
\* (metalava/flagsparser.go:50, 81, 151).
Swallows(t, s) ==
    \E i \in 1..Len(s) :
        /\ s[i].k = "flag" /\ s[i].n \in DOMAIN t.look \cap DOMAIN t.flags
        /\ i + NumValues(t, s[i]) < Len(s) /\ s[i + NumValues(t, s[i]) + 1].k \in {"word", "rsp"}

\* The dependencies, outputs, directories and targets that a parser finds by
\* scanning are the values that have these roles, in the order of the line.
RolesFound(p, s) ==
    LET t == Tables[p]
        body == IF p = "d8" THEN Front(s) ELSE s
        f == ParseFlags(p, s, <<>>)
        is(list, roles) == list = ReferenceList(t, body, roles)
    IN (s # <<>> /\ Plain(t, body) /\ ~Swallows(t, body)) =>
         /\ is(f.deps, {"dep", "inout", "thinlto"}) /\ is(f.dirs, {"dir"}) /\ is(f.virt, {"virt"})
         /\ f.outs = ReferenceList(t, body, {"out", "obj", "dfile", "inout"})
                        \o ReferenceDerived(t, body)
         /\ f.targets = ReferenceList(t, body, {"target"})
                           \o (IF p = "d8" THEN Last(s).v ELSE <<>>)

\* An argument means the same inside a response file as on the command line,
\* as long as no flag is torn from its value by the end of the file.
RspTransparent(p, s, contents) ==
    LET t == Tables[p]
        inside == ParseFlags(p, <<Rsp(<<"r">>)>> \o s, contents)
        direct == ParseFlags(p, contents \o s, <<>>)
        same(a, b) == ToSet(a) \ {<<"r">>} = ToSet(b)
        torn == contents # <<>> /\ Last(contents).n = "clangMF"
    IN (/\ WellFormed(t, s) /\ WellFormed(t, contents) /\ ~torn
        /\ \A i \in 1..Len(s) : s[i].k # "rsp") =>
         /\ same(inside.outs, direct.outs) /\ same(inside.dirs, direct.dirs)
         /\ same(inside.deps, direct.deps) /\ same(inside.targets, direct.targets)
         /\ inside.dfile = direct.dfile

\* An archive is read to the members that were put into it, whatever mix of
\* short names, of names kept in the table and of BSD names; a thin one has only
\* names of the table, and its writer keeps them in the order of its members.
\* Excepted are archives with an entry that cannot be read, and with a BSD name
\* whose length begins with 1 (ar_reader.go:130-140).
ArchiveRead(thin, members) ==
    LET inTable(m) == thin \/ m.kind = "long"
        names == [i \in 1..Len(SelectSeq(members, inTable)) |-> SelectSeq(members, inTable)[i].name]
        offset(i) == Len(SelectSeq(SubSeq(members, 1, i), inTable))
        entry(i) == CASE members[i].kind = "cut" -> [name |-> "cut"]
                      [] inTable(members[i]) -> [name |-> "/i", off |-> offset(i)]
                      [] members[i].kind = "bsd" ->
                           [name |-> "#1/", len |-> members[i].len, data |-> members[i].name]
                      [] OTHER -> [name |-> members[i].name]
        entries == <<[name |-> "/"], [name |-> "//", data |-> names]>>
                      \o [i \in 1..Len(members) |-> entry(i)]
        misread(m) == m.kind = "cut" \/ (~thin /\ m.kind = "bsd" /\ m.len[1] = 1)
    IN (\A i \in DOMAIN members : ~misread(members[i])) =>
         ProcessArchive(TRUE, thin, entries, "lib.a")
           = Append([i \in 1..Len(members) |-> members[i].name], "lib.a")
=============================================================================
