------------------------------- MODULE Labels -------------------------------
(***************************************************************************)
(* The labels by which a command says what kind of action it is            *)
(* (internal/pkg/labels).  A request carries a map of labels; the four     *)
(* that identify an action type are picked from it, the others (such as    *)
(* "shallow") are options.                                                 *)
(***************************************************************************)

Keys == {"type", "compiler", "lang", "tool"}
L(type, compiler, lang, tool) ==
    [type |-> type, compiler |-> compiler, lang |-> lang, tool |-> tool]

ToolLabels          == L("tool", "", "", "")
SignAPKLabels       == L("apksigning", "signapkjar", "", "")
ClangCppLabels      == L("compile", "clang", "cpp", "")
ClangCLCppLabels    == L("compile", "clang-cl", "cpp", "")
NaClLabels          == L("compile", "nacl", "cpp", "")
JavacLabels         == L("compile", "javac", "java", "")
MetalavaLabels      == L("compile", "metalava", "java", "")
TscLabels           == L("compile", "tsc", "typescript", "")
R8Labels            == L("compile", "r8", "", "")
D8Labels            == L("compile", "d8", "", "")
ClangLinkLabels     == L("link", "", "", "clang")
NaClLinkLabels      == L("link", "", "", "nacl")
LLVMArLabels        == L("archive", "", "", "llvm")
ClangLintLabels     == L("lint", "", "cpp", "clang-tidy")
HeaderAbiDumpLabels == L("abi-dump", "", "", "header-abi-dumper")

\* A label that is missing is the empty string, and is not kept in a map.
FromMap(m) == [k \in Keys |-> IF k \in DOMAIN m THEN m[k] ELSE ""]
ToMap(l) == [k \in {j \in Keys : l[j] # ""} |-> l[k]]
=============================================================================
