------------------------------- MODULE Inputs -------------------------------
(***************************************************************************)
(* How reproxy finds out what a command reads, and what it trusts that     *)
(* answer with.  Every command is processed by a goroutine that ProcessInputs *)
(* starts and may stop waiting for (pkg/inputprocessor); the goroutine runs *)
(* Compute (internal/pkg/inputprocessor) with the preprocessor of the      *)
(* action type: parse the flags, find the toolchain, compute the           *)
(* dependencies (for C++, by asking the scanner while it holds one of a    *)
(* fixed number of slots), and falls back to a shallow answer when a stage *)
(* fails and the labels allow it.  A command of the LOCAL strategy then    *)
(* looks for a result in the remote cache, validates it against the deps   *)
(* file when its inputs were shallow (reproxy's action.go, deps/parser.go) *)
(* and otherwise runs and stores what it produced.                         *)
(*                                                                         *)
(* A file is named by the role it plays: the source and the toolchain,     *)
(* which flags name, and Deps, which only dependency discovery finds.  The *)
(* tree gives every dependency a version, 0 for a missing file; it is      *)
(* edited between builds, while no reproxy runs.                           *)
(***************************************************************************)
EXTENDS Naturals, FiniteSets, Labels

CONSTANTS Cmds,            \* the commands of a build
          Requests,        \* [Cmds -> set of requests a command may be sent with]
          Deps,            \* files only dependency discovery finds
          Versions,        \* the versions of a file
          Rebuilt,         \* the commands that every build runs again
          NumSlots,        \* concurrent scans (the number of CPUs)
          Unlisted,        \* what deps files may leave out: sets of dependencies
          DownloadRegex,   \* whether commands set download_regex
          MaxBuilds, MaxElsewhere

Trees == [Deps -> Versions \cup {0}]

(* The preprocessors, by what tells them apart: where the dependencies come *)
(* from (the flags and response files, files that ComputeSpec reads, or    *)
(* the scanner), and whether an error of ParseFlags or ComputeSpec is      *)
(* recorded as fatal ("fatal"), only returned ("soft") or cannot happen.   *)
PP(from, parse, compute) == [from |-> from, parse |-> parse, compute |-> compute]
Cppcompile == PP("scan", "fatal", "none")     \* a failed scan is not among these
Clangcl    == PP("scan", "fatal", "none")
Nacl       == PP("scan", "fatal", "soft")     \* a binary that is not called nacl
Clanglint  == PP("scan", "fatal", "fatal")    \* no resource directory
Headerabi  == PP("scan", "fatal", "none")
R8         == PP("files", "fatal", "soft")    \* an unreadable flags file
Typescript == PP("files", "fatal", "fatal")   \* an unreadable project
Metalava   == PP("flags", "fatal", "fatal")   \* another version of the tool
D8         == PP("flags", "fatal", "none")
Tool       == PP("flags", "fatal", "none")
Javac      == PP("flags", "fatal", "none")
Clanglink  == PP("flags", "fatal", "none")
Archive    == PP("flags", "soft", "none")
\* The switch of ProcessInputs on the labels.
Preprocessors ==
    {<<ToolLabels, Tool>>, <<SignAPKLabels, Tool>>, <<D8Labels, D8>>, <<R8Labels, R8>>,
     <<MetalavaLabels, Metalava>>, <<ClangCppLabels, Cppcompile>>, <<ClangLintLabels, Clanglint>>,
     <<HeaderAbiDumpLabels, Headerabi>>, <<ClangCLCppLabels, Clangcl>>, <<NaClLabels, Nacl>>,
     <<ClangLinkLabels, Clanglink>>, <<NaClLinkLabels, Clanglink>>, <<JavacLabels, Javac>>,
     <<LLVMArLabels, Archive>>, <<TscLabels, Typescript>>}

\* labels is the map of labels, shallow among them or not; dfile whether the
\* command emits a .d file.
Strategies == {"LOCAL", "REMOTE", "REMOTE_LOCAL_FALLBACK", "RACING"}
IsRequest(r) == /\ r.strat \in Strategies /\ r.dfile \in BOOLEAN
                /\ "shallow" \in DOMAIN r.labels => r.labels.shallow \in {"true", "false"}

ASSUME InputsAssumption == /\ NumSlots \in Nat \ {0}
                           /\ 0 \notin Versions
                           /\ {"src", "tc", "none"} \cap Deps = {}
                           /\ Unlisted \subseteq SUBSET Deps
                           /\ \A c \in Cmds : \A r \in Requests[c] : IsRequest(r)
                           /\ DownloadRegex \in BOOLEAN

VARIABLES tree, builds, elsewhere,
          req, pc, spec, fatal, err,   \* the goroutine of a command
          wait, ctx,                   \* the handler that waits for it
          slots, resMu,                \* p.slots and resourceDirsMu
          ac, depsFile,                \* the remote cache, the deps files on disk
          found, outcome               \* the cached result, what the command got

shared == <<tree, builds, elsewhere, ac, depsFile>>
proc   == <<req, pc, spec, fatal, err, slots, resMu>>
answer == <<wait, ctx, found, outcome>>
vars   == <<shared, proc, answer>>

NoFile == [x \in {"none"} |-> 0]
None   == [read |-> NoFile, deps |-> NoFile, dropped |-> {}, hit |-> FALSE]
Present(t) == {d \in Deps : t[d] # 0}
Contents(t, S) == [d \in S |-> t[d]]

\* The action type and the shallow label of a request.
Type(r) == FromMap(r.labels)
Supported(r) == \E p \in Preprocessors : p[1] = Type(r)
Preprocessor(r) == (CHOOSE p \in Preprocessors : p[1] = Type(r))[2]
ShallowLabel(r) == "shallow" \in DOMAIN r.labels /\ r.labels.shallow = "true"

\* shallowFallbackConfig: the action types and strategies for which it says
\* false.  It says true for none, and what it does not list may fall back.  The
\* entries of clang-tidy and header-abi-dumper are for the UNSPECIFIED strategy,
\* which runAction refuses: they never apply.
ShallowFallbackConfig ==
    {HeaderAbiDumpLabels, ClangLintLabels} \X {"UNSPECIFIED"}
    \cup {ClangCppLabels, ClangCLCppLabels, NaClLabels} \X {"REMOTE", "REMOTE_LOCAL_FALLBACK"}
\* Mutant: the configuration is not looked up.
ShallowFallbackAlways(r) == TRUE
ShallowFallback(r) == <<Type(r), r.strat>> \notin ShallowFallbackConfig

Init ==
    /\ tree \in Trees /\ builds = 1 /\ elsewhere = 0
    /\ req \in [Cmds -> UNION {Requests[c] : c \in Cmds}]
    /\ \A c \in Cmds : req[c] \in Requests[c]
    /\ pc = [c \in Cmds |-> "none"] /\ wait = [c \in Cmds |-> "none"]
    /\ spec = [c \in Cmds |-> [inputs |-> {}, shallow |-> FALSE, dfile |-> FALSE]]
    /\ fatal = [c \in Cmds |-> FALSE] /\ err = [c \in Cmds |-> "none"]
    /\ ctx = [c \in Cmds |-> FALSE] /\ slots = NumSlots /\ resMu = FALSE
    /\ ac = {} /\ depsFile = [c \in Cmds |-> NoFile]
    /\ found = [c \in Cmds |-> None] /\ outcome = [c \in Cmds |-> "none"]

-----------------------------------------------------------------------------
(* The goroutine: Compute and the preprocessors.                           *)

Goto(c, l) == pc' = [pc EXCEPT ![c] = l]
Shallow(c) == spec' = [spec EXCEPT ![c].shallow = TRUE]
AppendSpec(c, S) == spec' = [spec EXCEPT ![c].inputs = @ \cup S]
Quiet == UNCHANGED <<shared, answer, req>>

\* A stage failed: sanitize what is known so far, or give up with the error.
StageFailed(c, e) ==
    IF ShallowFallback(req[c])
    THEN Goto(c, "sanitize") /\ UNCHANGED err
    ELSE Goto(c, "finished") /\ err' = [err EXCEPT ![c] = e]

\* ProcessInputs starts the goroutine; Init of the preprocessor reads the label.
Start(c) ==
    /\ wait[c] = "none" /\ Supported(req[c])
    /\ wait' = [wait EXCEPT ![c] = "processing"]
    /\ spec' = [spec EXCEPT ![c].shallow = ShallowLabel(req[c])]
    /\ Goto(c, "parse")
    /\ UNCHANGED <<shared, req, fatal, err, slots, resMu, ctx, found, outcome>>

\* Labels of no known type are refused before a goroutine is started.
Unsupported(c) ==
    /\ wait[c] = "none" /\ ~Supported(req[c])
    /\ wait' = [wait EXCEPT ![c] = "failed"] /\ Goto(c, "finished")
    /\ UNCHANGED <<shared, req, spec, fatal, err, slots, resMu, ctx, found, outcome>>

Finds(c, from) == IF Preprocessor(req[c]).from = from THEN Deps ELSE {}

\* FlagsToActionSpec adds what the flags name.
FlagsToActionSpec(c) ==
    spec' = [spec EXCEPT ![c].inputs = {"src"} \cup Finds(c, "flags"),
                         ![c].dfile = req[c].dfile]
ParseFlags(c) ==
    /\ pc[c] = "parse" /\ Goto(c, "toolchains") /\ FlagsToActionSpec(c)
    /\ Quiet /\ UNCHANGED <<fatal, err, slots, resMu>>

ParseFlagsFails(c) ==
    /\ pc[c] = "parse" /\ StageFailed(c, "error")
    /\ fatal' = [fatal EXCEPT ![c] = Preprocessor(req[c]).parse = "fatal"]
    /\ Quiet /\ UNCHANGED <<spec, slots, resMu>>

ProcessToolchains(c) ==
    /\ pc[c] = "toolchains" /\ AppendSpec(c, {"tc"})
    /\ Goto(c, IF spec[c].shallow THEN "sanitize" ELSE "compute")
    /\ Quiet /\ UNCHANGED <<fatal, err, slots, resMu>>

ProcessToolchainsFails(c) ==
    /\ pc[c] = "toolchains" /\ Shallow(c) /\ StageFailed(c, "error")
    /\ Quiet /\ UNCHANGED <<fatal, slots, resMu>>

\* Types whose ComputeSpec does not scan.
ComputeSpec(c) ==
    /\ pc[c] = "compute" /\ Preprocessor(req[c]).from # "scan"
    /\ Goto(c, "sanitize") /\ AppendSpec(c, Finds(c, "files"))
    /\ Quiet /\ UNCHANGED <<fatal, err, slots, resMu>>

ComputeSpecFails(c) ==
    /\ pc[c] = "compute" /\ Preprocessor(req[c]).compute # "none"
    /\ StageFailed(c, "error")
    /\ fatal' = [fatal EXCEPT ![c] = Preprocessor(req[c]).compute = "fatal"]
    /\ Quiet /\ UNCHANGED <<spec, slots, resMu>>

\* ResourceDir runs the compiler while it holds resourceDirsMu.
ResourceDir(c) ==
    /\ pc[c] = "compute" /\ Preprocessor(req[c]).from = "scan" /\ ~resMu
    /\ resMu' = TRUE /\ Goto(c, "compiler")
    /\ Quiet /\ UNCHANGED <<spec, fatal, err, slots>>

UnlockForgotten == resMu' = TRUE
Unlock == resMu' = FALSE
CompilerAnswers(c) ==
    /\ pc[c] = "compiler" /\ Unlock /\ Goto(c, "lookup")
    /\ Quiet /\ UNCHANGED <<spec, fatal, err, slots>>

\* A hit needs no slot.  (A compile that names no source file is not scanned;
\* Deps are those of one that does.)
GetFromDepsCache(c) ==
    /\ pc[c] = "lookup"
    /\ \/ Goto(c, "sanitize") /\ AppendSpec(c, Deps)
       \/ Goto(c, "slot") /\ UNCHANGED spec
    /\ Quiet /\ UNCHANGED <<fatal, err, slots, resMu>>

AcquireSlot(c) ==
    /\ pc[c] = "slot" /\ slots > 0
    /\ slots' = slots - 1 /\ Goto(c, "scan")
    /\ Quiet /\ UNCHANGED <<spec, fatal, err, resMu>>

SlotWaitCancelled(c) ==
    /\ pc[c] = "slot" /\ ctx[c]
    /\ Shallow(c) /\ StageFailed(c, "error")
    /\ Quiet /\ UNCHANGED <<fatal, slots, resMu>>

ScanReturns(c) ==
    /\ pc[c] = "scan" /\ slots' = slots + 1
    /\ AppendSpec(c, Deps) /\ Goto(c, "sanitize")
    /\ Quiet /\ UNCHANGED <<fatal, err, resMu>>

\* The slot is released by a deferred function, also when the scan times out
\* (ip_timeout), is cancelled or fails.
Release == slots' = slots + 1
ScanFails(c) ==
    /\ pc[c] = "scan" /\ Release
    /\ Shallow(c) /\ \E e \in {"error", "timeout"} : StageFailed(c, e)
    /\ Quiet /\ UNCHANGED <<fatal, resMu>>

\* Inputs that do not exist are dropped; Spec() returns a fatal error.
Sanitize(c) ==
    /\ pc[c] = "sanitize" /\ Goto(c, "finished")
    /\ spec' = [spec EXCEPT ![c].inputs = {f \in @ : f \in Deps => tree[f] # 0}]
    /\ err' = [err EXCEPT ![c] = IF fatal[c] THEN "error" ELSE "none"]
    /\ Quiet /\ UNCHANGED <<fatal, slots, resMu>>

Goroutine(c) ==
    \/ ParseFlags(c) \/ ParseFlagsFails(c)
    \/ ProcessToolchains(c) \/ ProcessToolchainsFails(c)
    \/ ComputeSpec(c) \/ ComputeSpecFails(c)
    \/ ResourceDir(c) \/ CompilerAnswers(c) \/ GetFromDepsCache(c)
    \/ AcquireSlot(c) \/ SlotWaitCancelled(c) \/ ScanReturns(c) \/ ScanFails(c)
    \/ Sanitize(c)

-----------------------------------------------------------------------------
(* The handler: ProcessInputs' select, then the strategy.                  *)

\* The client goes away or the reclient timeout of a remote action expires.
Cancel(c) ==
    /\ wait[c] = "processing" /\ ~ctx[c]
    /\ ctx' = [ctx EXCEPT ![c] = TRUE]
    /\ UNCHANGED <<shared, proc, wait, found, outcome>>

\* A command whose inputs are known goes to its strategy: remote execution
\* takes the spec, LOCAL looks in the cache.  An error runs the command
\* locally (LOCAL and REMOTE_LOCAL_FALLBACK) or is its result.
ProcessInputsReturns(c) ==
    /\ wait[c] = "processing" /\ pc[c] = "finished"
    /\ wait' = [wait EXCEPT ![c] = IF err[c] # "none" THEN "failed"
                                     ELSE IF req[c].strat = "LOCAL" THEN "lerc" ELSE "remote"]
    /\ UNCHANGED <<shared, proc, ctx, found, outcome>>

ContextDone(c) ==
    /\ wait[c] = "processing" /\ ctx[c]
    /\ wait' = [wait EXCEPT ![c] = "failed"]
    /\ UNCHANGED <<shared, proc, ctx, found, outcome>>

-----------------------------------------------------------------------------
(* LOCAL: the remote cache and the deps file.                              *)

\* The deps file is validated and stored only for shallow inputs of a command
\* that emits a .d file; it is then an output of the command.
HasDepsFileNever(s) == FALSE
HasDepsFile(s) == s.shallow /\ s.dfile

\* What the action digest covers: the command with its outputs and the digests
\* of its inputs.
Key(c, s, t) == [cmd |-> c, req |-> req[c], deps |-> HasDepsFile(s),
                 inputs |-> s.inputs, digests |-> Contents(t, s.inputs \cap Deps)]

\* GetCachedResult; with download_regex set no output is downloaded before the
\* validation, the deps file included.
GetCachedResult(c) ==
    /\ wait[c] = "lerc"
    /\ \/ \E a \in ac :
            /\ a.key = Key(c, spec[c], tree)
            /\ found' = [found EXCEPT ![c] = [read |-> a.read, deps |-> a.deps,
                                                 dropped |-> a.dropped, hit |-> TRUE]]
            /\ depsFile' = IF HasDepsFile(spec[c]) /\ ~DownloadRegex
                           THEN [depsFile EXCEPT ![c] = a.deps] ELSE depsFile
            /\ wait' = [wait EXCEPT ![c] = "verify"]
       \/ /\ \A a \in ac : a.key # Key(c, spec[c], tree)
          /\ wait' = [wait EXCEPT ![c] = "local"] /\ UNCHANGED <<depsFile, found>>
    /\ UNCHANGED <<tree, builds, elsewhere, ac, proc, ctx, outcome>>

\* VerifyDepsFile: every line must agree with the file on disk, a missing
\* file with the not-found marker (0).  A deps file that is missing is an error,
\* one without lines agrees.
VerifyDepsFile(f) == f # NoFile /\ \A d \in DOMAIN f : tree[d] = f[d]

CachedResultValid(c) == HasDepsFile(spec[c]) => VerifyDepsFile(depsFile[c])

AcceptCachedResult(c) ==
    /\ wait[c] = "verify" /\ CachedResultValid(c)
    /\ wait' = [wait EXCEPT ![c] = "done"]
    /\ outcome' = [outcome EXCEPT ![c] = "cached"]
    /\ UNCHANGED <<shared, proc, ctx, found>>

RejectCachedResult(c) ==
    /\ wait[c] = "verify" /\ ~CachedResultValid(c)
    /\ wait' = [wait EXCEPT ![c] = "local"]
    /\ UNCHANGED <<shared, proc, ctx, found, outcome>>

\* What the tool reads and what its .d file lists: every dependency that is
\* there, and possibly files that are gone by the time it is parsed.  The deps
\* file leaves out what the .d file names by an absolute path that is not below
\* the working directory, and files whose digest cannot be computed.
Result(c, s, t, gone, drop) ==
    [key |-> Key(c, s, t), read |-> Contents(t, Present(t)), dropped |-> drop,
     deps |-> IF HasDepsFile(s) THEN Contents(t, (Present(t) \cup gone) \ drop) ELSE NoFile]
Results(c, s, t) ==
    UNION {{Result(c, s, t, gone, drop) : gone \in SUBSET (Deps \ Present(t))} : drop \in Unlisted}

\* runLocal and cacheLocal: the deps file is written before the result is
\* stored under the action's key; a failed run or do_not_cache stores nothing.
RunLocal(c) ==
    /\ wait[c] = "local"
    /\ \/ \E r \in Results(c, spec[c], tree) :
            /\ depsFile' = IF HasDepsFile(spec[c]) THEN [depsFile EXCEPT ![c] = r.deps]
                           ELSE depsFile
            /\ ac' = {a \in ac : a.key # r.key} \cup {r}
       \/ UNCHANGED <<ac, depsFile>>
    /\ wait' = [wait EXCEPT ![c] = "done"]
    /\ outcome' = [outcome EXCEPT ![c] = "built"]
    /\ UNCHANGED <<tree, builds, elsewhere, proc, ctx, found>>

Strategy(c) == \/ GetCachedResult(c) \/ AcceptCachedResult(c)
               \/ RejectCachedResult(c) \/ RunLocal(c)

Ended == \A c \in Cmds : wait[c] \in {"done", "failed", "remote", "skipped"}

\* The same command on another machine, with another tree and with inputs
\* that may be shallow where ours are not.  What counts is the cache at our
\* lookup, so it suffices to let this happen after a build, before the next.
Elsewhere(c) ==
    /\ elsewhere < MaxElsewhere /\ req[c].strat = "LOCAL" /\ Ended
    /\ \E t \in Trees, sh \in BOOLEAN : LET base == {"src", "tc"} IN
         \E r \in Results(c, [shallow |-> sh, dfile |-> req[c].dfile,
                              inputs |-> IF sh THEN base ELSE base \cup Present(t)], t) :
           ac' = {a \in ac : a.key # r.key} \cup {r}
    /\ elsewhere' = elsewhere + 1
    /\ UNCHANGED <<tree, builds, depsFile, proc, answer>>

\* Everything ended, reproxy is restarted and files were edited in between.
NextBuild ==
    /\ builds < MaxBuilds /\ Ended
    /\ tree' \in Trees /\ builds' = builds + 1
    /\ pc' = [c \in Cmds |-> IF c \in Rebuilt THEN "none" ELSE "finished"]
    /\ wait' = [c \in Cmds |-> IF c \in Rebuilt THEN "none" ELSE "skipped"]
    /\ spec' = [c \in Cmds |-> [inputs |-> {}, shallow |-> FALSE, dfile |-> FALSE]]
    /\ fatal' = [c \in Cmds |-> FALSE] /\ err' = [c \in Cmds |-> "none"]
    /\ ctx' = [c \in Cmds |-> FALSE] /\ slots' = NumSlots /\ resMu' = FALSE
    /\ found' = [c \in Cmds |-> None] /\ outcome' = [c \in Cmds |-> "none"]
    /\ UNCHANGED <<elsewhere, ac, depsFile, req>>

Handler(c) == ProcessInputsReturns(c) \/ ContextDone(c)

Done == /\ builds = MaxBuilds /\ Ended /\ \A c \in Cmds : pc[c] = "finished"
        /\ UNCHANGED vars

Next == \/ \E c \in Cmds : \/ Start(c) \/ Unsupported(c) \/ Goroutine(c) \/ Cancel(c)
                           \/ Handler(c) \/ Strategy(c) \/ Elsewhere(c)
        \/ NextBuild \/ Done

\* The scanner answers, fails or is stopped by a timeout or a cancellation
\* (module DepsScanner); a compiler that is asked for its directory ends.
Fairness == \A c \in Cmds : WF_vars(Goroutine(c)) /\ WF_vars(Handler(c))

Spec == Init /\ [][Next]_vars /\ Fairness

-----------------------------------------------------------------------------

\* What a deps file vouches for, and whether the one on disk is the one of the
\* cached result: with download_regex it may be that of an earlier run.
Unchecked(c) == IF HasDepsFile(spec[c]) THEN found[c].dropped ELSE {}
OwnDepsFile(c) == (DownloadRegex /\ HasDepsFile(spec[c])) => depsFile[c] = found[c].deps

\* A result of the remote cache is accepted only if the dependencies it was
\* built from have, on this machine, the versions it was built from: by the
\* action's key when all inputs were found, by the deps file when they were
\* not, except for what the deps file leaves out (deps/parser.go:141-162): that
\* is never compared.  Stated for the types that flag an incomplete spec as
\* shallow (r8, nacl and archive do not).  A command that emits no .d file has
\* nothing to be validated by: its inputs must be complete, and it must have
\* dependencies, since without any its key is also that of a shallow run.
CachedResultsMatchTree ==
    \A c \in Cmds :
        (/\ outcome[c] = "cached" /\ Type(req[c]) \notin {R8Labels, NaClLabels, LLVMArLabels}
         /\ req[c].dfile \/ (~spec[c].shallow /\ Present(tree) # {})
         /\ OwnDepsFile(c))
          => \A d \in DOMAIN found[c].read \ Unchecked(c) : tree[d] = found[c].read[d]

\* A C++ compile that may not fall back to shallow inputs is sent to remote
\* execution with every dependency that exists, whatever failed or was
\* cancelled on the way, unless its label asks for shallow inputs.
RemoteInputsComplete ==
    \A c \in Cmds :
        (/\ wait[c] = "remote" /\ Type(req[c]) \in {ClangCppLabels, ClangCLCppLabels, NaClLabels}
         /\ req[c].strat \in {"REMOTE", "REMOTE_LOCAL_FALLBACK"} /\ ~ShallowLabel(req[c]))
          => {"src", "tc"} \cup Present(tree) \subseteq spec[c].inputs

\* Every handler that waits for its inputs is answered.
ProcessingEnds ==
    \A c \in Cmds : (wait[c] = "processing") ~> (wait[c] # "processing")
=============================================================================
