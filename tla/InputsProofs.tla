---------------------------- MODULE InputsProofs ----------------------------
(***************************************************************************)
(* Proofs about Inputs, for any commands, requests, dependencies, trees    *)
(* and numbers of builds: what is sent to remote execution is complete,    *)
(* and a result of the remote cache is accepted only if it was built from  *)
(* what is on disk.                                                        *)
(***************************************************************************)
EXTENDS Inputs, TLAPS

Stages == {"none", "parse", "toolchains", "compute", "compiler", "lookup", "slot", "scan",
           "sanitize", "finished"}
Waits == {"none", "processing", "failed", "remote", "lerc", "verify", "local", "done", "skipped"}
Files == {"src", "tc"} \cup Deps
Specs == [inputs : SUBSET Files, shallow : BOOLEAN, dfile : BOOLEAN]

(* The types of what the proofs need.                                      *)
InputsTypes ==
    /\ tree \in Trees
    /\ pc \in [Cmds -> Stages] /\ wait \in [Cmds -> Waits]
    /\ DOMAIN req = Cmds /\ \A c \in Cmds : req[c] \in Requests[c]
    /\ spec \in [Cmds -> Specs] /\ fatal \in [Cmds -> BOOLEAN]
    /\ err \in [Cmds -> {"none", "error", "timeout"}]
    /\ DOMAIN found = Cmds /\ DOMAIN depsFile = Cmds
    /\ outcome \in [Cmds -> {"none", "cached", "built"}]

(* How far the goroutine and the handler of a command can be apart.        *)
InStep(c) ==
    /\ wait[c] = "none" => pc[c] = "none"
    /\ wait[c] \in {"remote", "lerc", "verify", "local", "done"} => pc[c] = "finished" /\ err[c] = "none"
    /\ pc[c] \notin {"none", "finished"} => Supported(req[c])
    /\ outcome[c] = "cached" => wait[c] = "done"

(* The commands that may not fall back to shallow inputs.                  *)
MustBeComplete(c) ==
    /\ Type(req[c]) \in {ClangCppLabels, ClangCLCppLabels, NaClLabels}
    /\ req[c].strat \in {"REMOTE", "REMOTE_LOCAL_FALLBACK"}
    /\ ~ShallowLabel(req[c])
Complete(c) == {"src", "tc"} \cup Present(tree) \subseteq spec[c].inputs

(* What such a command has found at each stage.                            *)
FoundSoFar(c) ==
    MustBeComplete(c) =>
        /\ pc[c] \in {"parse", "toolchains"} => ~spec[c].shallow
        /\ pc[c] = "toolchains" => "src" \in spec[c].inputs
        /\ pc[c] \in {"compute", "compiler", "lookup", "slot", "scan"} => {"src", "tc"} \subseteq spec[c].inputs
        /\ pc[c] = "sanitize" => Files \subseteq spec[c].inputs
        /\ (pc[c] = "finished" /\ wait[c] = "processing" /\ err[c] = "none") => Complete(c)
        /\ wait[c] = "remote" => Complete(c)

(* The action types whose preprocessors say so when a spec is incomplete.  *)
Flagged(r) == Type(r) \notin {R8Labels, NaClLabels, LLVMArLabels}

(* The inputs of s are all dependencies of tree t, or none of them.        *)
AllOrNone(s, t) == s.inputs \cap Deps \in {{}, Present(t)}
Trusted(s, r, t) ==
    /\ s.dfile = r.dfile /\ AllOrNone(s, t)
    /\ s.shallow \/ s.inputs \cap Deps = Present(t)

(* A spec of a flagged type says that it is shallow unless it is complete. *)
ShallowIsFlagged(c) ==
    Flagged(req[c]) =>
        /\ pc[c] \in {"toolchains", "compute", "compiler", "lookup", "slot", "scan"} =>
             /\ spec[c].dfile = req[c].dfile
             /\ spec[c].inputs \cap Deps = Finds(c, "flags")
        /\ pc[c] = "sanitize" =>
             \/ fatal[c]
             \/ /\ spec[c].dfile = req[c].dfile
                /\ spec[c].inputs \cap Deps \in {{}, Deps}
                /\ spec[c].shallow \/ Deps \subseteq spec[c].inputs
        /\ (pc[c] = "finished" /\ err[c] = "none" /\ wait[c] \in {"processing", "lerc", "verify", "local"})
             => Trusted(spec[c], req[c], tree)

(* What an entry of the remote cache says of the tree it was built from.   *)
Honest(a) ==
    /\ a.key.deps => \A d \in DOMAIN a.read \ a.dropped : d \in DOMAIN a.deps /\ a.deps[d] = a.read[d]
    /\ (~a.key.deps /\ (a.key.req.dfile \/ a.key.inputs \cap Deps # {})) => a.read = a.key.digests
EntriesHonest == \A a \in ac : Flagged(a.key.req) => Honest(a)

(* What has been looked up and not yet validated.                          *)
ToVerify(c) ==
    (wait[c] = "verify" /\ Flagged(req[c])) =>
        IF HasDepsFile(spec[c])
        THEN OwnDepsFile(c) => \A d \in DOMAIN found[c].read \ found[c].dropped :
                d \in DOMAIN depsFile[c] /\ depsFile[c][d] = found[c].read[d]
        ELSE (req[c].dfile \/ (~spec[c].shallow /\ Present(tree) # {}))
                => found[c].read = Contents(tree, Present(tree))

InputsInv == InputsTypes /\ \A c \in Cmds : InStep(c) /\ FoundSoFar(c)
CacheInv ==
    /\ InputsTypes /\ EntriesHonest /\ CachedResultsMatchTree
    /\ \A c \in Cmds : InStep(c) /\ ShallowIsFlagged(c) /\ ToVerify(c)

-----------------------------------------------------------------------------
(* The preprocessor of a supported request is one of the table's, and the  *)
(* table's entry for its labels.                                           *)
LEMMA TableEntry ==
  ASSUME NEW r, Supported(r)
  PROVE  \E p \in Preprocessors : p[1] = Type(r) /\ Preprocessor(r) = p[2]
<1> DEFINE p == CHOOSE q \in Preprocessors : q[1] = Type(r)
<1>1. p \in Preprocessors /\ p[1] = Type(r)
  BY DEF Supported
<1>2. Preprocessor(r) = p[2]
  BY DEF Preprocessor
<1> QED BY <1>1, <1>2

(* The languages of the action types: "cpp" is what is scanned.            *)
LEMMA Languages ==
  /\ ClangCppLabels.lang = "cpp" /\ ClangCLCppLabels.lang = "cpp" /\ NaClLabels.lang = "cpp"
  /\ ClangLintLabels.lang = "cpp" /\ HeaderAbiDumpLabels.lang = "" /\ ToolLabels.lang = ""
  /\ SignAPKLabels.lang = "" /\ JavacLabels.lang = "java" /\ MetalavaLabels.lang = "java"
  /\ TscLabels.lang = "typescript" /\ R8Labels.lang = "" /\ D8Labels.lang = ""
  /\ ClangLinkLabels.lang = "" /\ NaClLinkLabels.lang = "" /\ LLVMArLabels.lang = ""
BY DEF L, ToolLabels, SignAPKLabels, ClangCppLabels, ClangCLCppLabels, NaClLabels, JavacLabels,
   MetalavaLabels,
   TscLabels, R8Labels, D8Labels, ClangLinkLabels, NaClLinkLabels, LLVMArLabels, ClangLintLabels,
   HeaderAbiDumpLabels

(* C++ compiles are scanned, and may not fall back when they are remote.   *)
LEMMA CppTypes ==
  ASSUME NEW r, Type(r) \in {ClangCppLabels, ClangCLCppLabels, NaClLabels}
  PROVE  /\ Supported(r) /\ Preprocessor(r).from = "scan"
         /\ r.strat \in {"REMOTE", "REMOTE_LOCAL_FALLBACK"} => ~ShallowFallback(r)
<1>1. Supported(r)
  BY DEF Supported, Preprocessors
<1>2. PICK p \in Preprocessors : p[1] = Type(r) /\ Preprocessor(r) = p[2]
  BY <1>1, TableEntry
<1>3. \/ p[2].from = "scan"
      \/ p[1] \in {ToolLabels, SignAPKLabels, D8Labels, R8Labels, MetalavaLabels, ClangLinkLabels,
                   NaClLinkLabels, JavacLabels, LLVMArLabels, TscLabels}
  BY DEF Preprocessors, PP, Cppcompile, Clangcl, Nacl, Clanglint, Headerabi, R8, Typescript,
     Metalava,
     D8, Tool, Javac, Clanglink, Archive
<1>4. Type(r) \notin {ToolLabels, SignAPKLabels, D8Labels, R8Labels, MetalavaLabels, ClangLinkLabels,
                     NaClLinkLabels, JavacLabels, LLVMArLabels, TscLabels}
  BY Languages
<1>5. r.strat \in {"REMOTE", "REMOTE_LOCAL_FALLBACK"} => ~ShallowFallback(r)
  BY DEF ShallowFallback, ShallowFallbackConfig
<1> QED BY <1>1, <1>2, <1>3, <1>4, <1>5

(* A flagged type records its errors as fatal; the dependencies of a       *)
(* command come from its flags, from files or from a scan.                 *)
LEMMA FlaggedTypes ==
  ASSUME NEW r, Supported(r)
  PROVE  /\ Preprocessor(r).from \in {"scan", "files", "flags"}
         /\ Flagged(r) => Preprocessor(r).parse = "fatal" /\ Preprocessor(r).compute \in {"none", "fatal"}
<1>1. PICK p \in Preprocessors : p[1] = Type(r) /\ Preprocessor(r) = p[2]
  BY TableEntry
<1>2. p[2].from \in {"scan", "files", "flags"}
  BY <1>1 DEF Preprocessors, PP, Cppcompile, Clangcl, Nacl, Clanglint, Headerabi, R8, Typescript,
     Metalava,
     D8, Tool, Javac, Clanglink, Archive
<1>3. p[1] \notin {R8Labels, NaClLabels, LLVMArLabels} => p[2].parse = "fatal" /\ p[2].compute \in {"none", "fatal"}
  BY DEF Preprocessors, PP, Cppcompile, Clangcl, Nacl, Clanglint, Headerabi, R8, Typescript,
     Metalava,
     D8, Tool, Javac, Clanglink, Archive
<1> QED BY <1>1, <1>2, <1>3 DEF Flagged

-----------------------------------------------------------------------------
USE DEF Stages, Waits, Specs

(* Every initial state has the types.                                      *)
LEMMA TypesInit == Init => InputsTypes
<1> SUFFICES ASSUME Init PROVE InputsTypes
  OBVIOUS
<1>1. spec \in [Cmds -> Specs] /\ fatal \in [Cmds -> BOOLEAN]
  BY DEF Init
<1> QED BY <1>1 DEF Init, InputsTypes

(* What the goroutine does to a spec: it marks it as shallow, or adds      *)
(* inputs to it.                                                           *)
LEMMA SpecSteps ==
  ASSUME InputsTypes, NEW c \in Cmds
  PROVE  /\ Shallow(c) => /\ spec' \in [Cmds -> Specs] /\ \A b \in Cmds \ {c} : spec'[b] = spec[b]
                          /\ spec'[c].shallow /\ spec'[c].inputs = spec[c].inputs /\ spec'[c].dfile = spec[c].dfile
         /\ \A S \in SUBSET Files : AppendSpec(c, S) =>
              /\ spec' \in [Cmds -> Specs] /\ \A b \in Cmds \ {c} : spec'[b] = spec[b]
              /\ spec'[c].inputs = spec[c].inputs \cup S
              /\ spec'[c].shallow = spec[c].shallow /\ spec'[c].dfile = spec[c].dfile
<1> USE DEF InputsTypes
<1>1. ASSUME Shallow(c)
      PROVE  /\ spec' \in [Cmds -> Specs] /\ \A b \in Cmds \ {c} : spec'[b] = spec[b]
             /\ spec'[c].shallow /\ spec'[c].inputs = spec[c].inputs /\ spec'[c].dfile = spec[c].dfile
  BY <1>1, ZenonT(30) DEF Shallow
<1>2. ASSUME NEW S \in SUBSET Files, AppendSpec(c, S)
      PROVE  /\ spec' \in [Cmds -> Specs] /\ \A b \in Cmds \ {c} : spec'[b] = spec[b]
             /\ spec'[c].inputs = spec[c].inputs \cup S
             /\ spec'[c].shallow = spec[c].shallow /\ spec'[c].dfile = spec[c].dfile
  BY <1>2 DEF AppendSpec
<1> QED BY <1>1, <1>2

(* The spec after the flags are parsed.                                    *)
LEMMA ParsedSpec ==
  ASSUME InputsTypes, NEW c \in Cmds, FlagsToActionSpec(c)
  PROVE  /\ spec' \in [Cmds -> Specs] /\ \A b \in Cmds \ {c} : spec'[b] = spec[b]
         /\ spec'[c].inputs = {"src"} \cup Finds(c, "flags")
         /\ spec'[c].shallow = spec[c].shallow /\ spec'[c].dfile = req[c].dfile
<1> DEFINE I == {"src"} \cup Finds(c, "flags")
           s == [spec EXCEPT ![c].inputs = I]
<1>1. I \in SUBSET Files /\ req[c].dfile \in BOOLEAN
  BY InputsAssumption DEF Finds, Files, IsRequest, InputsTypes
<1>2. spec' = [s EXCEPT ![c].dfile = req[c].dfile]
  BY DEF FlagsToActionSpec
<1> HIDE DEF I
<1>3. /\ s \in [Cmds -> Specs] /\ \A b \in Cmds \ {c} : s[b] = spec[b]
      /\ s[c].inputs = I /\ s[c].shallow = spec[c].shallow
  BY <1>1 DEF InputsTypes
<1> HIDE DEF s
<1>4. /\ spec' \in [Cmds -> Specs] /\ \A b \in Cmds \ {c} : spec'[b] = s[b]
      /\ spec'[c].inputs = s[c].inputs /\ spec'[c].shallow = s[c].shallow /\ spec'[c].dfile = req[c].dfile
  BY <1>1, <1>2, <1>3
<1> QED BY <1>3, <1>4 DEF I

(* Every step keeps them.                                                  *)
LEMMA TypesStep ==
  ASSUME InputsTypes, [Next]_vars
  PROVE  InputsTypes'
<1> USE DEF InputsTypes, shared, proc, answer, Quiet, Goto
<1>1. ASSUME NEW c \in Cmds, Start(c) \/ Unsupported(c) PROVE InputsTypes'
  <2>1. ShallowLabel(req[c]) \in BOOLEAN
    BY DEF ShallowLabel
  <2>2. spec' \in [Cmds -> Specs]
    <3>1. CASE Start(c)
      BY <2>1, <3>1 DEF Start
    <3>2. CASE Unsupported(c)
      BY <3>2 DEF Unsupported
    <3> QED BY <1>1, <3>1, <3>2
  <2> QED BY <1>1, <2>2 DEF Start, Unsupported
<1>2. ASSUME NEW c \in Cmds, Goroutine(c) PROVE InputsTypes'
  <2>1. req[c].dfile \in BOOLEAN
    BY InputsAssumption DEF IsRequest
  <2>2. CASE ParseFlags(c)
    <3>1. spec' \in [Cmds -> Specs]
      BY <2>2, ParsedSpec DEF ParseFlags
    <3> QED BY <2>2, <3>1 DEF ParseFlags
  <2>3. CASE ParseFlagsFails(c) \/ ComputeSpecFails(c)
    BY <2>3, ZenonT(30) DEF ParseFlagsFails, ComputeSpecFails, StageFailed
  <2>4. CASE ProcessToolchains(c) \/ ComputeSpec(c) \/ GetFromDepsCache(c) \/ ScanReturns(c)
    <3>1. spec' = spec \/ \E S \in SUBSET Files : AppendSpec(c, S)
      BY <2>4 DEF ProcessToolchains, ComputeSpec, GetFromDepsCache, ScanReturns, Finds, Files
    <3>2. spec' \in [Cmds -> Specs]
      BY <3>1, SpecSteps
    <3>3. pc' \in [Cmds -> Stages]
      BY <2>4, ZenonT(30) DEF ProcessToolchains, ComputeSpec, GetFromDepsCache, ScanReturns
    <3>4. UNCHANGED <<shared, answer, req, fatal, err>>
      BY <2>4 DEF ProcessToolchains, ComputeSpec, GetFromDepsCache, ScanReturns
    <3> QED BY <3>2, <3>3, <3>4
  <2>5. CASE ProcessToolchainsFails(c) \/ SlotWaitCancelled(c) \/ ScanFails(c)
    <3>1. Shallow(c) /\ UNCHANGED <<shared, answer, req, fatal>>
      BY <2>5 DEF ProcessToolchainsFails, SlotWaitCancelled, ScanFails, StageFailed
    <3>2. spec' \in [Cmds -> Specs]
      BY <3>1, SpecSteps
    <3>3. \E e \in {"error", "timeout"} : StageFailed(c, e)
      BY <2>5 DEF ProcessToolchainsFails, SlotWaitCancelled, ScanFails
    <3>4. pc' \in [Cmds -> Stages] /\ err' \in [Cmds -> {"none", "error", "timeout"}]
      BY <3>3, SMTT(30) DEF StageFailed
    <3> QED BY <3>1, <3>2, <3>4
  <2>6. CASE ResourceDir(c) \/ CompilerAnswers(c) \/ AcquireSlot(c)
    BY <2>6 DEF ResourceDir, CompilerAnswers, AcquireSlot
  <2>7. CASE Sanitize(c)
    BY <2>7 DEF Sanitize
  <2> QED BY <1>2, <2>2, <2>3, <2>4, <2>5, <2>6, <2>7 DEF Goroutine
<1>3. ASSUME NEW c \in Cmds, Cancel(c) \/ Handler(c) PROVE InputsTypes'
  BY <1>3 DEF Cancel, Handler, ProcessInputsReturns, ContextDone
<1>4. ASSUME NEW c \in Cmds, Strategy(c) PROVE InputsTypes'
  <2>1. CASE GetCachedResult(c)
    BY <2>1 DEF GetCachedResult
  <2>2. CASE AcceptCachedResult(c) \/ RejectCachedResult(c)
    BY <2>2, SMTT(30) DEF AcceptCachedResult, RejectCachedResult
  <2>3. CASE RunLocal(c)
    BY <2>3 DEF RunLocal
  <2> QED BY <1>4, <2>1, <2>2, <2>3 DEF Strategy
<1>5. ASSUME NEW c \in Cmds, Elsewhere(c) PROVE InputsTypes'
  BY <1>5 DEF Elsewhere
<1>6. CASE NextBuild
  <2>1. spec' \in [Cmds -> Specs] /\ fatal' \in [Cmds -> BOOLEAN]
    BY <1>6 DEF NextBuild
  <2> QED BY <1>6, <2>1 DEF NextBuild
<1>7. CASE UNCHANGED vars
  BY <1>7 DEF vars
<1> QED BY <1>1, <1>2, <1>3, <1>4, <1>5, <1>6, <1>7 DEF Next, Done

-----------------------------------------------------------------------------
(* The steps of a command.                                                 *)
CommandStep(c) ==
    Start(c) \/ Unsupported(c) \/ Goroutine(c) \/ Cancel(c) \/ Handler(c) \/ Strategy(c)

(* They leave the tree, and what belongs to other commands, alone.         *)
LEMMA OthersKeep ==
  ASSUME InputsTypes, NEW c \in Cmds, CommandStep(c)
  PROVE  /\ UNCHANGED <<tree, req>>
         /\ \A b \in Cmds \ {c} :
              /\ pc'[b] = pc[b] /\ wait'[b] = wait[b] /\ spec'[b] = spec[b] /\ fatal'[b] = fatal[b]
              /\ err'[b] = err[b] /\ found'[b] = found[b] /\ depsFile'[b] = depsFile[b]
              /\ outcome'[b] = outcome[b]
<1> USE DEF InputsTypes, shared, proc, answer, Quiet, Goto
<1>1. CASE Start(c) \/ Unsupported(c) \/ Cancel(c) \/ Handler(c)
  BY <1>1 DEF Start, Unsupported, Cancel, Handler, ProcessInputsReturns, ContextDone
<1>2. CASE Goroutine(c)
  <2>1. UNCHANGED <<shared, answer, req>>
    BY <1>2 DEF Goroutine, ParseFlags, ParseFlagsFails, ProcessToolchains,
       ProcessToolchainsFails, ComputeSpec,
       ComputeSpecFails, ResourceDir, CompilerAnswers, GetFromDepsCache, AcquireSlot,
       SlotWaitCancelled,
       ScanReturns, ScanFails, Sanitize
  <2>2. \A b \in Cmds \ {c} : pc'[b] = pc[b] /\ err'[b] = err[b] /\ fatal'[b] = fatal[b]
    BY <1>2 DEF Goroutine, ParseFlags, ParseFlagsFails, ProcessToolchains,
       ProcessToolchainsFails, ComputeSpec,
       ComputeSpecFails, ResourceDir, CompilerAnswers, GetFromDepsCache, AcquireSlot,
       SlotWaitCancelled,
       ScanReturns, ScanFails, Sanitize, StageFailed
  <2>3. \A b \in Cmds \ {c} : spec'[b] = spec[b]
    BY <1>2 DEF Goroutine, ParseFlags, ParseFlagsFails, ProcessToolchains,
       ProcessToolchainsFails, ComputeSpec,
       ComputeSpecFails, ResourceDir, CompilerAnswers, GetFromDepsCache, AcquireSlot,
       SlotWaitCancelled,
       ScanReturns, ScanFails, Sanitize, FlagsToActionSpec, AppendSpec, Shallow
  <2> QED BY <2>1, <2>2, <2>3
<1>3. CASE Strategy(c)
  <2>1. CASE GetCachedResult(c)
    BY <2>1 DEF GetCachedResult
  <2>2. CASE AcceptCachedResult(c) \/ RejectCachedResult(c)
    BY <2>2 DEF AcceptCachedResult, RejectCachedResult
  <2>3. CASE RunLocal(c)
    BY <2>3 DEF RunLocal
  <2> QED BY <1>3, <2>1, <2>2, <2>3 DEF Strategy
<1> QED BY <1>1, <1>2, <1>3 DEF CommandStep

(* How the goroutine moves on: to a stage of its own or to its end.        *)
LEMMA GoroutineMoves ==
  ASSUME InputsTypes, NEW c \in Cmds, Goroutine(c)
  PROVE  /\ pc[c] \notin {"none", "finished"} /\ pc'[c] \notin {"none", "parse"}
         /\ UNCHANGED <<wait, outcome, req, found, depsFile, ac, tree>>
<1> USE DEF InputsTypes, shared, proc, answer, Quiet, Goto
<1> QED
    BY DEF Goroutine, ParseFlags, ParseFlagsFails, ProcessToolchains, ProcessToolchainsFails,
       ComputeSpec,
       ComputeSpecFails, ResourceDir, CompilerAnswers, GetFromDepsCache, AcquireSlot,
       SlotWaitCancelled,
       ScanReturns, ScanFails, Sanitize, StageFailed

(* Goroutine and handler stay in step.                                     *)
LEMMA InStepKept ==
  ASSUME InputsTypes, \A c \in Cmds : InStep(c), [Next]_vars
  PROVE  (\A c \in Cmds : InStep(c))'
<1> USE DEF InStep
<1>1. ASSUME NEW c \in Cmds, CommandStep(c) PROVE \A b \in Cmds : InStep(b)'
  <2>1. \A b \in Cmds \ {c} : InStep(b)'
    BY <1>1, OthersKeep
  <2> USE DEF InputsTypes, shared, proc, answer, Quiet, Goto
  <2>2. CASE Start(c) \/ Unsupported(c) \/ Cancel(c) \/ Handler(c)
    BY <2>1, <2>2 DEF Start, Unsupported, Cancel, Handler, ProcessInputsReturns, ContextDone
  <2>3. CASE Goroutine(c)
    BY <2>1, <2>3, GoroutineMoves
  <2>4. CASE Strategy(c)
    BY <2>1, <2>4 DEF Strategy, GetCachedResult, AcceptCachedResult, RejectCachedResult, RunLocal
  <2> QED BY <1>1, <2>2, <2>3, <2>4 DEF CommandStep
<1>2. CASE NextBuild
  BY <1>2 DEF NextBuild
<1>3. ASSUME NEW c \in Cmds, Elsewhere(c) PROVE \A b \in Cmds : InStep(b)'
  BY <1>3 DEF Elsewhere, proc, answer
<1>4. CASE UNCHANGED vars
  BY <1>4 DEF vars, proc, answer
<1> QED BY <1>1, <1>2, <1>3, <1>4 DEF Next, Done, CommandStep

-----------------------------------------------------------------------------
(* What a command that must be complete has found is kept by every stage,  *)
(* and a stage that fails ends with an error.                              *)
LEMMA FoundSoFarKept ==
  ASSUME InputsTypes, InputsTypes', \A c \in Cmds : InStep(c) /\ FoundSoFar(c), [Next]_vars
  PROVE  (\A c \in Cmds : FoundSoFar(c))'
<1>1. ASSUME NEW c \in Cmds, CommandStep(c) PROVE \A b \in Cmds : FoundSoFar(b)'
  <2>1. \A b \in Cmds \ {c} : FoundSoFar(b)'
    BY <1>1, OthersKeep DEF FoundSoFar, MustBeComplete, Complete, Present
  <2>2. UNCHANGED <<tree, req>>
    BY <1>1, OthersKeep
  <2> SUFFICES ASSUME MustBeComplete(c) PROVE FoundSoFar(c)'
    BY <2>1, <2>2 DEF FoundSoFar, MustBeComplete
  <2>3. ~ShallowFallback(req[c]) /\ Preprocessor(req[c]).from = "scan" /\ Supported(req[c])
    BY CppTypes DEF MustBeComplete
  <2>4. InStep(c) /\ FoundSoFar(c)
    OBVIOUS
  <2> USE DEF InputsTypes, shared, proc, answer, Quiet, Goto
  <2>5. ASSUME NEW e \in {"error", "timeout"}, StageFailed(c, e)
        PROVE  pc'[c] = "finished" /\ err'[c] # "none"
    BY <2>3, <2>5 DEF StageFailed
  <2>6. CASE Start(c) \/ Unsupported(c)
    <3>1. CASE Start(c)
      BY <2>2, <3>1 DEF Start, FoundSoFar, MustBeComplete
    <3>2. CASE Unsupported(c)
      BY <2>3, <3>2 DEF Unsupported
    <3> QED BY <2>6, <3>1, <3>2
  <2>7. CASE Cancel(c) \/ Handler(c)
    BY <2>2, <2>4, <2>7 DEF Cancel, Handler, ProcessInputsReturns, ContextDone, FoundSoFar,
       MustBeComplete, Complete, Present
  <2>8. CASE Strategy(c)
    BY <2>2, <2>4, <2>8 DEF Strategy, GetCachedResult, AcceptCachedResult, RejectCachedResult,
       RunLocal, FoundSoFar, InStep
  <2>9. CASE Goroutine(c)
    <3>1. UNCHANGED wait /\ wait[c] # "remote"
      BY <2>4, <2>9, GoroutineMoves DEF InStep
    <3>2. CASE ParseFlagsFails(c) \/ ProcessToolchainsFails(c) \/ ComputeSpecFails(c)
                 \/ SlotWaitCancelled(c) \/ ScanFails(c)
      <4>1. \E e \in {"error", "timeout"} : StageFailed(c, e)
        BY <3>2 DEF ParseFlagsFails, ProcessToolchainsFails, ComputeSpecFails, SlotWaitCancelled,
           ScanFails
      <4>2. pc'[c] = "finished" /\ err'[c] # "none"
        BY <2>5, <4>1
      <4> QED BY <3>1, <4>2 DEF FoundSoFar
    <3>3. CASE ParseFlags(c)
      <4>1. pc'[c] = "toolchains" /\ pc[c] = "parse"
        BY <3>3 DEF ParseFlags
      <4>2. "src" \in spec'[c].inputs /\ spec'[c].shallow = spec[c].shallow
        BY <3>3, ParsedSpec DEF ParseFlags
      <4> QED BY <2>4, <3>1, <4>1, <4>2 DEF FoundSoFar
    <3>4. CASE ProcessToolchains(c)
      <4>1. pc'[c] = "compute"
        BY <2>4, <3>4 DEF ProcessToolchains, FoundSoFar
      <4>2. {"src", "tc"} \subseteq spec'[c].inputs
        <5>1. AppendSpec(c, {"tc"}) /\ "src" \in spec[c].inputs
          BY <2>4, <3>4 DEF ProcessToolchains, FoundSoFar
        <5>2. {"tc"} \in SUBSET Files
          BY DEF Files
        <5> QED BY <5>1, <5>2, SpecSteps
      <4> QED BY <3>1, <4>1, <4>2 DEF FoundSoFar
    <3>5. CASE ComputeSpec(c)
      BY <2>3, <3>5 DEF ComputeSpec
    <3>6. CASE ResourceDir(c) \/ CompilerAnswers(c) \/ AcquireSlot(c)
      <4>1. pc'[c] \in {"compiler", "lookup", "scan"} /\ spec' = spec /\ pc[c] \in {"compute", "compiler", "slot"}
        BY <3>6 DEF ResourceDir, CompilerAnswers, AcquireSlot
      <4> QED BY <2>4, <3>1, <4>1 DEF FoundSoFar
    <3>7. CASE GetFromDepsCache(c) \/ ScanReturns(c)
      <4>1. \/ pc'[c] = "sanitize" /\ AppendSpec(c, Deps)
            \/ pc'[c] = "slot" /\ spec' = spec
        BY <3>7 DEF GetFromDepsCache, ScanReturns
      <4>2. {"src", "tc"} \subseteq spec[c].inputs
        BY <2>4, <3>7 DEF GetFromDepsCache, ScanReturns, FoundSoFar
      <4>3. CASE pc'[c] = "sanitize" /\ AppendSpec(c, Deps)
        <5>1. spec'[c].inputs = spec[c].inputs \cup Deps
          BY <4>3, SpecSteps DEF Files
        <5> QED BY <3>1, <4>2, <4>3, <5>1 DEF FoundSoFar, Files
      <4>4. CASE pc'[c] = "slot" /\ spec' = spec
        BY <3>1, <4>2, <4>4 DEF FoundSoFar
      <4> QED BY <4>1, <4>3, <4>4
    <3>8. CASE Sanitize(c)
      <4>1. Files \subseteq spec[c].inputs
        BY <2>4, <3>8 DEF Sanitize, FoundSoFar
      <4>2. spec'[c].inputs = {f \in spec[c].inputs : f \in Deps => tree[f] # 0} /\ pc'[c] = "finished"
        BY <3>8 DEF Sanitize
      <4>3. Complete(c)'
        BY <2>2, <4>1, <4>2, InputsAssumption DEF Complete, Present, Files
      <4> QED BY <3>1, <4>2, <4>3 DEF FoundSoFar
    <3> QED BY <2>9, <3>2, <3>3, <3>4, <3>5, <3>6, <3>7, <3>8 DEF Goroutine
  <2> QED BY <1>1, <2>6, <2>7, <2>8, <2>9 DEF CommandStep
<1>2. CASE NextBuild
  BY <1>2 DEF NextBuild, FoundSoFar
<1>3. ASSUME NEW c \in Cmds, Elsewhere(c) PROVE \A b \in Cmds : FoundSoFar(b)'
  BY <1>3 DEF Elsewhere, proc, answer, FoundSoFar, MustBeComplete, Complete, Present
<1>4. CASE UNCHANGED vars
  BY <1>4 DEF vars, shared, proc, answer, FoundSoFar, MustBeComplete, Complete, Present
<1> QED BY <1>1, <1>2, <1>3, <1>4 DEF Next, Done, CommandStep

(* A C++ compile that may not fall back is sent to remote execution with   *)
(* every dependency that exists, whatever failed on the way                *)
(* (inputprocessor.go: Compute).                                           *)
THEOREM InputsAreComplete == Spec => []RemoteInputsComplete
<1>1. Init => InputsInv
  <2> SUFFICES ASSUME Init PROVE InputsInv
    OBVIOUS
  <2>1. \A c \in Cmds : InStep(c) /\ FoundSoFar(c)
    BY DEF Init, InStep, FoundSoFar
  <2> QED BY <2>1, TypesInit DEF InputsInv
<1>2. InputsInv /\ [Next]_vars => InputsInv'
  BY TypesStep, InStepKept, FoundSoFarKept DEF InputsInv
<1>3. InputsInv => RemoteInputsComplete
  BY DEF InputsInv, FoundSoFar, MustBeComplete, Complete, RemoteInputsComplete
<1> QED BY <1>1, <1>2, <1>3, PTL DEF Spec

-----------------------------------------------------------------------------
(* A spec of a flagged type that is not flagged as shallow is complete.    *)
LEMMA ShallowIsFlaggedKept ==
  ASSUME InputsTypes, InputsTypes', \A c \in Cmds : InStep(c) /\ ShallowIsFlagged(c), [Next]_vars
  PROVE  (\A c \in Cmds : ShallowIsFlagged(c))'
<1>1. ASSUME NEW c \in Cmds, CommandStep(c) PROVE \A b \in Cmds : ShallowIsFlagged(b)'
  <2>1. UNCHANGED <<tree, req>>
    BY <1>1, OthersKeep
  <2>2. ASSUME NEW b \in Cmds \ {c} PROVE ShallowIsFlagged(b)'
    <3>1. Trusted(spec[b], req[b], tree)' = Trusted(spec[b], req[b], tree) /\ Finds(b, "flags")' = Finds(b, "flags")
      BY <1>1, <2>1, OthersKeep DEF Trusted, AllOrNone, Present, Finds
    <3> QED BY <1>1, <2>1, <3>1, OthersKeep DEF ShallowIsFlagged
  <2> SUFFICES ASSUME Flagged(req[c]) PROVE ShallowIsFlagged(c)'
    BY <2>1, <2>2 DEF ShallowIsFlagged
  <2>3. InStep(c) /\ ShallowIsFlagged(c)
    OBVIOUS
  <2>4. "src" \notin Deps /\ "tc" \notin Deps
    BY InputsAssumption
  <2>5. /\ Finds(c, "flags") = (IF Preprocessor(req[c]).from = "flags" THEN Deps ELSE {})
        /\ Finds(c, "flags")' = Finds(c, "flags")
    BY <2>1 DEF Finds
  <2> USE DEF InputsTypes, shared, proc, answer, Quiet, Goto
  <2>6. CASE Start(c) \/ Unsupported(c) \/ Cancel(c)
    BY <2>1, <2>3, <2>5, <2>6 DEF Start, Unsupported, Cancel, ShallowIsFlagged, Trusted,
       AllOrNone, Present, InStep
  <2>7. CASE Handler(c) \/ Strategy(c)
    <3>1. /\ UNCHANGED <<spec, pc, err, fatal>>
          /\ wait'[c] \in {"lerc", "verify", "local"} => wait[c] \in {"processing", "lerc", "verify"} /\ pc[c] = "finished"
          /\ wait'[c] # "processing" /\ wait[c] \in {"processing", "lerc", "verify", "local"}
      BY <2>3, <2>7 DEF Handler, ProcessInputsReturns, ContextDone, Strategy, GetCachedResult,
         AcceptCachedResult,
         RejectCachedResult, RunLocal, InStep
    <3>2. Trusted(spec[c], req[c], tree)' = Trusted(spec[c], req[c], tree)
      BY <2>1, <3>1 DEF Trusted, AllOrNone, Present
    <3> QED BY <2>1, <2>3, <2>5, <3>1, <3>2 DEF ShallowIsFlagged
  <2>8. CASE Goroutine(c)
    <3>1. UNCHANGED wait /\ Supported(req[c]) /\ pc[c] \notin {"none", "finished"}
      BY <2>3, <2>8, GoroutineMoves DEF InStep
    <3>2. /\ Preprocessor(req[c]).from \in {"scan", "files", "flags"}
          /\ Preprocessor(req[c]).parse = "fatal" /\ Preprocessor(req[c]).compute \in {"none", "fatal"}
      BY <3>1, FlaggedTypes
    <3>3. ASSUME NEW e \in {"error", "timeout"}, StageFailed(c, e)
          PROVE  pc'[c] = "sanitize" \/ (pc'[c] = "finished" /\ err'[c] # "none")
      BY <3>3 DEF StageFailed
    <3>4. CASE ParseFlagsFails(c) \/ ComputeSpecFails(c)
      <4>1. fatal'[c]
        BY <3>2, <3>4 DEF ParseFlagsFails, ComputeSpecFails
      <4>2. StageFailed(c, "error")
        BY <3>4 DEF ParseFlagsFails, ComputeSpecFails
      <4> QED BY <3>3, <4>1, <4>2 DEF ShallowIsFlagged
    <3>5. CASE ProcessToolchainsFails(c) \/ SlotWaitCancelled(c) \/ ScanFails(c)
      <4>1. Shallow(c) /\ pc[c] \in {"toolchains", "slot", "scan"} /\ \E e \in {"error", "timeout"} : StageFailed(c, e)
        BY <3>5 DEF ProcessToolchainsFails, SlotWaitCancelled, ScanFails
      <4>2. spec'[c].shallow /\ spec'[c].inputs = spec[c].inputs /\ spec'[c].dfile = spec[c].dfile
        BY <4>1, SpecSteps
      <4>3. pc'[c] = "sanitize" \/ (pc'[c] = "finished" /\ err'[c] # "none")
        BY <3>3, <4>1
      <4>4. spec[c].dfile = req[c].dfile /\ spec[c].inputs \cap Deps \in {{}, Deps}
        BY <2>3, <2>5, <4>1 DEF ShallowIsFlagged
      <4> QED BY <2>1, <4>2, <4>3, <4>4 DEF ShallowIsFlagged
    <3>6. CASE ParseFlags(c)
      <4>1. pc'[c] = "toolchains"
        BY <3>6 DEF ParseFlags
      <4>2. spec'[c].inputs = {"src"} \cup Finds(c, "flags") /\ spec'[c].dfile = req[c].dfile
        BY <3>6, ParsedSpec DEF ParseFlags
      <4>3. spec'[c].inputs \cap Deps = Finds(c, "flags")
        BY <2>4, <2>5, <4>2
      <4> QED BY <2>1, <2>5, <4>1, <4>2, <4>3 DEF ShallowIsFlagged
    <3>7. CASE ProcessToolchains(c)
      <4>1. /\ AppendSpec(c, {"tc"}) /\ pc[c] = "toolchains"
            /\ pc'[c] = IF spec[c].shallow THEN "sanitize" ELSE "compute"
        BY <3>7 DEF ProcessToolchains
      <4>2. {"tc"} \in SUBSET Files
        BY DEF Files
      <4>3. /\ spec'[c].inputs = spec[c].inputs \cup {"tc"} /\ spec'[c].shallow = spec[c].shallow
            /\ spec'[c].dfile = spec[c].dfile
        BY <4>1, <4>2, SpecSteps
      <4>4. spec'[c].dfile = req[c].dfile /\ spec'[c].inputs \cap Deps = Finds(c, "flags")
        BY <2>3, <2>4, <4>1, <4>3 DEF ShallowIsFlagged
      <4> QED BY <2>1, <2>5, <4>1, <4>3, <4>4 DEF ShallowIsFlagged
    <3>8. CASE ComputeSpec(c) \/ GetFromDepsCache(c) \/ ScanReturns(c)
      <4>1. \/ pc'[c] = "sanitize" /\ \E S \in {{}, Deps} : AppendSpec(c, S) /\ (S = {} => Finds(c, "flags") = Deps)
            \/ pc'[c] = "slot" /\ spec' = spec
        <5>1. CASE ComputeSpec(c)
          <6>1. pc'[c] = "sanitize" /\ AppendSpec(c, Finds(c, "files")) /\ Preprocessor(req[c]).from # "scan"
            BY <5>1 DEF ComputeSpec
          <6> QED BY <2>5, <3>2, <6>1 DEF Finds
        <5>2. CASE GetFromDepsCache(c) \/ ScanReturns(c)
          BY <2>5, <5>2, ZenonT(30) DEF GetFromDepsCache, ScanReturns
        <5> QED BY <3>8, <5>1, <5>2
      <4>2. spec[c].dfile = req[c].dfile /\ spec[c].inputs \cap Deps = Finds(c, "flags")
        BY <2>3, <3>8 DEF ComputeSpec, GetFromDepsCache, ScanReturns, ShallowIsFlagged
      <4>3. CASE pc'[c] = "slot" /\ spec' = spec
        BY <2>1, <2>5, <4>2, <4>3 DEF ShallowIsFlagged
      <4>4. ASSUME NEW S \in {{}, Deps}, AppendSpec(c, S), S = {} => Finds(c, "flags") = Deps, pc'[c] = "sanitize"
            PROVE  ShallowIsFlagged(c)'
        <5>1. S \in SUBSET Files
          BY DEF Files
        <5>2. spec'[c].inputs = spec[c].inputs \cup S /\ spec'[c].dfile = spec[c].dfile
          BY <4>4, <5>1, SpecSteps
        <5>3. Deps \subseteq spec'[c].inputs
          BY <4>2, <4>4, <5>2
        <5> QED BY <2>1, <4>2, <4>4, <5>2, <5>3 DEF ShallowIsFlagged
      <4> QED BY <4>1, <4>3, <4>4
    <3>9. CASE ResourceDir(c) \/ CompilerAnswers(c) \/ AcquireSlot(c)
      <4>1. pc'[c] \in {"compiler", "lookup", "scan"} /\ spec' = spec /\ pc[c] \in {"compute", "compiler", "slot"}
        BY <3>9 DEF ResourceDir, CompilerAnswers, AcquireSlot
      <4> QED BY <2>1, <2>3, <2>5, <4>1 DEF ShallowIsFlagged
    <3>10. CASE Sanitize(c)
      <4>1. /\ spec'[c].inputs = {f \in spec[c].inputs : f \in Deps => tree[f] # 0} /\ pc'[c] = "finished"
            /\ spec'[c].shallow = spec[c].shallow /\ spec'[c].dfile = spec[c].dfile /\ pc[c] = "sanitize"
            /\ err'[c] = IF fatal[c] THEN "error" ELSE "none"
        BY <3>10 DEF Sanitize
      <4>2. CASE fatal[c]
        BY <4>1, <4>2 DEF ShallowIsFlagged
      <4>3. CASE ~fatal[c]
        <5>1. /\ spec[c].dfile = req[c].dfile /\ spec[c].inputs \cap Deps \in {{}, Deps}
              /\ spec[c].shallow \/ Deps \subseteq spec[c].inputs
          BY <2>3, <4>1, <4>3 DEF ShallowIsFlagged
        <5>2. spec'[c].inputs \cap Deps = {f \in spec[c].inputs \cap Deps : tree[f] # 0}
          BY <4>1
        <5>3. \/ spec'[c].inputs \cap Deps = {} /\ spec[c].shallow
              \/ spec'[c].inputs \cap Deps = Present(tree)
          BY <5>1, <5>2 DEF Present
        <5>4. Trusted(spec'[c], req[c], tree)
          BY <4>1, <5>1, <5>3 DEF Trusted, AllOrNone
        <5>5. Trusted(spec[c], req[c], tree)'
          BY <2>1, <5>4 DEF Trusted, AllOrNone, Present
        <5> QED BY <4>1, <5>5 DEF ShallowIsFlagged
      <4> QED BY <4>2, <4>3
    <3> QED BY <2>8, <3>4, <3>5, <3>6, <3>7, <3>8, <3>9, <3>10 DEF Goroutine
  <2> QED BY <1>1, <2>6, <2>7, <2>8 DEF CommandStep
<1>2. CASE NextBuild
  BY <1>2 DEF NextBuild, ShallowIsFlagged
<1>3. ASSUME UNCHANGED <<tree, proc, answer>> PROVE \A b \in Cmds : ShallowIsFlagged(b)'
  BY <1>3 DEF proc, answer, ShallowIsFlagged, Finds, Trusted, AllOrNone, Present
<1>4. ASSUME NEW c \in Cmds, Elsewhere(c) PROVE UNCHANGED <<tree, proc, answer>>
  BY <1>4 DEF Elsewhere
<1>5. CASE UNCHANGED vars
  BY <1>3, <1>5 DEF vars, shared
<1> QED BY <1>1, <1>2, <1>3, <1>4, <1>5 DEF Next, Done, CommandStep

-----------------------------------------------------------------------------
(* What a run stores, field by field.                                      *)
Stored(r, c, s, t) ==
    /\ r.key.req = req[c] /\ r.key.deps = HasDepsFile(s) /\ r.key.inputs = s.inputs
    /\ r.key.digests = Contents(t, s.inputs \cap Deps) /\ r.read = Contents(t, Present(t))
    /\ HasDepsFile(s) => \E gone \in SUBSET (Deps \ Present(t)) : r.deps = Contents(t, (Present(t) \cup gone) \ r.dropped)

(* Every result is of this form.                                           *)
LEMMA ResultFields ==
  ASSUME NEW c \in Cmds, NEW s, NEW t, NEW r \in Results(c, s, t)
  PROVE  Stored(r, c, s, t)
<1>1. PICK gone \in SUBSET (Deps \ Present(t)), drop \in Unlisted :
         r = Result(c, s, t, gone, drop)
  BY Zenon DEF Results
<1>2. /\ r.key = Key(c, s, t) /\ r.read = Contents(t, Present(t))
      /\ HasDepsFile(s) => r.deps = Contents(t, (Present(t) \cup gone) \ r.dropped)
  BY <1>1 DEF Result
<1>3. /\ r.key.req = req[c] /\ r.key.deps = HasDepsFile(s) /\ r.key.inputs = s.inputs
      /\ r.key.digests = Contents(t, s.inputs \cap Deps)
  BY <1>2 DEF Key
<1> QED BY <1>2, <1>3 DEF Stored

(* It is honest about the tree it saw.                                     *)
LEMMA ResultsHonest ==
  ASSUME NEW c \in Cmds, NEW s, NEW t, Trusted(s, req[c], t), NEW r \in Results(c, s, t)
  PROVE  Honest(r)
<1>0. Stored(r, c, s, t)
  BY ResultFields
<1>1. /\ r.key.req = req[c] /\ r.key.deps = HasDepsFile(s) /\ r.key.inputs = s.inputs
      /\ r.key.digests = Contents(t, s.inputs \cap Deps) /\ r.read = Contents(t, Present(t))
      /\ HasDepsFile(s) => \E gone \in SUBSET (Deps \ Present(t)) : r.deps = Contents(t, (Present(t) \cup gone) \ r.dropped)
  BY <1>0 DEF Stored
<1>2. CASE HasDepsFile(s)
  <2>1. \A d \in DOMAIN r.read \ r.dropped : d \in DOMAIN r.deps /\ r.deps[d] = r.read[d]
    BY <1>1, <1>2, ZenonT(30) DEF Contents
  <2> QED BY <1>1, <1>2, <2>1 DEF Honest
<1>3. CASE ~HasDepsFile(s)
  <2>1. ASSUME req[c].dfile \/ s.inputs \cap Deps # {} PROVE s.inputs \cap Deps = Present(t)
    BY <1>3, <2>1 DEF Trusted, AllOrNone, HasDepsFile
  <2> QED BY <1>1, <1>3, <2>1 DEF Honest
<1> QED BY <1>2, <1>3

(* The entries of the remote cache stay honest, also those of others.      *)
LEMMA EntriesHonestKept ==
  ASSUME InputsTypes, \A c \in Cmds : InStep(c) /\ ShallowIsFlagged(c), EntriesHonest, [Next]_vars
  PROVE  EntriesHonest'
<1>1. ASSUME ac' = ac PROVE EntriesHonest'
  BY <1>1 DEF EntriesHonest, Honest
<1>2. ASSUME NEW r, ac' = {a \in ac : a.key # r.key} \cup {r}, Flagged(r.key.req) => Honest(r)
      PROVE  EntriesHonest'
  BY <1>2 DEF EntriesHonest, Honest
<1>3. ASSUME NEW c \in Cmds, CommandStep(c) PROVE EntriesHonest'
  <2>1. CASE RunLocal(c)
    <3>1. CASE ac' = ac
      BY <1>1, <3>1
    <3>2. CASE \E r \in Results(c, spec[c], tree) : ac' = {a \in ac : a.key # r.key} \cup {r}
      <4>1. PICK r \in Results(c, spec[c], tree) : ac' = {a \in ac : a.key # r.key} \cup {r}
        BY <3>2
      <4>2. r.key.req = req[c]
        <5>1. Stored(r, c, spec[c], tree)
          BY ResultFields
        <5> QED BY <5>1 DEF Stored
      <4>3. Flagged(req[c]) => Trusted(spec[c], req[c], tree)
        BY <2>1 DEF RunLocal, InStep, ShallowIsFlagged
      <4>4. Flagged(r.key.req) => Honest(r)
        BY <4>2, <4>3, ResultsHonest
      <4> QED BY <1>2, <4>1, <4>4
    <3> QED BY <2>1, <3>1, <3>2 DEF RunLocal
  <2>2. CASE ~RunLocal(c)
    <3>1. ac' = ac
      <4>1. CASE Goroutine(c)
        BY <4>1, GoroutineMoves
      <4> QED BY <1>3, <2>2, <4>1 DEF CommandStep, Start, Unsupported, Cancel, Handler,
                 ProcessInputsReturns, ContextDone,
              Strategy, GetCachedResult, AcceptCachedResult, RejectCachedResult, shared
    <3> QED BY <1>1, <3>1
  <2> QED BY <2>1, <2>2
<1>4. ASSUME NEW c \in Cmds, Elsewhere(c) PROVE EntriesHonest'
  <2>1. PICK t \in Trees, sh \in BOOLEAN :
          \E r \in Results(c, [shallow |-> sh, dfile |-> req[c].dfile,
                               inputs |-> IF sh THEN {"src", "tc"} ELSE {"src", "tc"} \cup Present(t)], t) :
            ac' = {a \in ac : a.key # r.key} \cup {r}
    BY <1>4 DEF Elsewhere
  <2> DEFINE s == [shallow |-> sh, dfile |-> req[c].dfile,
                   inputs |-> IF sh THEN {"src", "tc"} ELSE {"src", "tc"} \cup Present(t)]
  <2>2. PICK r \in Results(c, s, t) : ac' = {a \in ac : a.key # r.key} \cup {r}
    BY <2>1
  <2>3. s.dfile = req[c].dfile /\ s.shallow = sh /\ s.inputs = IF sh THEN {"src", "tc"} ELSE {"src", "tc"} \cup Present(t)
    OBVIOUS
  <2> HIDE DEF s
  <2>4. s.inputs \cap Deps = IF sh THEN {} ELSE Present(t)
    BY <2>3, InputsAssumption DEF Present
  <2>5. Trusted(s, req[c], t)
    BY <2>3, <2>4 DEF Trusted, AllOrNone
  <2>6. Honest(r)
    BY <2>5, ResultsHonest
  <2> QED BY <1>2, <2>2, <2>6
<1>5. CASE NextBuild \/ UNCHANGED vars
  BY <1>1, <1>5 DEF NextBuild, vars, shared
<1> QED BY <1>3, <1>4, <1>5 DEF Next, Done, CommandStep

(* What is looked up and then validated is what the tree has.              *)
LEMMA CachedKept ==
  ASSUME CacheInv, [Next]_vars
  PROVE  CachedResultsMatchTree' /\ (\A c \in Cmds : ToVerify(c))'
<1> DEFINE Match(c) ==
      (/\ outcome[c] = "cached" /\ Type(req[c]) \notin {R8Labels, NaClLabels, LLVMArLabels}
       /\ req[c].dfile \/ (~spec[c].shallow /\ Present(tree) # {})
       /\ OwnDepsFile(c))
         => \A d \in DOMAIN found[c].read \ Unchecked(c) : tree[d] = found[c].read[d]
<1>1. InputsTypes /\ EntriesHonest /\ \A c \in Cmds : InStep(c) /\ ShallowIsFlagged(c) /\ ToVerify(c) /\ Match(c)
  BY DEF CacheInv, CachedResultsMatchTree
<1> SUFFICES \A b \in Cmds : ToVerify(b)' /\ Match(b)'
  BY DEF CachedResultsMatchTree
<1>2. ASSUME NEW b \in Cmds, UNCHANGED <<tree, req>>, wait'[b] = wait[b], spec'[b] = spec[b], found'[b] = found[b],
             depsFile'[b] = depsFile[b], outcome'[b] = outcome[b]
      PROVE  ToVerify(b)' /\ Match(b)'
  BY <1>1, <1>2 DEF ToVerify, Flagged, HasDepsFile, Present, Contents, OwnDepsFile, Unchecked
<1>3. ASSUME NEW c \in Cmds, CommandStep(c) PROVE \A b \in Cmds : ToVerify(b)' /\ Match(b)'
  <2>1. UNCHANGED <<tree, req>> /\ \A b \in Cmds \ {c} : ToVerify(b)' /\ Match(b)'
    BY <1>1, <1>2, <1>3, OthersKeep
  <2>2. InStep(c) /\ ShallowIsFlagged(c) /\ ToVerify(c) /\ Match(c) /\ InputsTypes
    BY <1>1
  <2> SUFFICES ToVerify(c)' /\ Match(c)'
    BY <2>1
  <2>3. CASE wait'[c] # "verify" /\ outcome'[c] # "cached"
    BY <2>3 DEF ToVerify
  <2>4. CASE Start(c) \/ Unsupported(c) \/ Cancel(c) \/ Handler(c) \/ RejectCachedResult(c)
               \/ RunLocal(c)
    <3>1. wait'[c] # "verify" /\ outcome'[c] # "cached"
      BY <2>2, <2>4 DEF Start, Unsupported, Cancel, Handler, ProcessInputsReturns, ContextDone,
         RejectCachedResult,
         RunLocal, InStep, InputsTypes
    <3> QED BY <2>3, <3>1
  <2>5. CASE Goroutine(c)
    <3>1. wait'[c] # "verify" /\ outcome'[c] # "cached"
      BY <2>2, <2>5, GoroutineMoves DEF InStep
    <3> QED BY <2>3, <3>1
  <2>6. CASE GetCachedResult(c)
    <3>1. wait[c] = "lerc" /\ outcome'[c] # "cached" /\ UNCHANGED <<spec, outcome>>
      BY <2>2, <2>6 DEF GetCachedResult, InStep, proc
    <3>2. SUFFICES ASSUME wait'[c] = "verify", Flagged(req[c]) PROVE ToVerify(c)'
      BY <2>1, <3>1 DEF ToVerify, Flagged
    <3>3. PICK a \in ac : /\ a.key = Key(c, spec[c], tree)
                          /\ found' = [found EXCEPT ![c] = [read |-> a.read, deps |-> a.deps,
                                                               dropped |-> a.dropped, hit |-> TRUE]]
                          /\ (HasDepsFile(spec[c]) /\ ~DownloadRegex) => depsFile' = [depsFile EXCEPT ![c] = a.deps]
      BY <2>2, <2>6, <3>2 DEF GetCachedResult, InputsTypes
    <3>4. /\ found'[c].read = a.read /\ found'[c].dropped = a.dropped
          /\ (HasDepsFile(spec[c]) /\ OwnDepsFile(c)') => depsFile'[c] = a.deps
      BY <2>2, <3>1, <3>3, InputsAssumption DEF InputsTypes, OwnDepsFile, HasDepsFile
    <3>5. /\ a.key.req = req[c] /\ a.key.deps = HasDepsFile(spec[c]) /\ a.key.inputs = spec[c].inputs
          /\ a.key.digests = Contents(tree, spec[c].inputs \cap Deps)
      BY <3>3 DEF Key
    <3>6. Honest(a)
      BY <1>1, <3>2, <3>3, <3>5 DEF EntriesHonest
    <3>7. Trusted(spec[c], req[c], tree)
      BY <2>2, <3>1, <3>2 DEF InStep, ShallowIsFlagged
    <3>8. CASE HasDepsFile(spec[c])
      BY <3>1, <3>4, <3>5, <3>6, <3>8 DEF Honest, ToVerify, HasDepsFile
    <3>9. CASE ~HasDepsFile(spec[c])
      <4>1. ASSUME req[c].dfile \/ (~spec[c].shallow /\ Present(tree) # {})
            PROVE  a.read = Contents(tree, Present(tree))
        <5>1. spec[c].inputs \cap Deps = Present(tree)
          BY <3>7, <3>9, <4>1 DEF Trusted, AllOrNone, HasDepsFile
        <5> QED BY <3>5, <3>6, <3>9, <4>1, <5>1 DEF Honest
      <4> QED BY <2>1, <3>1, <3>4, <3>9, <4>1 DEF ToVerify, HasDepsFile, Present, Contents
    <3> QED BY <3>8, <3>9
  <2>7. CASE AcceptCachedResult(c)
    <3>1. wait[c] = "verify" /\ wait'[c] = "done" /\ UNCHANGED <<spec, found>> /\ CachedResultValid(c)
      BY <2>2, <2>7 DEF AcceptCachedResult, InputsTypes, proc
    <3>2. SUFFICES ASSUME Flagged(req[c]), req[c].dfile \/ (~spec[c].shallow /\ Present(tree) # {}),
                          OwnDepsFile(c)
                   PROVE  \A d \in DOMAIN found[c].read \ Unchecked(c) : tree[d] = found[c].read[d]
      BY <2>1, <2>7, <3>1 DEF ToVerify, Flagged, Present, OwnDepsFile, Unchecked, HasDepsFile, AcceptCachedResult, shared
    <3>3. CASE HasDepsFile(spec[c])
      BY <2>2, <3>1, <3>2, <3>3 DEF ToVerify, CachedResultValid, VerifyDepsFile, Unchecked
    <3>4. CASE ~HasDepsFile(spec[c])
      BY <2>2, <3>1, <3>2, <3>4 DEF ToVerify, Contents, Unchecked
    <3> QED BY <3>3, <3>4
  <2> QED BY <1>3, <2>4, <2>5, <2>6, <2>7 DEF CommandStep, Strategy
<1>4. CASE NextBuild
  <2>1. ASSUME NEW b \in Cmds PROVE wait'[b] # "verify" /\ outcome'[b] # "cached"
    BY <1>4 DEF NextBuild
  <2> QED BY <2>1 DEF ToVerify
<1>5. ASSUME NEW c \in Cmds, Elsewhere(c) PROVE \A b \in Cmds : ToVerify(b)' /\ Match(b)'
  BY <1>2, <1>5 DEF Elsewhere, proc, answer
<1>6. CASE UNCHANGED vars
  BY <1>2, <1>6 DEF vars, shared, proc, answer
<1> QED BY <1>3, <1>4, <1>5, <1>6 DEF Next, Done, CommandStep

(* A result of the remote cache is accepted only if it was built from the  *)
(* versions that are on disk of all that its deps file lists (action.go:   *)
(* getCachedResult; deps/parser.go: VerifyDepsFile), whatever deps files   *)
(* leave out; with download_regex, if the deps file on disk is its own.    *)
THEOREM CachedResultsAreFresh == Spec => []CachedResultsMatchTree
<1>1. Init => CacheInv
  <2> SUFFICES ASSUME Init PROVE CacheInv
    OBVIOUS
  <2>1. \A c \in Cmds : InStep(c) /\ ShallowIsFlagged(c) /\ ToVerify(c)
    BY DEF Init, InStep, ShallowIsFlagged, ToVerify
  <2>2. EntriesHonest /\ CachedResultsMatchTree
    BY DEF Init, EntriesHonest, CachedResultsMatchTree
  <2> QED BY <2>1, <2>2, TypesInit DEF CacheInv
<1>2. CacheInv /\ [Next]_vars => CacheInv'
  BY TypesStep, InStepKept, ShallowIsFlaggedKept, EntriesHonestKept, CachedKept DEF CacheInv
<1>3. CacheInv => CachedResultsMatchTree
  BY DEF CacheInv
<1> QED BY <1>1, <1>2, <1>3, PTL DEF Spec
=============================================================================
