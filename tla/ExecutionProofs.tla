--------------------------- MODULE ExecutionProofs ---------------------------
(***************************************************************************)
(* Proofs about Execution: what an action leaves in the exec root, in the  *)
(* file metadata cache, in the log and in the remote cache, for every set  *)
(* of outputs, every request and every number of reruns.                   *)
(*                                                                         *)
(* The properties speak of the end of an action.  The invariants below say *)
(* what is true at every place of RunCommand on the way there.             *)
(***************************************************************************)
EXTENDS Execution, TLAPS

LercPcs   == {"lercInputs", "lercCache", "lercLocal", "lercUpload", "lercCheck"}
RemotePcs == {"inputs", "exec", "download", "move", "compareEnd", "remoteEnd", "fallback"}
EndPcs    == {"clear", "ran", "remoteReruns", "localReruns", "log", "finished"}

(* Where nothing has run locally yet.  Nor has anything been written to    *)
(* the exec root, unless a cached result of LERC was downloaded and then   *)
(* refused.                                                                *)
Early == {"runAction", "lercInputs", "lercCache", "lercLocal",
          "inputs", "exec", "download", "race"}

(* The strategy decides the way through RunCommand; a fallback is counted  *)
(* at its end at most once, and the local reruns are counted.              *)
PathInv ==
  /\ pc \in LercPcs => req.strategy = "LOCAL" /\ ~req.remoteDisabled
  /\ pc \in RemotePcs =>
       req.strategy \in {"REMOTE", "REMOTE_LOCAL_FALLBACK"} /\ ~req.remoteDisabled
  /\ pc = "fallback" => req.strategy = "REMOTE_LOCAL_FALLBACK"
  /\ pc = "race" => req.strategy = "RACING" /\ ~req.remoteDisabled
  /\ pc \in {"remoteReruns", "localReruns"} => req.compare
  /\ pc \in Early \union LercPcs \union RemotePcs => fallbacks = 0
  /\ pc \notin {"localReruns", "log", "finished"} => lruns = 0
  /\ lruns <= req.local
  /\ pc \in {"log", "finished"} /\ req.compare => lruns = req.local

(* What a.res and the record say of who ran the action.                    *)
ResInv ==
  /\ pc \in Early \union RemotePcs => ~ranLocally
  /\ pc = "lercUpload" => ranLocally
  /\ ranLocally => res \in {"success", "nonZero", "localErr"}
  /\ res = "success" /\ req.strategy = "LOCAL" => ranLocally
  /\ pc \in {"download", "move", "compareEnd"} => res \in Ok
  /\ pc \in {"lercCheck", "remoteEnd", "fallback"} \union EndPcs => res # "none"
  /\ pc = "fallback" => res \notin Ok /\ fallback \notin Ok \union {"none"}
  /\ ranLocally /\ req.strategy = "REMOTE_LOCAL_FALLBACK" /\ ~req.remoteDisabled =>
       fallbacks = 1 /\ fallback \notin Ok \union {"none"}
  /\ pc = "finished" => status = CompletionStatus(res, req.strategy, ranLocally)

(* The exec root is as it was until the first write; with atomic downloads *)
(* that is the move.                                                       *)
Untouched == \A o \in Outputs : files[o] = IF o \in InOut THEN "orig" ELSE "old"
FilesInv ==
  /\ pc \in Early \ {"lercLocal"} => Untouched
  /\ pc = "move" => Untouched /\ req.atomic
  /\ pc \in {"remoteEnd", "fallback"} /\ res \notin Ok /\ req.atomic /\ req.fault # "move" =>
       Untouched
  /\ pc \in {"download", "move", "compareEnd"} => made \in {"remote", "remoteDirty"}

(* SuccessHasOutputs, from the moment the outputs are in place.            *)
OutputsInv ==
  (/\ pc \in {"lercUpload", "lercCheck", "compareEnd", "remoteEnd"} \union EndPcs
   /\ res \in Ok
   /\ ~req.compare /\ req.fault \notin {"flatten", "lercDownload"}) => HasOutputs

(* Whose outputs the exec root holds.                                      *)
LocalContent == {"local", "localDirty"}
OwnerInv ==
  ~req.compare =>
    /\ ranLocally /\ res = "success" => \A o \in Outputs : files[o] \in LocalContent
    /\ ~ranLocally /\ (pc \notin EndPcs \/ res \in Ok) =>
         \A o \in Outputs : files[o] \notin LocalContent

(* The local fallback never reads a remote in-out file.                    *)
FallbackInv ==
  (req.strategy = "REMOTE_LOCAL_FALLBACK" /\ req.atomic /\ ~req.compare /\ req.fault # "move") =>
    \A o \in Outputs : files[o] # "localDirty"

(* The stash of compare mode holds the original files, and no in-out file  *)
(* is ever missing.                                                        *)
StashInv ==
  /\ \A i \in 1..MaxReruns : rr[i] \in {"off", "exec", "done", "remote", "remoteDirty"}
  /\ \A f \in InOut : stash[f] # "none"
  /\ ~(req.compare /\ req.fault \in {"stash", "restore"}) =>
       /\ req.compare /\ pc \in {"exec", "download", "move", "compareEnd"} =>
            \A f \in InOut : stash[f] = "orig"
       /\ \A f \in InOut : files[f] # "none"

(* After a remote success every rerun is given the original files.         *)
Replayed ==
  /\ req.strategy \in {"REMOTE", "REMOTE_LOCAL_FALLBACK"} /\ req.compare /\ ~req.regex
  /\ req.fault \notin {"stash", "restore"} /\ res \in Ok /\ ~ranLocally
ViewsInv ==
  /\ req.compare /\ ~req.regex => \A i \in 1..MaxReruns : rr[i] \in {"off", "exec", "done"}
  /\ pc \notin {"remoteReruns", "localReruns", "log", "finished", "panicked"} => views = {}
  /\ Replayed =>
       /\ pc \in {"remoteEnd", "clear", "ran", "remoteReruns"} =>
            \A f \in InOut : files[f] = "orig" /\ fmc[f] \in {"unknown", "orig"}
       /\ pc = "localReruns" => \A f \in InOut : stash[f] = "orig"
       /\ FALSE \notin views

(* From the final clearing of the cache on, no digest of an in-out file is *)
(* stale.                                                                  *)
DigestInv ==
  /\ pc = "runAction" => \A f \in InOut : fmc[f] \in {"unknown", "orig"}
  /\ (/\ pc \in EndPcs \ {"clear"} /\ ~req.remoteDisabled
      /\ ~(req.compare /\ req.regex) \/ lruns > 0) =>
       \A f \in InOut : fmc[f] \in {"unknown", files[f]}

-----------------------------------------------------------------------------
(* The operators.                                                          *)

(* A run makes local or remote contents, clean if its inputs were.         *)
LEMMA MadeContent ==
  ASSUME NEW who \in {"local", "remote"}, NEW p
  PROVE  /\ Made("local", p) \in {"local", "localDirty"}
         /\ Made("remote", p) \in {"remote", "remoteDirty"}
         /\ p => Made("local", p) = "local"
         /\ Made(who, p) \in {"local", "localDirty", "remote", "remoteDirty"}
BY DEF Made

(* A local process writes some outputs, all of them if it succeeds.        *)
LEMMA LocalOutcome ==
  ASSUME NEW before \in [Outputs -> Content], NEW x \in LocalOutcomes(before)
  PROVE  /\ x.res \in {"success", "localErr", "nonZero"}
         /\ \E W \in SUBSET Outputs :
              /\ x.files = Write(before, W, Made("local", Pristine(before)))
              /\ x.res = "success" => W = Outputs
<1> DEFINE c == Made("local", Pristine(before))
<1>1. CASE x = [files |-> before, res |-> "localErr"]
  <2>1. Write(before, {}, c) = before
    BY DEF Write
  <2> QED BY <1>1, <2>1
<1>2. CASE x = [files |-> Write(before, Outputs, c),
                res |-> IF ctx = "live" THEN "success" ELSE "localErr"]
  BY <1>2
<1>3. CASE \E W \in SUBSET Outputs : x = [files |-> Write(before, W, c), res |-> "nonZero"]
  BY <1>3
<1> QED BY <1>1, <1>2, <1>3 DEF LocalOutcomes

(* StashFiles copies the files, all of them unless a copy fails.           *)
LEMMA CopiesEffect ==
  ASSUME NEW C \in [Outputs -> Content], NEW s \in Copies(C)
  PROVE  /\ s \in [InOut -> Content \union {"unstashed"}]
         /\ \A f \in InOut : s[f] # "none"
         /\ req.fault # "stash" => \A f \in InOut : C[f] # "none" => s[f] = C[f]
<1>1. PICK L \in SUBSET InOut :
        /\ s = [f \in InOut |-> IF f \in L \/ C[f] = "none" THEN "unstashed" ELSE C[f]]
        /\ req.fault # "stash" => L = {}
  BY DEF Copies
<1>2. \A f \in InOut : C[f] \in Content
  BY DEF Outputs
<1> QED BY <1>1, <1>2 DEF Content

(* Restoring puts the stashed files back, all of them unless a rename      *)
(* fails.                                                                  *)
LEMMA RestoredEffect ==
  ASSUME NEW C \in [Outputs -> Content], stash \in [InOut -> Content \union {"unstashed"}],
         NEW r \in Restored(C)
  PROVE  /\ r \in [Outputs -> Content]
         /\ \A o \in Outputs : r[o] = C[o] \/ (o \in InOut /\ r[o] = stash[o])
         /\ req.fault # "restore" =>
              \A o \in Outputs : r[o] = IF o \in InOut /\ stash[o] # "unstashed" THEN stash[o] ELSE C[o]
<1>1. PICK L \in SUBSET InOut :
        /\ r = [o \in Outputs |-> IF o \in InOut \ L /\ stash[o] # "unstashed" THEN stash[o] ELSE C[o]]
        /\ req.fault # "restore" => L = {}
  BY DEF Restored
<1> QED BY <1>1

(* Digesting the inputs fills the unknown entries of the in-out files.     *)
LEMMA LoadedEffect ==
  ASSUME NEW cache \in [Outputs -> Content \union {"unknown"}], files \in [Outputs -> Content]
  PROVE  /\ Loaded(cache) \in [Outputs -> Content \union {"unknown"}]
         /\ \A f \in InOut : Loaded(cache)[f] = IF cache[f] = "unknown" THEN files[f] ELSE cache[f]
BY DEF Loaded, Outputs

(* What is common to all local runs: some outputs are written, from the    *)
(* in-out files of the moment, all of them if the run succeeds.            *)
LEMMA LocalRunEffect ==
  ASSUME TypeOK, NEW leaks \in BOOLEAN, LocalProcessEnds(leaks)
  PROVE  /\ files' \in [Outputs -> Content]
         /\ res' \in {"success", "localErr", "nonZero"}
         /\ ranLocally' = TRUE /\ env' \in BOOLEAN
         /\ \A o \in Outputs : files'[o] \in LocalContent \union {files[o]}
         /\ Pristine(files) => \A o \in Outputs : files'[o] \in {"local", files[o]}
         /\ res' = "success" => \A o \in Outputs : files'[o] \in LocalContent
<1>1. files \in [Outputs -> Content] /\ env \in BOOLEAN
  BY DEF TypeOK
<1>2. PICK x \in LocalOutcomes(files) : files' = x.files /\ res' = x.res
  BY DEF LocalProcessEnds
<1> DEFINE c == Made("local", Pristine(files))
<1>3. PICK W \in SUBSET Outputs : files' = Write(files, W, c) /\ (res' = "success" => W = Outputs)
  BY <1>1, <1>2, LocalOutcome
<1>4. /\ c \in LocalContent /\ c \in Content
      /\ Pristine(files) => c = "local"
  BY MadeContent DEF LocalContent, Content
<1> HIDE DEF c
<1>5. files' \in [Outputs -> Content] /\ \A o \in Outputs : files'[o] = IF o \in W THEN c ELSE files[o]
  BY <1>1, <1>3, <1>4 DEF Write
<1>6. res' \in {"success", "localErr", "nonZero"}
  BY <1>1, <1>2, LocalOutcome
<1>7. ranLocally' = TRUE /\ env' \in BOOLEAN
  BY <1>1, Zenon DEF LocalProcessEnds
<1> QED BY <1>3, <1>4, <1>5, <1>6, <1>7

-----------------------------------------------------------------------------
(* The way through RunCommand.                                             *)

(* The fields of a request that the proofs compare.                        *)
LEMMA RequestFields ==
  ASSUME req \in Requests
  PROVE  /\ req.local \in 0..MaxReruns /\ req.remote \in 0..MaxReruns
         /\ req.wrapper \in BOOLEAN /\ req.envVars \in BOOLEAN
         /\ req.strategy \in Strategy
BY ExecutionAssumption DEF Request

(* No step leaves the way that the strategy prescribes.                    *)
LEMMA PathStep ==
  ASSUME TypeOK, PathInv, [Next]_vars
  PROVE  PathInv'
<1> USE DEF PathInv, LercPcs, RemotePcs, Early
<1>0. /\ req \in Requests /\ req.local \in 0..MaxReruns /\ req.strategy \in Strategy
      /\ lruns \in Nat /\ fallbacks \in {0, 1} /\ MaxReruns \in Nat
  BY RequestFields, ExecutionAssumption DEF TypeOK
<1>1. CASE CtxDone \/ ReclientTimeout \/ UNCHANGED vars
  BY <1>0, <1>1 DEF CtxDone, ReclientTimeout, vars, recVars, rerunVars
<1>2. CASE RunActionStep
  BY <1>0, <1>2 DEF RunActionStep, RunActionRefused, Dispatch, Clear, AfterRunAction, LogRecord,
                    recVars, rerunVars, Strategy
<1>3. CASE LercStep
  BY <1>0, <1>3 DEF LercStep, LercInputsFail, LercInputs, LercCacheMiss, LercCacheHit,
                    CacheLocal, LercDone, recVars, rerunVars
<1>4. CASE RemoteStep
  BY <1>0, <1>4 DEF RemoteStep, InputsFail, InputsTimeoutPanics, Inputs, MoveOutputsFromTemp,
                    MoveFails, CompareEnd, RemoteInterrupted, RemoteEnd, recVars, rerunVars
<1>5. CASE RemoteCall
  BY <1>0, <1>5 DEF RemoteCall, RemoteSucceeds, RemoteFails, FlattenFails, Download, DownloadFails,
                    AfterDownload, recVars, rerunVars
<1>6. CASE LocalProcess
  BY <1>0, <1>6 DEF LocalProcess, RunActionLocally, LercLocal, LercFallback, Fallback, rerunVars
<1>7. CASE RaceStep
  BY <1>0, <1>7 DEF RaceStep, RaceRemoteWins, RaceLocalWins, RaceFails, recVars, rerunVars
<1>8. CASE RerunStep
  BY <1>0, <1>8 DEF RerunStep, RemoteRerun, RemoteRerunPanics, RemoteRerunDownload,
                    RemoteRerunsDone, LocalRerun, LocalRerunsDone, recVars, rerunVars
<1> QED BY <1>1, <1>2, <1>3, <1>4, <1>5, <1>6, <1>7, <1>8 DEF Next

(* Every step keeps the types; that fallbacks and reruns are counted right *)
(* needs the way taken so far.                                             *)
LEMMA TypeStep ==
  ASSUME TypeOK, PathInv, [Next]_vars
  PROVE  TypeOK'
<1> USE DEF TypeOK
<1>0. /\ req.local \in 0..MaxReruns /\ req.wrapper \in BOOLEAN /\ req.envVars \in BOOLEAN
      /\ MaxReruns \in Nat
  BY RequestFields, ExecutionAssumption
<1>1. CASE CtxDone \/ ReclientTimeout \/ UNCHANGED vars
  BY <1>1 DEF CtxDone, ReclientTimeout, FireTimer, vars, fileVars, recVars, rerunVars
<1>2. CASE RunActionStep
  <2>1. CASE RunActionRefused \/ Dispatch
    BY <2>1 DEF RunActionRefused, Dispatch, Result, fileVars, recVars, rerunVars
  <2>2. CASE Clear
    BY <2>2 DEF Clear, ClearInputOutputFileCache, recVars, rerunVars
  <2>3. CASE AfterRunAction
    BY <2>3 DEF AfterRunAction, Duplicate, fileVars, recVars
  <2>4. CASE LogRecord
    BY <2>4 DEF LogRecord, CompletionStatus, Status, fileVars, recVars, rerunVars
  <2> QED BY <1>2, <2>1, <2>2, <2>3, <2>4 DEF RunActionStep
<1>3. CASE LercStep
  <2>1. CASE LercInputsFail \/ LercInputs \/ LercDone
    BY <2>1 DEF LercInputsFail, LercInputs, LercDone, Result, fileVars, recVars, rerunVars
  <2>2. CASE LercCacheMiss
    <3> DEFINE c == Made("remote", Pristine(Loaded(fmc)))
    <3>1. c \in Content
      BY MadeContent DEF Content
    <3>2. PICK W, V : /\ files' = Write(files, W, c) \/ UNCHANGED files
                      /\ fmc' = Write(Loaded(fmc), V, c) \/ fmc' = Loaded(fmc)
      BY <2>2 DEF LercCacheMiss
    <3> HIDE DEF c
    <3>3. Loaded(fmc) \in [Outputs -> Content \union {"unknown"}]
      BY LoadedEffect
    <3>4. files' \in [Outputs -> Content] /\ fmc' \in [Outputs -> Content \union {"unknown"}]
      BY <3>1, <3>2, <3>3 DEF Write
    <3> QED BY <2>2, <3>4 DEF LercCacheMiss, Result, recVars, rerunVars
  <2>3. CASE LercCacheHit
    <3> DEFINE c == Made("remote", Pristine(Loaded(fmc)))
    <3>1. c \in Content
      BY MadeContent DEF Content
    <3>2. Loaded(fmc) \in [Outputs -> Content \union {"unknown"}]
      BY LoadedEffect
    <3>3. files' \in [Outputs -> Content] /\ fmc' \in [Outputs -> Content \union {"unknown"}]
      BY <2>3, <3>1, <3>2 DEF LercCacheHit, Write
    <3> QED BY <2>3, <3>3 DEF LercCacheHit, Result, Ok, recVars, rerunVars
  <2>4. CASE CacheLocal
    BY <2>4 DEF CacheLocal, OutputsToDigest, ClearOutputsCache, recVars, rerunVars
  <2> QED BY <1>3, <2>1, <2>2, <2>3, <2>4 DEF LercStep
<1>4. CASE RemoteStep
  <2>1. CASE InputsFail \/ InputsTimeoutPanics
    BY <2>1 DEF InputsFail, InputsTimeoutPanics, Result, fileVars, recVars, rerunVars
  <2>2. CASE Inputs
    <3>1. stash' \in [InOut -> Content \union {"unstashed"}]
      BY <2>2, CopiesEffect DEF Inputs
    <3> QED BY <2>2, <3>1 DEF Inputs, Result, recVars, rerunVars
  <2>3. CASE MoveOutputsFromTemp \/ MoveFails
    BY <2>3 DEF MoveOutputsFromTemp, MoveFails, Write, Result, recVars, rerunVars
  <2>4. CASE CompareEnd
    <3>1. Write(files, Outputs, "none") \in [Outputs -> Content]
      BY DEF Write, Content
    <3>2. files' \in [Outputs -> Content]
      BY <2>4, <3>1, RestoredEffect DEF CompareEnd
    <3> QED BY <2>4, <3>2 DEF CompareEnd, ClearInputOutputFileCache, recVars, rerunVars
  <2>5. CASE RemoteInterrupted
    BY <2>5 DEF RemoteInterrupted, Write, Result, recVars, rerunVars
  <2>6. CASE RemoteEnd
    BY <2>6 DEF RemoteEnd, Result, fileVars, rerunVars
  <2> QED BY <1>4, <2>1, <2>2, <2>3, <2>4, <2>5, <2>6 DEF RemoteStep
<1>5. CASE RemoteCall
  <2>1. CASE RemoteSucceeds
    <3>1. made' \in Content
      BY <2>1, MadeContent DEF RemoteSucceeds, Content
    <3> QED BY <2>1, <3>1, LoadedEffect DEF RemoteSucceeds, Result, recVars, rerunVars
  <2>2. CASE RemoteFails
    BY <2>2, LoadedEffect DEF RemoteFails, Result, recVars, rerunVars
  <2>3. CASE FlattenFails
    BY <2>3 DEF FlattenFails, fileVars, recVars, rerunVars
  <2>4. CASE Download \/ DownloadFails
    BY <2>4 DEF Download, DownloadFails, AfterDownload, Write, Result, recVars, rerunVars
  <2> QED BY <1>5, <2>1, <2>2, <2>3, <2>4 DEF RemoteCall
<1>6. CASE LocalProcess
  <2>1. /\ files' \in [Outputs -> Content] /\ res' \in Result
        /\ ranLocally' \in BOOLEAN /\ env' \in BOOLEAN
    BY <1>0, <1>6, LocalRunEffect
       DEF LocalProcess, RunActionLocally, LercLocal, LercFallback, Fallback, RunLocal, Result, Ok
  <2>2. fallbacks' \in {0, 1}
    BY <1>6 DEF LocalProcess, RunActionLocally, LercLocal, LercFallback, Fallback,
                CountFallback, PathInv, LercPcs, RemotePcs
  <2> QED BY <1>6, <2>1, <2>2
          DEF LocalProcess, RunActionLocally, LercLocal, LercFallback, Fallback, rerunVars
<1>7. CASE RaceStep
  <2>1. CASE RaceRemoteWins
    <3>1. files' \in [Outputs -> Content]
      BY <2>1, MadeContent DEF RaceRemoteWins, Write, Content
    <3> QED BY <2>1, <3>1, LoadedEffect DEF RaceRemoteWins, Result, recVars, rerunVars
  <2>2. CASE RaceLocalWins
    <3>1. /\ files' \in [Outputs -> Content] /\ res' \in Result
          /\ ranLocally' \in BOOLEAN /\ env' \in BOOLEAN
      BY <1>0, <2>2, LocalRunEffect DEF RaceLocalWins, Result, Ok
    <3>2. fallbacks' \in {0, 1}
      BY <2>2 DEF RaceLocalWins, PathInv, Early
    <3> QED BY <2>2, <3>1, <3>2, LoadedEffect DEF RaceLocalWins, rerunVars
  <2>3. CASE RaceFails
    <3>1. PICK W \in SUBSET Outputs, who \in {"local", "remote"} :
            files' = Write(files, W, Made(who, TRUE))
      BY <2>3 DEF RaceFails
    <3>2. Made(who, TRUE) \in Content
      BY MadeContent DEF Content
    <3>3. files' \in [Outputs -> Content]
      BY <3>1, <3>2 DEF Write
    <3> QED BY <2>3, <3>3, LoadedEffect, ZenonT(30) DEF RaceFails, Result, recVars, rerunVars
  <2> QED BY <1>7, <2>1, <2>2, <2>3 DEF RaceStep
<1>8. CASE RerunStep
  <2>1. ASSUME NEW i \in 1..MaxReruns, RemoteRerun(i) PROVE TypeOK'
    <3>1. Made("remote", Pristine(fmc')) \in Content
      BY MadeContent DEF Content
    <3>2. views' \subseteq BOOLEAN
      BY <2>1 DEF RemoteRerun, Pristine
    <3> QED BY <2>1, <3>1, <3>2, LoadedEffect DEF RemoteRerun, recVars
  <2>2. ASSUME NEW i \in 1..MaxReruns, RemoteRerunPanics(i) PROVE TypeOK'
    BY <2>2 DEF RemoteRerunPanics, fileVars, recVars, rerunVars
  <2>3. ASSUME NEW i \in 1..MaxReruns, RemoteRerunDownload(i) PROVE TypeOK'
    BY <2>3 DEF RemoteRerunDownload, Write, recVars
  <2>4. CASE RemoteRerunsDone
    <3>1. stash' \in [InOut -> Content \union {"unstashed"}]
      BY <2>4, CopiesEffect DEF RemoteRerunsDone
    <3> QED BY <2>4, <3>1 DEF RemoteRerunsDone, recVars, rerunVars
  <2>5. CASE LocalRerun
    <3>0. PICK before \in Restored(files) :
            /\ stash' \in Copies(before) /\ views' = views \union {Pristine(before)}
            /\ \E x \in LocalOutcomes(before) : files' = x.files
      BY <2>5 DEF LocalRerun
    <3>1. before \in [Outputs -> Content]
      BY RestoredEffect
    <3>2. stash' \in [InOut -> Content \union {"unstashed"}]
      BY <3>0, <3>1, CopiesEffect
    <3>3. PICK W \in SUBSET Outputs : files' = Write(before, W, Made("local", Pristine(before)))
      BY <3>0, <3>1, LocalOutcome
    <3>4. Made("local", Pristine(before)) \in Content
      BY MadeContent DEF Content
    <3>5. files' \in [Outputs -> Content]
      BY <3>1, <3>3, <3>4 DEF Write
    <3>6. views' \subseteq BOOLEAN
      BY <3>0 DEF Pristine
    <3>7. fmc' \in [Outputs -> Content \union {"unknown"}]
      BY <2>5 DEF LocalRerun, ClearInputOutputFileCache, ClearOutputsCache
    <3>8. lruns' \in 0..MaxReruns
      BY <1>0, <2>5 DEF LocalRerun
    <3> QED BY <2>5, <3>2, <3>5, <3>6, <3>7, <3>8 DEF LocalRerun, recVars
  <2>6. CASE LocalRerunsDone
    BY <2>6 DEF LocalRerunsDone, fileVars, recVars, rerunVars
  <2> QED BY <1>8, <2>1, <2>2, <2>3, <2>4, <2>5, <2>6 DEF RerunStep
<1> QED BY <1>1, <1>2, <1>3, <1>4, <1>5, <1>6, <1>7, <1>8 DEF Next

-----------------------------------------------------------------------------
(* Results and files.                                                      *)

(* What a local run says of itself, wherever it is started.                *)
LEMMA LocalProcessEffect ==
  ASSUME TypeOK, LocalProcess
  PROVE  /\ res' \in {"success", "localErr", "nonZero"}
         /\ ranLocally' = TRUE
         /\ \A o \in Outputs : files'[o] \in LocalContent \union {files[o]}
         /\ Pristine(files) => \A o \in Outputs : files'[o] \in {"local", files[o]}
         /\ res' = "success" => \A o \in Outputs : files'[o] \in LocalContent
<1>1. req.wrapper \in BOOLEAN
  BY RequestFields DEF TypeOK
<1> QED BY <1>1, LocalRunEffect
        DEF LocalProcess, RunActionLocally, LercLocal, LercFallback, Fallback, RunLocal

(* No step makes the result and the record disagree.                       *)
LEMMA ResStep ==
  ASSUME TypeOK, PathInv, ResInv, [Next]_vars
  PROVE  ResInv'
<1> USE DEF ResInv, LercPcs, RemotePcs, EndPcs, Early, Ok
<1>0. req.strategy \in Strategy /\ req.envVars \in BOOLEAN
  BY RequestFields DEF TypeOK
<1>1. CASE CtxDone \/ ReclientTimeout \/ UNCHANGED vars
  BY <1>1 DEF CtxDone, ReclientTimeout, vars, recVars
<1>2. CASE RunActionStep
  <2>1. CASE RunActionRefused \/ Dispatch \/ Clear \/ AfterRunAction
    BY <2>1 DEF RunActionRefused, Dispatch, Clear, AfterRunAction, recVars
  <2>2. CASE LogRecord
    BY <2>2 DEF LogRecord, recVars
  <2> QED BY <1>2, <2>1, <2>2 DEF RunActionStep
<1>3. CASE LercStep
  BY <1>3 DEF LercStep, LercInputsFail, LercInputs, LercCacheMiss, LercCacheHit,
              CacheLocal, LercDone, recVars, PathInv
<1>4. CASE RemoteStep
  <2>1. CASE InputsFail \/ InputsTimeoutPanics \/ Inputs \/ MoveOutputsFromTemp \/ MoveFails
    BY <2>1 DEF InputsFail, InputsTimeoutPanics, Inputs, MoveOutputsFromTemp, MoveFails, recVars
  <2>2. CASE CompareEnd \/ RemoteInterrupted
    BY <2>2 DEF CompareEnd, RemoteInterrupted, recVars
  <2>3. CASE RemoteEnd
    BY <2>3, PathInv DEF RemoteEnd
  <2> QED BY <1>4, <2>1, <2>2, <2>3 DEF RemoteStep
<1>5. CASE RemoteCall
  BY <1>5 DEF RemoteCall, RemoteSucceeds, RemoteFails, FlattenFails, Download, DownloadFails,
              AfterDownload, recVars, PathInv
<1>6. CASE LocalProcess
  <2>1. res' \in {"success", "localErr", "nonZero"} /\ ranLocally'
    BY <1>6, LocalProcessEffect
  <2>2. CASE RunActionLocally
    BY <2>1, <2>2 DEF RunActionLocally
  <2>3. CASE LercLocal \/ LercFallback
    BY <2>1, <2>3 DEF LercLocal, LercFallback, PathInv
  <2>4. CASE Fallback
    BY <2>1, <2>4 DEF Fallback, CountFallback, PathInv
  <2> QED BY <1>6, <2>2, <2>3, <2>4 DEF LocalProcess
<1>7. CASE RaceStep
  <2>1. CASE RaceRemoteWins \/ RaceFails
    <3>1. pc = "race" /\ UNCHANGED <<req, ranLocally>> /\ ~ranLocally
      BY <2>1 DEF RaceRemoteWins, RaceFails, recVars
    <3>2. req.strategy = "RACING"
      BY <3>1 DEF PathInv
    <3> QED BY <2>1, <3>1, <3>2 DEF RaceRemoteWins, RaceFails
  <2>2. CASE RaceLocalWins
    <3>1. res' \in {"success", "localErr", "nonZero"} /\ ranLocally'
      BY <1>0, <2>2, LocalRunEffect DEF RaceLocalWins
    <3> QED BY <2>2, <3>1 DEF RaceLocalWins, PathInv
  <2> QED BY <1>7, <2>1, <2>2 DEF RaceStep
<1>8. CASE RerunStep
  BY <1>8 DEF RerunStep, RemoteRerun, RemoteRerunPanics, RemoteRerunDownload,
              RemoteRerunsDone, LocalRerun, LocalRerunsDone, recVars
<1> QED BY <1>1, <1>2, <1>3, <1>4, <1>5, <1>6, <1>7, <1>8 DEF Next

(* Until the first write the exec root stays as it was.                    *)
LEMMA FilesStep ==
  ASSUME TypeOK, ResInv, FilesInv, [Next]_vars
  PROVE  FilesInv'
<1> USE DEF FilesInv, Untouched, Early
<1>1. CASE CtxDone \/ ReclientTimeout \/ UNCHANGED vars
  BY <1>1 DEF CtxDone, ReclientTimeout, vars, fileVars
<1>2. CASE RunActionStep
  BY <1>2 DEF RunActionStep, RunActionRefused, Dispatch, Clear, AfterRunAction, LogRecord, fileVars
<1>3. CASE LercStep
  BY <1>3 DEF LercStep, LercInputsFail, LercInputs, LercCacheMiss, LercCacheHit,
              CacheLocal, LercDone, fileVars
<1>4. CASE RemoteStep
  <2>1. CASE InputsFail \/ InputsTimeoutPanics \/ Inputs
    BY <2>1 DEF InputsFail, InputsTimeoutPanics, Inputs, fileVars
  <2>2. CASE MoveOutputsFromTemp \/ MoveFails
    BY <2>2 DEF MoveOutputsFromTemp, MoveFails, ResInv
  <2>3. CASE CompareEnd
    BY <2>3 DEF CompareEnd, ResInv
  <2>4. CASE RemoteInterrupted
    <3>1. req.atomic => UNCHANGED files
      BY <2>4 DEF RemoteInterrupted, WrittenInPlace, Write, TypeOK
    <3> QED BY <2>4, <3>1 DEF RemoteInterrupted
  <2>5. CASE RemoteEnd
    BY <2>5 DEF RemoteEnd, Ok, fileVars
  <2> QED BY <1>4, <2>1, <2>2, <2>3, <2>4, <2>5 DEF RemoteStep
<1>5. CASE RemoteCall
  <2>1. CASE RemoteSucceeds
    BY <2>1, MadeContent DEF RemoteSucceeds
  <2>2. CASE RemoteFails \/ FlattenFails
    BY <2>2 DEF RemoteFails, FlattenFails, fileVars
  <2>3. CASE Download
    BY <2>3 DEF Download, AfterDownload
  <2>4. CASE DownloadFails
    <3>1. req.atomic => UNCHANGED files
      BY <2>4 DEF DownloadFails, WrittenInPlace, Write, TypeOK
    <3> QED BY <2>4, <3>1 DEF DownloadFails
  <2> QED BY <1>5, <2>1, <2>2, <2>3, <2>4 DEF RemoteCall
<1>6. CASE LocalProcess
  BY <1>6 DEF LocalProcess, RunActionLocally, LercLocal, LercFallback, Fallback
<1>7. CASE RaceStep
  BY <1>7 DEF RaceStep, RaceRemoteWins, RaceLocalWins, RaceFails
<1>8. CASE RerunStep
  BY <1>8 DEF RerunStep, RemoteRerun, RemoteRerunPanics, RemoteRerunDownload,
              RemoteRerunsDone, LocalRerun, LocalRerunsDone
<1> QED BY <1>1, <1>2, <1>3, <1>4, <1>5, <1>6, <1>7, <1>8 DEF Next

(* A step that ends in success has put the outputs in place, or found them *)
(* there.                                                                  *)
LEMMA OutputsStep ==
  ASSUME TypeOK, PathInv, ResInv, FilesInv, OutputsInv, [Next]_vars
  PROVE  OutputsInv'
<1> USE DEF OutputsInv, HasOutputs, Wanted, Ok, EndPcs
<1>0. req.envVars \in BOOLEAN
  BY RequestFields DEF TypeOK
<1>1. CASE CtxDone \/ ReclientTimeout \/ UNCHANGED vars
  BY <1>1 DEF CtxDone, ReclientTimeout, vars, fileVars, recVars
<1>2. CASE RunActionStep
  BY <1>2 DEF RunActionStep, RunActionRefused, Dispatch, Clear, AfterRunAction, LogRecord,
              fileVars, recVars
<1>3. CASE LercStep
  <2>1. CASE LercInputsFail \/ LercInputs \/ LercCacheMiss \/ CacheLocal \/ LercDone
    BY <2>1 DEF LercInputsFail, LercInputs, LercCacheMiss, CacheLocal, LercDone, fileVars, recVars
  <2>2. CASE LercCacheHit
    <3> DEFINE c == Made("remote", Pristine(Loaded(fmc)))
    <3>1. c \in {"remote", "remoteDirty"}
      BY MadeContent
    <3>2. req.fault \notin {"flatten", "lercDownload"} => files' = Write(files, Wanted(req), c)
      BY <2>2 DEF LercCacheHit
    <3>3. UNCHANGED <<req, ranLocally>> /\ ~ranLocally
      BY <2>2 DEF LercCacheHit, recVars, ResInv, Early
    <3> HIDE DEF c
    <3> QED BY <3>1, <3>2, <3>3 DEF Write
  <2> QED BY <1>3, <2>1, <2>2 DEF LercStep
<1>4. CASE RemoteStep
  <2>1. CASE InputsFail \/ InputsTimeoutPanics \/ Inputs \/ MoveFails \/ RemoteInterrupted
    BY <2>1 DEF InputsFail, InputsTimeoutPanics, Inputs, MoveFails, RemoteInterrupted, ResInv,
       FilesInv, Early
  <2>2. CASE MoveOutputsFromTemp
    BY <2>2 DEF MoveOutputsFromTemp, Write, recVars, ResInv, RemotePcs, FilesInv
  <2>3. CASE CompareEnd
    BY <2>3 DEF CompareEnd, recVars
  <2>4. CASE RemoteEnd
    BY <2>4 DEF RemoteEnd, fileVars
  <2> QED BY <1>4, <2>1, <2>2, <2>3, <2>4 DEF RemoteStep
<1>5. CASE RemoteCall
  <2>1. CASE RemoteSucceeds \/ RemoteFails \/ FlattenFails \/ DownloadFails
    BY <2>1 DEF RemoteSucceeds, RemoteFails, FlattenFails, DownloadFails
  <2>2. CASE Download
    BY <2>2 DEF Download, AfterDownload, Write, recVars, ResInv, RemotePcs, FilesInv
  <2> QED BY <1>5, <2>1, <2>2 DEF RemoteCall
<1>6. CASE LocalProcess
  BY <1>6, LocalProcessEffect DEF LocalContent, Outputs
<1>7. CASE RaceStep
  <2>1. CASE RaceRemoteWins
    <3> DEFINE c == Made("remote", Pristine(fmc'))
    <3>1. c \in {"remote", "remoteDirty"}
      BY MadeContent
    <3>2. files' = Write(files, Wanted(req), c) /\ UNCHANGED <<req, ranLocally>> /\ ~ranLocally
      BY <2>1 DEF RaceRemoteWins, recVars, ResInv, Early
    <3> HIDE DEF c
    <3> QED BY <3>1, <3>2 DEF Write
  <2>2. CASE RaceLocalWins
    BY <1>0, <2>2, LocalRunEffect DEF RaceLocalWins, LocalContent
  <2>3. CASE RaceFails
    BY <2>3 DEF RaceFails
  <2> QED BY <1>7, <2>1, <2>2, <2>3 DEF RaceStep
<1>8. CASE RerunStep
  BY <1>8 DEF RerunStep, RemoteRerun, RemoteRerunPanics, RemoteRerunDownload,
              RemoteRerunsDone, LocalRerun, LocalRerunsDone, PathInv
<1> QED BY <1>1, <1>2, <1>3, <1>4, <1>5, <1>6, <1>7, <1>8 DEF Next

(* A step changes hands only together with ExecutedLocally.                *)
LEMMA OwnerStep ==
  ASSUME TypeOK, PathInv, ResInv, FilesInv, OwnerInv, [Next]_vars
  PROVE  OwnerInv'
<1> USE DEF OwnerInv, LocalContent, EndPcs
<1>0. req.envVars \in BOOLEAN
  BY RequestFields DEF TypeOK
<1>1. CASE CtxDone \/ ReclientTimeout \/ UNCHANGED vars
  BY <1>1 DEF CtxDone, ReclientTimeout, vars, fileVars, recVars
<1>2. CASE RunActionStep
  BY <1>2 DEF RunActionStep, RunActionRefused, Dispatch, Clear, AfterRunAction, LogRecord,
              ResInv, Early, Ok, fileVars, recVars
<1>3. CASE LercStep
  <2>1. CASE LercInputsFail \/ LercInputs \/ CacheLocal \/ LercDone
    BY <2>1 DEF LercInputsFail, LercInputs, CacheLocal, LercDone,
                ResInv, Early, fileVars, recVars
  <2>2. CASE LercCacheHit \/ LercCacheMiss
    <3> DEFINE c == Made("remote", Pristine(Loaded(fmc)))
    <3>1. c \in {"remote", "remoteDirty"}
      BY MadeContent
    <3>2. PICK W : files' = Write(files, W, c) \/ UNCHANGED files
      BY <2>2 DEF LercCacheHit, LercCacheMiss
    <3>3. UNCHANGED <<req, ranLocally>> /\ ~ranLocally /\ pc = "lercCache"
      BY <2>2 DEF LercCacheHit, LercCacheMiss, recVars, ResInv, Early
    <3> HIDE DEF c
    <3> QED BY <3>1, <3>2, <3>3 DEF Write
  <2> QED BY <1>3, <2>1, <2>2 DEF LercStep
<1>4. CASE RemoteStep
  <2>1. CASE InputsFail \/ InputsTimeoutPanics \/ Inputs \/ CompareEnd \/ RemoteEnd
    BY <2>1 DEF InputsFail, InputsTimeoutPanics, Inputs, CompareEnd, RemoteEnd,
                ResInv, Early, RemotePcs, Ok, fileVars, recVars
  <2>2. CASE MoveOutputsFromTemp \/ MoveFails \/ RemoteInterrupted
    <3>1. PICK W : files' = Write(files, W, made) \/ UNCHANGED files
      BY <2>2 DEF MoveOutputsFromTemp, MoveFails, RemoteInterrupted
    <3>2. /\ pc \in {"exec", "download", "move"} /\ UNCHANGED <<req, ranLocally>>
          /\ made \in {"remote", "remoteDirty"} \/ pc = "exec"
          /\ pc = "exec" => UNCHANGED files
      BY <2>2 DEF MoveOutputsFromTemp, MoveFails, RemoteInterrupted, recVars, FilesInv
    <3>3. ~ranLocally
      BY <3>2 DEF ResInv, Early, RemotePcs
    <3> QED BY <3>1, <3>2, <3>3 DEF Write
  <2> QED BY <1>4, <2>1, <2>2 DEF RemoteStep
<1>5. CASE RemoteCall
  <2>1. CASE RemoteSucceeds \/ RemoteFails \/ FlattenFails
    BY <2>1 DEF RemoteSucceeds, RemoteFails, FlattenFails, ResInv, Early, fileVars, recVars
  <2>2. CASE Download \/ DownloadFails
    <3>1. PICK W : files' = Write(files, W, made) \/ UNCHANGED files
      BY <2>2 DEF Download, DownloadFails
    <3>2. pc = "download" /\ UNCHANGED <<req, ranLocally>> /\ ~ranLocally
      BY <2>2 DEF Download, DownloadFails, recVars, ResInv, Early
    <3> QED BY <3>1, <3>2 DEF Write, FilesInv
  <2> QED BY <1>5, <2>1, <2>2 DEF RemoteCall
<1>6. CASE LocalProcess
  BY <1>6, LocalProcessEffect
<1>7. CASE RaceStep
  <2>1. CASE RaceRemoteWins
    <3> DEFINE c == Made("remote", Pristine(fmc'))
    <3>1. c \in {"remote", "remoteDirty"}
      BY MadeContent
    <3>2. files' = Write(files, Wanted(req), c) /\ UNCHANGED <<req, ranLocally>> /\ ~ranLocally
      BY <2>1 DEF RaceRemoteWins, recVars, ResInv, Early
    <3>3. pc = "race"
      BY <2>1 DEF RaceRemoteWins
    <3> HIDE DEF c
    <3> QED BY <3>1, <3>2, <3>3 DEF Write
  <2>2. CASE RaceLocalWins
    BY <1>0, <2>2, LocalRunEffect DEF RaceLocalWins
  <2>3. CASE RaceFails
    BY <2>3 DEF RaceFails, recVars, ResInv, Early, Ok
  <2> QED BY <1>7, <2>1, <2>2, <2>3 DEF RaceStep
<1>8. CASE RerunStep
  BY <1>8 DEF RerunStep, RemoteRerun, RemoteRerunPanics, RemoteRerunDownload,
              RemoteRerunsDone, LocalRerun, LocalRerunsDone, PathInv
<1> QED BY <1>1, <1>2, <1>3, <1>4, <1>5, <1>6, <1>7, <1>8 DEF Next

(* No step changes the request.                                            *)
LEMMA RequestKept ==
  ASSUME [Next]_vars
  PROVE  UNCHANGED req
<1>1. CASE CtxDone \/ ReclientTimeout \/ UNCHANGED vars
  BY <1>1 DEF CtxDone, ReclientTimeout, vars
<1>2. CASE RunActionStep
  BY <1>2 DEF RunActionStep, RunActionRefused, Dispatch, Clear, AfterRunAction, LogRecord
<1>3. CASE LercStep
  BY <1>3 DEF LercStep, LercInputsFail, LercInputs, LercCacheMiss, LercCacheHit,
              CacheLocal, LercDone
<1>4. CASE RemoteStep
  BY <1>4 DEF RemoteStep, InputsFail, InputsTimeoutPanics, Inputs, MoveOutputsFromTemp,
              MoveFails, CompareEnd, RemoteInterrupted, RemoteEnd
<1>5. CASE RemoteCall
  BY <1>5 DEF RemoteCall, RemoteSucceeds, RemoteFails, FlattenFails, Download, DownloadFails
<1>6. CASE LocalProcess
  BY <1>6 DEF LocalProcess, RunActionLocally, LercLocal, LercFallback, Fallback
<1>7. CASE RaceStep
  BY <1>7 DEF RaceStep, RaceRemoteWins, RaceLocalWins, RaceFails
<1>8. CASE RerunStep
  BY <1>8 DEF RerunStep, RemoteRerun, RemoteRerunPanics, RemoteRerunDownload,
              RemoteRerunsDone, LocalRerun, LocalRerunsDone
<1> QED BY <1>1, <1>2, <1>3, <1>4, <1>5, <1>6, <1>7, <1>8 DEF Next

(* With atomic downloads, whatever interrupts the remote run, the fallback *)
(* reads the original files.                                               *)
LEMMA FallbackStep ==
  ASSUME TypeOK, PathInv, ResInv, FilesInv, FallbackInv, [Next]_vars
  PROVE  FallbackInv'
<1> DEFINE P == /\ req.strategy = "REMOTE_LOCAL_FALLBACK" /\ req.atomic
                /\ ~req.compare /\ req.fault # "move"
<1> SUFFICES ASSUME P, UNCHANGED req
             PROVE  \A o \in Outputs : files'[o] # "localDirty"
  <2>1. UNCHANGED req
    BY RequestKept
  <2> QED BY <2>1 DEF FallbackInv
<1>0. \A o \in Outputs : files[o] # "localDirty"
  BY DEF FallbackInv
<1>1. CASE CtxDone \/ ReclientTimeout \/ UNCHANGED vars
  BY <1>0, <1>1 DEF CtxDone, ReclientTimeout, vars, fileVars
<1>2. CASE RunActionStep
  BY <1>0, <1>2 DEF RunActionStep, RunActionRefused, Dispatch, Clear, AfterRunAction, LogRecord,
                    fileVars
<1>3. CASE LercStep
  BY <1>3 DEF LercStep, LercInputsFail, LercInputs, LercCacheMiss, LercCacheHit,
              CacheLocal, LercDone, PathInv, LercPcs
<1>4. CASE RemoteStep
  <2>1. CASE InputsFail \/ InputsTimeoutPanics \/ Inputs \/ CompareEnd \/ RemoteEnd
    BY <1>0, <2>1 DEF InputsFail, InputsTimeoutPanics, Inputs, CompareEnd, RemoteEnd, fileVars
  <2>2. CASE MoveOutputsFromTemp \/ MoveFails \/ RemoteInterrupted
    <3>1. PICK W : files' = Write(files, W, made) \/ UNCHANGED files
      BY <2>2 DEF MoveOutputsFromTemp, MoveFails, RemoteInterrupted
    <3>2. made \in {"remote", "remoteDirty"} \/ UNCHANGED files
      BY <2>2 DEF MoveOutputsFromTemp, MoveFails, RemoteInterrupted, FilesInv
    <3> QED BY <1>0, <3>1, <3>2 DEF Write
  <2> QED BY <1>4, <2>1, <2>2 DEF RemoteStep
<1>5. CASE RemoteCall
  <2>1. CASE RemoteSucceeds \/ RemoteFails \/ FlattenFails
    BY <1>0, <2>1 DEF RemoteSucceeds, RemoteFails, FlattenFails, fileVars
  <2>2. CASE Download \/ DownloadFails
    <3>1. PICK W : files' = Write(files, W, made) \/ UNCHANGED files
      BY <2>2 DEF Download, DownloadFails
    <3>2. made \in {"remote", "remoteDirty"}
      BY <2>2 DEF Download, DownloadFails, FilesInv
    <3> QED BY <1>0, <3>1, <3>2 DEF Write
  <2> QED BY <1>5, <2>1, <2>2 DEF RemoteCall
<1>6. CASE LocalProcess
  <2>1. pc \in {"runAction", "fallback"}
    BY <1>6 DEF LocalProcess, RunActionLocally, LercLocal, LercFallback, Fallback, PathInv, LercPcs
  <2>2. Untouched
    BY <2>1 DEF FilesInv, Early, ResInv
  <2>3. Pristine(files)
    BY <2>2 DEF Untouched, Pristine, Outputs
  <2> QED BY <1>0, <1>6, <2>3, LocalProcessEffect
<1>7. CASE RaceStep
  BY <1>7 DEF RaceStep, RaceRemoteWins, RaceLocalWins, RaceFails, PathInv
<1>8. CASE RerunStep
  BY <1>8 DEF RerunStep, RemoteRerun, RemoteRerunPanics, RemoteRerunDownload,
              RemoteRerunsDone, LocalRerun, LocalRerunsDone, PathInv
<1> QED BY <1>1, <1>2, <1>3, <1>4, <1>5, <1>6, <1>7, <1>8 DEF Next

(* No step loses an in-out file that the stash was to keep.                *)
LEMMA StashStep ==
  ASSUME TypeOK, PathInv, FilesInv, StashInv, [Next]_vars
  PROVE  StashInv'
<1> USE DEF StashInv
<1>0. /\ UNCHANGED req /\ req.envVars \in BOOLEAN
      /\ files \in [Outputs -> Content] /\ stash \in [InOut -> Content \union {"unstashed"}]
      /\ fmc \in [Outputs -> Content \union {"unknown"}]
      /\ rr \in [1..MaxReruns -> {"off", "exec", "done"} \union Content]
      /\ InOut \subseteq Outputs
  BY RequestKept, RequestFields DEF TypeOK, Outputs
<1>1. CASE CtxDone \/ ReclientTimeout \/ UNCHANGED vars
  BY <1>0, <1>1 DEF CtxDone, ReclientTimeout, vars, fileVars, rerunVars
<1>2. CASE RunActionStep
  BY <1>0, <1>2 DEF RunActionStep, RunActionRefused, Dispatch, Clear, AfterRunAction, LogRecord,
              Duplicate, fileVars, rerunVars
<1>3. CASE LercStep
  <2>1. CASE LercInputsFail \/ LercInputs \/ CacheLocal \/ LercDone
    BY <1>0, <2>1 DEF LercInputsFail, LercInputs, CacheLocal, LercDone,
                fileVars, rerunVars
  <2>2. CASE LercCacheHit \/ LercCacheMiss
    <3> DEFINE c == Made("remote", Pristine(Loaded(fmc)))
    <3>1. c # "none"
      BY MadeContent
    <3>2. PICK W : files' = Write(files, W, c) \/ UNCHANGED files
      BY <2>2 DEF LercCacheHit, LercCacheMiss
    <3> HIDE DEF c
    <3>3. \A f \in InOut : files[f] # "none" => files'[f] # "none"
      BY <1>0, <3>1, <3>2 DEF Write
    <3> QED BY <1>0, <2>2, <3>3 DEF LercCacheHit, LercCacheMiss, rerunVars
  <2> QED BY <1>3, <2>1, <2>2 DEF LercStep
<1>4. CASE RemoteStep
  <2>1. CASE InputsFail \/ InputsTimeoutPanics \/ RemoteEnd
    BY <1>0, <2>1 DEF InputsFail, InputsTimeoutPanics, RemoteEnd, fileVars, rerunVars
  <2>2. CASE Inputs
    <3>1. \A f \in InOut : files[f] = "orig"
      BY <1>0, <2>2 DEF Inputs, FilesInv, Early, Untouched
    <3>2. ~req.compare => UNCHANGED stash
      BY <2>2 DEF Inputs
    <3>3. req.compare => /\ \A f \in InOut : stash'[f] # "none"
                         /\ req.fault # "stash" => \A f \in InOut : stash'[f] = "orig"
      BY <1>0, <2>2, <3>1, CopiesEffect DEF Inputs
    <3> QED BY <1>0, <2>2, <3>1, <3>2, <3>3 DEF Inputs, rerunVars
  <2>3. CASE MoveOutputsFromTemp \/ MoveFails \/ RemoteInterrupted
    <3>1. PICK W : files' = Write(files, W, made) \/ UNCHANGED files
      BY <2>3 DEF MoveOutputsFromTemp, MoveFails, RemoteInterrupted
    <3>2. made # "none" \/ UNCHANGED files
      BY <2>3 DEF MoveOutputsFromTemp, MoveFails, RemoteInterrupted, FilesInv
    <3>3. \A f \in InOut : files[f] # "none" => files'[f] # "none"
      BY <1>0, <3>1, <3>2 DEF Write
    <3> QED BY <1>0, <2>3, <3>3
            DEF MoveOutputsFromTemp, MoveFails, RemoteInterrupted, rerunVars
  <2>4. CASE CompareEnd
    <3> DEFINE C == Write(files, Outputs, "none")
    <3>1. C \in [Outputs -> Content]
      BY DEF Write, Content
    <3>2. IF req.compare THEN files' \in Restored(C) ELSE files' = files
      BY <2>4 DEF CompareEnd
    <3>3. (req.compare /\ req.fault # "restore") => \A o \in Outputs : files'[o] =
            IF o \in InOut /\ stash[o] # "unstashed" THEN stash[o] ELSE C[o]
      BY <1>0, <3>1, <3>2, RestoredEffect
    <3> HIDE DEF C
    <3>4. ~(req.compare /\ req.fault \in {"stash", "restore"}) => \A f \in InOut : files'[f] # "none"
      BY <1>0, <2>4, <3>2, <3>3 DEF CompareEnd
    <3> QED BY <1>0, <2>4, <3>4 DEF CompareEnd, rerunVars
  <2> QED BY <1>4, <2>1, <2>2, <2>3, <2>4 DEF RemoteStep
<1>5. CASE RemoteCall
  <2>1. CASE RemoteSucceeds \/ RemoteFails \/ FlattenFails
    BY <1>0, <2>1 DEF RemoteSucceeds, RemoteFails, FlattenFails, fileVars, rerunVars
  <2>2. CASE Download \/ DownloadFails
    <3>1. PICK W : files' = Write(files, W, made) \/ UNCHANGED files
      BY <2>2 DEF Download, DownloadFails
    <3>2. made # "none"
      BY <2>2 DEF Download, DownloadFails, FilesInv
    <3>3. \A f \in InOut : files[f] # "none" => files'[f] # "none"
      BY <1>0, <3>1, <3>2 DEF Write
    <3> QED BY <1>0, <2>2, <3>3 DEF Download, DownloadFails, AfterDownload, rerunVars
  <2> QED BY <1>5, <2>1, <2>2 DEF RemoteCall
<1>6. CASE LocalProcess
  <2>1. \A f \in InOut : files[f] # "none" => files'[f] # "none"
    BY <1>0, <1>6, LocalProcessEffect DEF LocalContent
  <2> QED BY <1>0, <1>6, <2>1
          DEF LocalProcess, RunActionLocally, LercLocal, LercFallback, Fallback, rerunVars
<1>7. CASE RaceStep
  <2>1. PICK W, c : \/ files' = Write(files, W, c) /\ c # "none"
                    \/ \A o \in Outputs : files'[o] \in LocalContent \union {files[o]}
    <3>1. CASE RaceRemoteWins
      BY <3>1, MadeContent DEF RaceRemoteWins
    <3>2. CASE RaceLocalWins
      BY <1>0, <3>2, LocalRunEffect DEF RaceLocalWins
    <3>3. CASE RaceFails
      <4>1. PICK W \in SUBSET Outputs, who \in {"local", "remote"} :
              files' = Write(files, W, Made(who, TRUE))
        BY <3>3 DEF RaceFails
      <4>2. Made(who, TRUE) # "none"
        BY MadeContent
      <4> QED BY <4>1, <4>2
    <3> QED BY <1>7, <3>1, <3>2, <3>3 DEF RaceStep
  <2>2. \A f \in InOut : files[f] # "none" => files'[f] # "none"
    BY <1>0, <2>1 DEF Write, LocalContent
  <2> QED BY <1>0, <1>7, <2>2
          DEF RaceStep, RaceRemoteWins, RaceLocalWins, RaceFails, rerunVars
<1>8. CASE RerunStep
  <2>1. ASSUME NEW i \in 1..MaxReruns, RemoteRerun(i) PROVE StashInv'
    <3>1. Made("remote", Pristine(fmc')) \in {"remote", "remoteDirty"}
      BY MadeContent
    <3> QED BY <1>0, <2>1, <3>1 DEF RemoteRerun
  <2>2. ASSUME NEW i \in 1..MaxReruns, RemoteRerunPanics(i) PROVE StashInv'
    BY <1>0, <2>2 DEF RemoteRerunPanics, fileVars, rerunVars
  <2>3. ASSUME NEW i \in 1..MaxReruns, RemoteRerunDownload(i) PROVE StashInv'
    <3>1. PICK W : files' = Write(files, W, rr[i])
      BY <2>3 DEF RemoteRerunDownload
    <3>2. rr[i] # "none"
      OBVIOUS
    <3> QED BY <1>0, <2>3, <3>1, <3>2 DEF RemoteRerunDownload, Write
  <2>4. CASE RemoteRerunsDone
    <3>1. \A f \in InOut : stash'[f] # "none"
      BY <1>0, <2>4, CopiesEffect DEF RemoteRerunsDone
    <3> QED BY <1>0, <2>4, <3>1 DEF RemoteRerunsDone, rerunVars
  <2>5. CASE LocalRerun
    <3>0. PICK before \in Restored(files) :
            /\ stash' \in Copies(before)
            /\ \E x \in LocalOutcomes(before) : files' = x.files
      BY <2>5 DEF LocalRerun
    <3>1. /\ before \in [Outputs -> Content]
          /\ \A o \in Outputs : before[o] = files[o] \/ (o \in InOut /\ before[o] = stash[o])
      BY <1>0, RestoredEffect
    <3>2. \A f \in InOut : stash'[f] # "none"
      BY <3>0, <3>1, CopiesEffect
    <3>3. PICK W \in SUBSET Outputs : files' = Write(before, W, Made("local", Pristine(before)))
      BY <3>0, <3>1, LocalOutcome
    <3>4. Made("local", Pristine(before)) # "none"
      BY MadeContent
    <3>5. \A f \in InOut : files[f] # "none" => files'[f] # "none"
      BY <1>0, <3>1, <3>3, <3>4 DEF Write
    <3> QED BY <1>0, <2>5, <3>2, <3>5 DEF LocalRerun
  <2>6. CASE LocalRerunsDone
    BY <1>0, <2>6 DEF LocalRerunsDone, fileVars, rerunVars
  <2> QED BY <1>8, <2>1, <2>2, <2>3, <2>4, <2>5, <2>6 DEF RerunStep
<1> QED BY <1>1, <1>2, <1>3, <1>4, <1>5, <1>6, <1>7, <1>8 DEF Next

(* After a remote success, no rerun is shown anything but the originals.   *)
LEMMA ViewsStep ==
  ASSUME TypeOK, PathInv, ResInv, StashInv, ViewsInv, [Next]_vars
  PROVE  ViewsInv'
<1> USE DEF ViewsInv, Replayed
<1>0. /\ UNCHANGED req
      /\ files \in [Outputs -> Content] /\ stash \in [InOut -> Content \union {"unstashed"}]
      /\ fmc \in [Outputs -> Content \union {"unknown"}]
      /\ rr \in [1..MaxReruns -> {"off", "exec", "done"} \union Content]
      /\ InOut \subseteq Outputs
  BY RequestKept DEF TypeOK, Outputs
<1>1. CASE CtxDone \/ ReclientTimeout \/ UNCHANGED vars
  BY <1>0, <1>1 DEF CtxDone, ReclientTimeout, vars, fileVars, recVars, rerunVars
<1>2. CASE RunActionStep
  <2>1. CASE RunActionRefused \/ Dispatch
    BY <1>0, <2>1 DEF RunActionRefused, Dispatch, Ok, fileVars, recVars, rerunVars
  <2>2. CASE Clear
    BY <1>0, <2>2 DEF Clear, ClearInputOutputFileCache, recVars, rerunVars
  <2>3. CASE AfterRunAction
    BY <1>0, <2>3 DEF AfterRunAction, Duplicate, fileVars, recVars
  <2>4. CASE LogRecord
    BY <1>0, <2>4 DEF LogRecord, fileVars, recVars, rerunVars
  <2> QED BY <1>2, <2>1, <2>2, <2>3, <2>4 DEF RunActionStep
<1>3. CASE LercStep
  <2>1. /\ pc \in LercPcs /\ UNCHANGED <<rr, views>>
        /\ pc' \in LercPcs \union {"clear"}
    BY <1>3 DEF LercStep, LercInputsFail, LercInputs, LercCacheMiss, LercCacheHit,
                CacheLocal, LercDone, rerunVars, LercPcs
  <2> QED BY <1>0, <2>1 DEF PathInv, LercPcs
<1>4. CASE RemoteStep
  <2>1. CASE InputsFail \/ InputsTimeoutPanics \/ Inputs \/ MoveOutputsFromTemp \/ MoveFails
             \/ RemoteInterrupted
    <3>1. /\ pc \in RemotePcs /\ UNCHANGED <<rr, views>>
          /\ pc' \in {"panicked", "exec", "compareEnd"} \/ (pc' = "remoteEnd" /\ res' \notin Ok)
      BY <2>1 DEF InputsFail, InputsTimeoutPanics, Inputs, MoveOutputsFromTemp, MoveFails,
                  RemoteInterrupted, rerunVars, RemotePcs, Ok
    <3> QED BY <1>0, <3>1 DEF RemotePcs
  <2>2. CASE CompareEnd
    <3> DEFINE C == Write(files, Outputs, "none")
    <3>1. C \in [Outputs -> Content]
      BY DEF Write, Content
    <3>3. req.compare => files' \in Restored(C) /\ \A f \in InOut : fmc'[f] = "unknown"
      BY <1>0, <2>2 DEF CompareEnd, ClearInputOutputFileCache
    <3>2. (req.compare /\ req.fault # "restore") => \A o \in Outputs : files'[o] =
            IF o \in InOut /\ stash[o] # "unstashed" THEN stash[o] ELSE C[o]
      BY <1>0, <3>1, <3>3, RestoredEffect
    <3> HIDE DEF C
    <3>4. Replayed' => \A f \in InOut : files'[f] = "orig" /\ fmc'[f] = "unknown"
      BY <1>0, <2>2, <3>2, <3>3 DEF CompareEnd, StashInv
    <3> QED BY <1>0, <2>2, <3>4 DEF CompareEnd, rerunVars
  <2>3. CASE RemoteEnd
    BY <1>0, <2>3 DEF RemoteEnd, fileVars, rerunVars, Ok
  <2> QED BY <1>4, <2>1, <2>2, <2>3 DEF RemoteStep
<1>5. CASE RemoteCall
  <2>1. /\ pc \in RemotePcs \ {"remoteEnd"} /\ UNCHANGED <<rr, views>>
        /\ pc' \in {"download", "move", "compareEnd"} \/ (pc' = "remoteEnd" /\ res' \notin Ok)
    BY <1>5 DEF RemoteCall, RemoteSucceeds, RemoteFails, FlattenFails, Download, DownloadFails,
                AfterDownload, rerunVars, RemotePcs, Ok
  <2> QED BY <1>0, <2>1 DEF RemotePcs
<1>6. CASE LocalProcess
  <2>1. /\ pc \in LercPcs \union {"runAction", "fallback"} /\ UNCHANGED <<rr, views>>
        /\ pc' \in {"ran", "clear", "lercUpload"}
    BY <1>6 DEF LocalProcess, RunActionLocally, LercLocal, LercFallback, Fallback, rerunVars,
       LercPcs
  <2>2. ranLocally'
    BY <1>6, LocalProcessEffect
  <2> QED BY <1>0, <2>1, <2>2 DEF LercPcs
<1>7. CASE RaceStep
  <2>1. pc = "race" /\ pc' = "clear" /\ UNCHANGED <<rr, views>>
    BY <1>7 DEF RaceStep, RaceRemoteWins, RaceLocalWins, RaceFails, rerunVars
  <2> QED BY <1>0, <2>1 DEF PathInv
<1>8. CASE RerunStep
  <2>0. UNCHANGED <<res, ranLocally>>
    BY <1>8 DEF RerunStep, RemoteRerun, RemoteRerunPanics, RemoteRerunDownload,
                RemoteRerunsDone, LocalRerun, LocalRerunsDone, recVars
  <2>1. ASSUME NEW i \in 1..MaxReruns, RemoteRerun(i) PROVE ViewsInv'
    <3>1. \A f \in InOut : fmc'[f] = IF fmc[f] = "unknown" THEN files[f] ELSE fmc[f]
      BY <1>0, <2>1, LoadedEffect DEF RemoteRerun
    <3>2. Replayed => Pristine(fmc')
      BY <2>1, <3>1 DEF RemoteRerun, Pristine
    <3>3. Replayed => FALSE \notin views'
      BY <2>1, <3>2 DEF RemoteRerun
    <3>4. req.compare /\ ~req.regex => rr' = [rr EXCEPT ![i] = "done"]
      BY <2>1 DEF RemoteRerun, RerunWanted, Wanted
    <3> QED BY <1>0, <2>0, <2>1, <3>1, <3>3, <3>4, ZenonT(30) DEF RemoteRerun
  <2>2. ASSUME NEW i \in 1..MaxReruns, RemoteRerunPanics(i) PROVE ViewsInv'
    BY <1>0, <2>0, <2>2 DEF RemoteRerunPanics, fileVars, rerunVars
  <2>3. ASSUME NEW i \in 1..MaxReruns, RemoteRerunDownload(i) PROVE ViewsInv'
    <3>1. ~(req.compare /\ ~req.regex)
      BY <2>3 DEF RemoteRerunDownload, Content
    <3> QED BY <1>0, <2>3, <3>1 DEF RemoteRerunDownload
  <2>4. CASE RemoteRerunsDone
    <3>1. req.fault # "stash" => \A f \in InOut : files[f] # "none" => stash'[f] = files[f]
      BY <1>0, <2>4, CopiesEffect DEF RemoteRerunsDone
    <3>2. Replayed => \A f \in InOut : stash'[f] = "orig"
      BY <2>4, <3>1 DEF RemoteRerunsDone
    <3> QED BY <1>0, <2>0, <2>4, <3>2 DEF RemoteRerunsDone, rerunVars
  <2>5. CASE LocalRerun
    <3>2. PICK before \in Restored(files) :
            stash' \in Copies(before) /\ views' = views \union {Pristine(before)} /\ pc = "localReruns"
      BY <2>5 DEF LocalRerun
    <3>1. /\ before \in [Outputs -> Content]
          /\ req.fault # "restore" => \A o \in Outputs : before[o] =
               IF o \in InOut /\ stash[o] # "unstashed" THEN stash[o] ELSE files[o]
      BY <1>0, RestoredEffect
    <3>3. Replayed => \A f \in InOut : before[f] = "orig"
      BY <1>0, <3>1, <3>2
    <3>4. Replayed => \A f \in InOut : stash'[f] = "orig"
      BY <3>1, <3>2, <3>3, CopiesEffect
    <3>5. Replayed => FALSE \notin views'
      BY <3>2, <3>3 DEF Pristine
    <3> QED BY <1>0, <2>0, <2>5, <3>4, <3>5 DEF LocalRerun
  <2>6. CASE LocalRerunsDone
    BY <1>0, <2>0, <2>6 DEF LocalRerunsDone, fileVars, rerunVars
  <2> QED BY <1>8, <2>1, <2>2, <2>3, <2>4, <2>5, <2>6 DEF RerunStep
<1> QED BY <1>1, <1>2, <1>3, <1>4, <1>5, <1>6, <1>7, <1>8 DEF Next

(* Whoever changes an in-out file after the cache was cleared also enters  *)
(* the change there or clears it again.                                    *)
LEMMA DigestStep ==
  ASSUME TypeOK, PathInv, FilesInv, ViewsInv, DigestInv, [Next]_vars
  PROVE  DigestInv'
<1> USE DEF DigestInv, EndPcs
<1>0. /\ UNCHANGED req
      /\ files \in [Outputs -> Content] /\ fmc \in [Outputs -> Content \union {"unknown"}]
      /\ InOut \subseteq Outputs
  BY RequestKept DEF TypeOK, Outputs
<1>1. CASE CtxDone \/ ReclientTimeout \/ UNCHANGED vars
  BY <1>0, <1>1 DEF CtxDone, ReclientTimeout, vars, fileVars, rerunVars
<1>2. CASE RunActionStep
  <2>1. CASE RunActionRefused
    <3>1. \A f \in InOut : files[f] = "orig"
      BY <1>0, <2>1 DEF RunActionRefused, FilesInv, Early, Untouched
    <3> QED BY <1>0, <2>1, <3>1 DEF RunActionRefused, fileVars
  <2>2. CASE Dispatch
    BY <1>0, <2>2 DEF Dispatch
  <2>3. CASE Clear
    BY <1>0, <2>3 DEF Clear, ClearInputOutputFileCache
  <2>4. CASE AfterRunAction \/ LogRecord
    BY <1>0, <2>4 DEF AfterRunAction, LogRecord, fileVars, rerunVars
  <2> QED BY <1>2, <2>1, <2>2, <2>3, <2>4 DEF RunActionStep
<1>3. CASE LercStep
  BY <1>3 DEF LercStep, LercInputsFail, LercInputs, LercCacheMiss, LercCacheHit,
              CacheLocal, LercDone
<1>4. CASE RemoteStep
  BY <1>4 DEF RemoteStep, InputsFail, InputsTimeoutPanics, Inputs, MoveOutputsFromTemp,
              MoveFails, CompareEnd, RemoteInterrupted, RemoteEnd
<1>5. CASE RemoteCall
  BY <1>5 DEF RemoteCall, RemoteSucceeds, RemoteFails, FlattenFails, Download, DownloadFails,
              AfterDownload
<1>6. CASE LocalProcess
  BY <1>0, <1>6 DEF LocalProcess, RunActionLocally, LercLocal, LercFallback, Fallback
<1>7. CASE RaceStep
  BY <1>7 DEF RaceStep, RaceRemoteWins, RaceLocalWins, RaceFails
<1>8. CASE RerunStep
  <2>1. ASSUME NEW i \in 1..MaxReruns, RemoteRerun(i) PROVE DigestInv'
    <3>1. \A f \in InOut : fmc'[f] = IF fmc[f] = "unknown" THEN files[f] ELSE fmc[f]
      BY <1>0, <2>1, LoadedEffect DEF RemoteRerun
    <3> QED BY <1>0, <2>1, <3>1 DEF RemoteRerun
  <2>2. ASSUME NEW i \in 1..MaxReruns, RemoteRerunPanics(i) PROVE DigestInv'
    BY <2>2 DEF RemoteRerunPanics
  <2>3. ASSUME NEW i \in 1..MaxReruns, RemoteRerunDownload(i) PROVE DigestInv'
    <3>1. req.compare /\ req.regex /\ lruns' = 0
      BY <2>3 DEF RemoteRerunDownload, PathInv, ViewsInv, Content
    <3> QED BY <1>0, <2>3, <3>1 DEF RemoteRerunDownload
  <2>4. CASE RemoteRerunsDone \/ LocalRerunsDone
    BY <1>0, <2>4 DEF RemoteRerunsDone, LocalRerunsDone, fileVars, rerunVars
  <2>5. CASE LocalRerun
    BY <1>0, <2>5 DEF LocalRerun, ClearInputOutputFileCache
  <2> QED BY <1>8, <2>1, <2>2, <2>3, <2>4, <2>5 DEF RerunStep
<1> QED BY <1>1, <1>2, <1>3, <1>4, <1>5, <1>6, <1>7, <1>8 DEF Next

-----------------------------------------------------------------------------
(* The theorems.                                                           *)

ExecInv ==
  /\ TypeOK /\ PathInv /\ ResInv /\ FilesInv /\ OutputsInv
  /\ OwnerInv /\ FallbackInv /\ StashInv /\ ViewsInv /\ DigestInv

(* A new action has run nowhere, and its files are the original ones.      *)
LEMMA ExecInit == Init => ExecInv
<1> SUFFICES ASSUME Init PROVE ExecInv
  OBVIOUS
<1> USE DEF Init
<1>0. req.local \in 0..MaxReruns /\ MaxReruns \in Nat
  BY RequestFields, ExecutionAssumption
<1>1. TypeOK
  <2>1. files \in [Outputs -> Content] /\ fmc \in [Outputs -> Content \union {"unknown"}]
    BY DEF Content
  <2>2. /\ stash \in [InOut -> Content \union {"unstashed"}]
        /\ uploaded \in [Outputs -> Content] /\ made \in Content
    BY DEF Content
  <2>3. rr \in [1..MaxReruns -> {"off", "exec", "done"} \union Content]
    OBVIOUS
  <2>4. lruns \in 0..MaxReruns /\ views \subseteq BOOLEAN
    BY <1>0
  <2> QED BY <2>1, <2>2, <2>3, <2>4 DEF TypeOK, Result, Status
<1>2. PathInv /\ ResInv
  BY <1>0 DEF PathInv, ResInv, LercPcs, RemotePcs, EndPcs, Early
<1>3. FilesInv /\ OutputsInv
  BY DEF FilesInv, Untouched, OutputsInv, EndPcs
<1>4. OwnerInv /\ FallbackInv
  BY DEF OwnerInv, LocalContent, FallbackInv
<1>5. StashInv /\ ViewsInv /\ DigestInv
  BY DEF StashInv, ViewsInv, Replayed, DigestInv, EndPcs, Outputs
<1> QED BY <1>1, <1>2, <1>3, <1>4, <1>5 DEF ExecInv

(* What holds at every place of RunCommand, whatever the request, the      *)
(* outputs and the order of timeouts, failures and reruns (server.go,      *)
(* action.go).                                                             *)
THEOREM ExecInvariant == Spec => []ExecInv
<1>1. ExecInv /\ [Next]_vars => ExecInv'
  BY TypeStep, PathStep, ResStep, FilesStep, OutputsStep, OwnerStep, FallbackStep, StashStep,
     ViewsStep, DigestStep DEF ExecInv
<1> QED BY ExecInit, <1>1, PTL DEF Spec

(* A success that RunCommand reports has its outputs in the exec root      *)
(* (downloadOutputs, runLocal, runLERC).                                   *)
THEOREM SuccessIsOnDisk == Spec => []SuccessHasOutputs
<1>1. ExecInv => SuccessHasOutputs
  BY DEF ExecInv, SuccessHasOutputs, OutputsInv, EndPcs
<1> QED BY <1>1, ExecInvariant, PTL

(* The completion status of the log record says whose outputs are in the   *)
(* exec root, and a fallback has its reason (getCompletionStatus).         *)
THEOREM StatusIsTrue == Spec => []StatusMatchesFiles
<1>1. ASSUME ExecInv PROVE StatusMatchesFiles
  <2> SUFFICES ASSUME pc = "finished", ~req.compare
               PROVE  /\ status \in {"REMOTE_EXECUTION", "CACHE_HIT", "RACING_REMOTE"} =>
                           \A o \in Outputs : files[o] \notin {"local", "localDirty"}
                      /\ status \in {"LOCAL_FALLBACK", "LOCAL_EXECUTION", "RACING_LOCAL"} =>
                           \A o \in Outputs : files[o] \in {"local", "localDirty"}
                      /\ status = "LOCAL_FALLBACK" /\ ~req.remoteDisabled =>
                           fallbacks = 1 /\ fallback \notin Ok \union {"none"}
    BY DEF StatusMatchesFiles
  <2>1. /\ status = CompletionStatus(res, req.strategy, ranLocally)
        /\ res \in Result \ {"none"} /\ req.strategy \in Strategy
    BY <1>1, RequestFields DEF ExecInv, TypeOK, ResInv, EndPcs
  <2>2. status \in {"REMOTE_EXECUTION", "CACHE_HIT", "RACING_REMOTE"} => res \in Ok /\ ~ranLocally
    BY <1>1, <2>1 DEF ExecInv, ResInv, CompletionStatus, Result, Ok, Strategy
  <2>3. status \in {"LOCAL_FALLBACK", "LOCAL_EXECUTION", "RACING_LOCAL"} =>
          res = "success" /\ ranLocally
    BY <1>1, <2>1 DEF ExecInv, ResInv, CompletionStatus, Result, Ok, Strategy
  <2>4. status = "LOCAL_FALLBACK" => req.strategy = "REMOTE_LOCAL_FALLBACK"
    BY <2>1 DEF CompletionStatus
  <2> QED BY <1>1, <2>2, <2>3, <2>4 DEF ExecInv, OwnerInv, LocalContent, ResInv
<1> QED BY <1>1, ExecInvariant, PTL

(* Whoever runs an action again, the local fallback after an atomic        *)
(* download or a rerun of compare mode, is given the original in-out       *)
(* files, and none of them is lost (runRemote, StashFiles, rerunAction).   *)
THEOREM OriginalsAreKept == Spec => []RerunsSeeOriginals
<1>1. ExecInv => RerunsSeeOriginals
  BY DEF ExecInv, RerunsSeeOriginals, FallbackInv, StashInv, ViewsInv, Replayed
<1> QED BY <1>1, ExecInvariant, PTL

(* The deferred clearing at the end of runAction leaves no stale digest of *)
(* an in-out file in the file metadata cache (server.go:694).              *)
THEOREM DigestsAreFresh == Spec => []InOutDigestsFresh
<1>1. ExecInv => InOutDigestsFresh
  <2> SUFFICES ASSUME ExecInv, pc = "finished", ~req.remoteDisabled,
                      ~(req.compare /\ req.regex /\ req.local = 0)
               PROVE  \A f \in InOut : fmc[f] \in {"unknown", files[f]}
    BY DEF InOutDigestsFresh
  <2>1. req.local \in Nat
    BY RequestFields, ExecutionAssumption DEF ExecInv, TypeOK
  <2>2. req.compare => lruns = req.local
    BY DEF ExecInv, PathInv
  <2>3. ~(req.compare /\ req.regex) \/ lruns > 0
    BY <2>1, <2>2
  <2> QED BY <2>3 DEF ExecInv, DigestInv, EndPcs
<1> QED BY <1>1, ExecInvariant, PTL

(* What cacheLocal puts into the remote cache is what the local run left   *)
(* in the exec root (runLERC, cacheLocal).                                 *)
THEOREM UploadsAreRight == Spec => UploadsMatchOutputs
<1>1. TypeOK /\ [Next]_vars => [uploaded' # uploaded => uploaded' = files']_uploaded
  <2> SUFFICES ASSUME TypeOK, [Next]_vars, uploaded' # uploaded
               PROVE  uploaded' = files'
    OBVIOUS
  <2>1. CASE CtxDone \/ ReclientTimeout \/ UNCHANGED vars
    BY <2>1 DEF CtxDone, ReclientTimeout, vars
  <2>2. CASE RunActionStep
    BY <2>2 DEF RunActionStep, RunActionRefused, Dispatch, Clear, AfterRunAction, LogRecord
  <2>3. CASE LercStep
    <3>1. CASE CacheLocal
      BY <3>1 DEF CacheLocal, OutputsToDigest, ClearOutputsCache, TypeOK
    <3> QED BY <2>3, <3>1 DEF LercStep, LercInputsFail, LercInputs, LercCacheMiss, LercCacheHit,
                              LercDone
  <2>4. CASE RemoteStep
    BY <2>4 DEF RemoteStep, InputsFail, InputsTimeoutPanics, Inputs, MoveOutputsFromTemp,
                MoveFails, CompareEnd, RemoteInterrupted, RemoteEnd
  <2>5. CASE RemoteCall
    BY <2>5 DEF RemoteCall, RemoteSucceeds, RemoteFails, FlattenFails, Download, DownloadFails
  <2>6. CASE LocalProcess
    BY <2>6 DEF LocalProcess, RunActionLocally, LercLocal, LercFallback, Fallback
  <2>7. CASE RaceStep
    BY <2>7 DEF RaceStep, RaceRemoteWins, RaceLocalWins, RaceFails
  <2>8. CASE RerunStep
    BY <2>8 DEF RerunStep, RemoteRerun, RemoteRerunPanics, RemoteRerunDownload,
                RemoteRerunsDone, LocalRerun, LocalRerunsDone
  <2> QED BY <2>1, <2>2, <2>3, <2>4, <2>5, <2>6, <2>7, <2>8 DEF Next
<1>2. ExecInv => TypeOK
  BY DEF ExecInv
<1> QED BY <1>1, <1>2, ExecInvariant, PTL DEF Spec, UploadsMatchOutputs
=============================================================================
