------------------------------ MODULE Execution ------------------------------
(***************************************************************************)
(* One action on its way through RunCommand: the execution strategies of   *)
(* runAction, the reclient timeout, the download of the outputs, the local *)
(* fallback, local execution with remote caching (LERC), and the reruns of *)
(* compare mode with the stash of the files that are both input and output *)
(* (internal/pkg/reproxy: server.go, action.go, stash.go).                 *)
(*                                                                         *)
(* A file's contents are told apart by who made them, and from what: a run *)
(* reads the in-out files, and what it makes is "dirty" if they were not   *)
(* the original ones.  fmc is the file metadata cache, through which the   *)
(* remote side sees the inputs.  Racing is Race.tla; here it is one step.  *)
(***************************************************************************)
EXTENDS Naturals

CONSTANTS
  InOut,        \* the outputs that are inputs too
  OtherOutputs, \* the other outputs
  MaxReruns,    \* bounds num_local_reruns and num_remote_reruns
  Requests      \* the requests considered

Outputs == InOut \union OtherOutputs

Strategy == {"LOCAL", "REMOTE", "REMOTE_LOCAL_FALLBACK", "RACING", "UNSPECIFIED"}

(* ProxyExecutionOptions and the server's RemoteDisabled.  "regex" says    *)
(* that download_regex is set; it matches every output.  "deps": the       *)
(* inputs were found in shallow mode, so cached results are validated.     *)
(* "wrapper": the command is run locally through a wrapper.  "envVars":    *)
(* its input specification has environment variables of its own.  "fault"  *)
(* is what may go wrong with it besides rpcs and processes:                *)
(* GetFlattenedOutputs, the copy of an in-out file to the stash or its     *)
(* rename back, the download of a LERC cache hit, or the move out of the   *)
(* temporary directory can fail.                                           *)
Fault == {"flatten", "stash", "restore", "lercDownload", "move"}
Request ==
  [strategy : Strategy, remoteDisabled : BOOLEAN, compare : BOOLEAN,
   local : 0..MaxReruns, remote : 0..MaxReruns,
   atomic : BOOLEAN, regex : BOOLEAN, download : BOOLEAN,
   lercAccept : BOOLEAN, lercCache : BOOLEAN, deps : BOOLEAN,
   wrapper : BOOLEAN, envVars : BOOLEAN, fault : Fault \union {"none"}]

(* RunCommand turns away compare mode with fewer than two reruns.          *)
Accepted(r) == r.compare => r.local + r.remote >= 2

ASSUME ExecutionAssumption ==
  /\ InOut \intersect OtherOutputs = {}
  /\ MaxReruns \in Nat
  /\ Requests \subseteq {r \in Request : Accepted(r)}

VARIABLES
  req,       \* the request
  pc,        \* where RunCommand is
  ctx,       \* the action's context
  timer,     \* the goroutine that cancels rCtx after reclient_timeout
  files,     \* the contents of the outputs in the exec root
  fmc,       \* what the file metadata cache says of them
  stash,     \* the copies StashFiles made
  made,      \* the contents the remote result holds
  res,       \* a.res
  ranLocally,\* a.rec.LocalMetadata.ExecutedLocally
  fallback,  \* a.fallbackResultStatus
  fallbacks, \* what the action added to Server.numFallbacks
  env,       \* a.cmd.InputSpec holds the environment of rewrapper
  uploaded,  \* the outputs LERC put into the remote cache
  rr,        \* the goroutines of the remote reruns; a downloading one is
             \* named after the contents it downloads
  lruns,     \* the local reruns done
  views,     \* the in-out files the reruns were given
  status     \* the completion status of the log record

fileVars  == <<files, fmc, stash>>
recVars   == <<ranLocally, fallback, fallbacks, env>>
rerunVars == <<rr, lruns, views>>
vars == <<req, pc, ctx, timer, fileVars, made, res, recVars, uploaded, rerunVars, status>>

Content == {"orig", "old", "none", "remote", "remoteDirty", "local", "localDirty"}
Ok == {"success", "cacheHit"}
Result == Ok \union {"none", "nonZero", "remoteErr", "localErr", "interrupted", "timeout"}
Status == {"none", "NON_ZERO_EXIT", "CACHE_HIT", "TIMEOUT", "INTERRUPTED", "REMOTE_FAILURE", "LOCAL_FAILURE",
           "LOCAL_EXECUTION", "REMOTE_EXECUTION", "LOCAL_FALLBACK",
           "RACING_LOCAL", "RACING_REMOTE", "UNKNOWN"}

TypeOK ==
  /\ req \in Requests
  /\ pc \in {"runAction", "lercInputs", "lercCache", "lercLocal", "lercUpload", "lercCheck",
             "inputs", "exec", "download", "move", "compareEnd", "remoteEnd", "fallback",
             "race", "clear", "ran", "remoteReruns", "localReruns", "log",
             "finished", "panicked"}
  /\ ctx \in {"live", "done"}
  /\ timer \in {"off", "armed", "fired"}
  /\ files \in [Outputs -> Content]
  /\ fmc \in [Outputs -> Content \union {"unknown"}]
  /\ stash \in [InOut -> Content \union {"unstashed"}]
  /\ made \in Content
  /\ res \in Result
  /\ ranLocally \in BOOLEAN
  /\ fallback \in Result
  /\ fallbacks \in {0, 1}
  /\ env \in BOOLEAN
  /\ uploaded \in [Outputs -> Content]
  /\ rr \in [1..MaxReruns -> {"off", "exec", "done"} \union Content]
  /\ lruns \in 0..MaxReruns
  /\ views \subseteq BOOLEAN
  /\ status \in Status

(* Another action may have read the in-out files before.                   *)
Init ==
  /\ req \in Requests
  /\ pc = "runAction" /\ ctx = "live" /\ timer = "off"
  /\ files = [o \in Outputs |-> IF o \in InOut THEN "orig" ELSE "old"]
  /\ \E c \in {"unknown", "orig"} :
       fmc = [o \in Outputs |-> IF o \in InOut THEN c ELSE "unknown"]
  /\ stash = [f \in InOut |-> "unstashed"]
  /\ made = "none" /\ res = "none"
  /\ ranLocally = FALSE /\ fallback = "none" /\ fallbacks = 0 /\ env = FALSE
  /\ uploaded = [o \in Outputs |-> "none"]
  /\ rr = [i \in 1..MaxReruns |-> "off"] /\ lruns = 0 /\ views = {}
  /\ status = "none"

-----------------------------------------------------------------------------
(* Files and the file metadata cache.                                      *)

Pristine(contents) == \A f \in InOut : contents[f] = "orig"

Made(who, pristine) ==
  IF who = "local"
  THEN IF pristine THEN "local" ELSE "localDirty"
  ELSE IF pristine THEN "remote" ELSE "remoteDirty"

Write(contents, W, c) == [o \in Outputs |-> IF o \in W THEN c ELSE contents[o]]

(* Digesting the inputs fills the entries of the in-out files.             *)
Loaded(cache) ==
  [o \in Outputs |-> IF o \in InOut /\ cache[o] = "unknown" THEN files[o] ELSE cache[o]]

CacheKept(cache) == cache
ClearInputOutputFileCache(cache) ==
  [o \in Outputs |-> IF o \in InOut THEN "unknown" ELSE cache[o]]
ClearOutputsCache(cache) == [o \in Outputs |-> "unknown"]

(* excludeOutputsViaFilter: download_regex overrides download_outputs.     *)
Wanted(r) == IF r.regex \/ r.download THEN Outputs ELSE {}

(* StashFiles leaves out a file that it cannot copy, without a word.       *)
Copies(contents) ==
  {[f \in InOut |-> IF f \in L \/ contents[f] = "none" THEN "unstashed" ELSE contents[f]] :
     L \in IF req.fault = "stash" THEN SUBSET InOut ELSE {{}}}

(* What the function that StashFiles returned may leave.  It ignores the   *)
(* error of a rename: of one to another file system, or of one into a      *)
(* subdirectory of an output directory, which nobody made again.           *)
NothingRestored(contents) == {contents}
Restored(contents) ==
  {[o \in Outputs |-> IF o \in InOut \ L /\ stash[o] # "unstashed" THEN stash[o] ELSE contents[o]] :
     L \in IF req.fault = "restore" THEN SUBSET InOut ELSE {{}}}

(* runLocal on the given files: the process may not start, write all       *)
(* outputs and exit with 0, or write some and fail.  An exit code of 0     *)
(* counts for nothing once ctx has ended.                                  *)
LocalOutcomes(before) ==
  LET c == Made("local", Pristine(before)) IN
  {[files |-> before, res |-> "localErr"],
   [files |-> Write(before, Outputs, c),
    res |-> IF ctx = "live" THEN "success" ELSE "localErr"]}
  \union {[files |-> Write(before, W, c), res |-> "nonZero"] : W \in SUBSET Outputs}

CountFallback == fallbacks' = fallbacks + 1

(* The process leaves its files and its result; "leaks" says that what it  *)
(* was given shares the input specification of a.cmd.                      *)
LocalProcessEnds(leaks) ==
  /\ \E x \in LocalOutcomes(files) : files' = x.files /\ res' = x.res
  /\ ranLocally' = TRUE
  /\ env' = (env \/ leaks)

(* runLocal duplicates the command to add the environment of rewrapper;    *)
(* with a wrapper, it replaces the duplicate by a shallow copy.            *)
RunLocal == LocalProcessEnds(req.wrapper)

-----------------------------------------------------------------------------
(* The environment: the context ends, or the reclient timeout passes.      *)

CtxDone ==
  /\ ctx = "live" /\ pc \notin {"finished", "panicked"}
  /\ ctx' = "done"
  /\ UNCHANGED <<req, pc, timer, fileVars, made, res, recVars, uploaded, rerunVars, status>>

TimeoutIgnored == UNCHANGED timer
FireTimer == timer' = "fired"
ReclientTimeout ==
  /\ timer = "armed"
  /\ FireTimer
  /\ UNCHANGED <<req, pc, ctx, fileVars, made, res, recVars, uploaded, rerunVars, status>>

RCtxDone == ctx = "done" \/ timer = "fired"

-----------------------------------------------------------------------------
(* runAction.                                                              *)

(* The build is failing (shouldFailBuild).                                 *)
RunActionRefused ==
  /\ pc = "runAction"
  /\ res' = "localErr" /\ pc' = "ran"
  /\ UNCHANGED <<req, ctx, timer, fileVars, made, recVars, uploaded, rerunVars, status>>

RunActionLocally ==
  /\ pc = "runAction" /\ req.remoteDisabled
  /\ RunLocal /\ pc' = "ran"
  /\ UNCHANGED <<req, ctx, timer, fmc, stash, made, fallback, fallbacks, uploaded,
                 rerunVars, status>>

Dispatch ==
  /\ pc = "runAction" /\ ~req.remoteDisabled
  /\ pc' = IF req.strategy = "LOCAL" THEN "lercInputs"
           ELSE IF req.strategy = "RACING" THEN "race"
           ELSE IF req.strategy = "UNSPECIFIED" THEN "clear"
           ELSE "inputs"
  /\ timer' = IF pc' = "inputs" THEN "armed" ELSE timer
  /\ res' = IF req.strategy = "UNSPECIFIED" THEN "localErr" ELSE res
  /\ UNCHANGED <<req, ctx, fileVars, made, recVars, uploaded, rerunVars, status>>

(* Every strategy ends by dropping the in-out files from the cache.        *)
Clear ==
  /\ pc = "clear"
  /\ fmc' = ClearInputOutputFileCache(fmc)
  /\ pc' = "ran"
  /\ UNCHANGED <<req, ctx, timer, files, stash, made, res, recVars, uploaded, rerunVars, status>>

-----------------------------------------------------------------------------
(* runLERC.                                                                *)

LercInputsFail ==
  /\ pc = "lercInputs"
  /\ res' = "localErr" /\ pc' = "lercCheck"
  /\ UNCHANGED <<req, ctx, timer, fileVars, made, recVars, uploaded, rerunVars, status>>

LercInputs ==
  /\ pc = "lercInputs"
  /\ pc' = IF req.lercAccept THEN "lercCache" ELSE "lercLocal"
  /\ UNCHANGED <<req, ctx, timer, fileVars, made, res, recVars, uploaded, rerunVars, status>>

(* Without download_regex GetCachedResult has the outputs downloaded, with *)
(* the result, before the dependencies are looked at.                      *)
WithResult == IF req.regex \/ ~req.download THEN {} ELSE Outputs

(* getCachedResult finds nothing, fails, or finds a result whose           *)
(* dependencies do not match.                                              *)
LercCacheMiss ==
  /\ pc = "lercCache"
  /\ LET cache == Loaded(fmc)
         c == Made("remote", Pristine(cache))
     IN \/ res' = "none" /\ fmc' = cache /\ UNCHANGED files
        \/ /\ res' = "remoteErr" /\ fmc' = cache
           /\ \E W \in SUBSET WithResult : files' = Write(files, W, c)
        \/ /\ req.deps /\ res' = "localErr"
           /\ files' = Write(files, WithResult, c) /\ fmc' = Write(cache, WithResult, c)
  /\ pc' = "lercLocal"
  /\ UNCHANGED <<req, ctx, timer, stash, made, recVars, uploaded, rerunVars, status>>

(* getCachedResult has stored the cache hit in a.res before it downloads   *)
(* the outputs (again), and does not look at what becomes of the download. *)
LercCacheHit ==
  /\ pc = "lercCache"
  /\ res' = "cacheHit" /\ pc' = "lercCheck"
  /\ LET cache == Loaded(fmc)
         c == Made("remote", Pristine(cache))
     IN \/ /\ files' = Write(files, Wanted(req), c)
           /\ fmc' = Write(cache, Wanted(req), c)
        \/ /\ req.fault \in {"lercDownload", "flatten"}
           /\ \E W \in SUBSET Wanted(req) : files' = Write(files, W \union WithResult, c)
           /\ fmc' = Write(cache, WithResult, c)
  /\ UNCHANGED <<req, ctx, timer, stash, made, recVars, uploaded, rerunVars, status>>

LercLocal ==
  /\ pc = "lercLocal"
  /\ RunLocal /\ pc' = "lercUpload"
  /\ UNCHANGED <<req, ctx, timer, fmc, stash, made, fallback, fallbacks, uploaded,
                 rerunVars, status>>

(* cacheLocal: only a success is uploaded, with the digests of the outputs *)
(* as the cache sees them after it has been cleared.  Writing the deps     *)
(* file or the upload can fail.                                            *)
OutputsNotCleared(cache) == cache
OutputsToDigest(cache) == ClearOutputsCache(cache)
CacheLocal ==
  /\ pc = "lercUpload"
  /\ \/ UNCHANGED <<fmc, uploaded>>
     \/ /\ res \in Ok /\ req.lercCache
        /\ LET cache == OutputsToDigest(fmc)
               digested == [o \in Outputs |-> IF cache[o] = "unknown" THEN files[o] ELSE cache[o]]
           IN fmc' = digested /\ uploaded' \in {uploaded, digested}
  /\ pc' = "lercCheck"
  /\ UNCHANGED <<req, ctx, timer, files, stash, made, res, recVars, rerunVars, status>>

(* Back in runAction: anything but a success or a non-zero exit is retried *)
(* locally.                                                                *)
LercDone ==
  /\ pc = "lercCheck"
  /\ res \in Ok \union {"nonZero"}
  /\ pc' = "clear"
  /\ UNCHANGED <<req, ctx, timer, fileVars, made, res, recVars, uploaded, rerunVars, status>>

LercFallback ==
  /\ pc = "lercCheck"
  /\ res \notin Ok \union {"nonZero"}
  /\ RunLocal /\ CountFallback
  /\ pc' = "clear"
  /\ UNCHANGED <<req, ctx, timer, fmc, stash, made, fallback, uploaded, rerunVars, status>>

-----------------------------------------------------------------------------
(* runRemote, of the server and of the action.  Everything up to RemoteEnd *)
(* runs under rCtx.                                                        *)

InputsFail ==
  /\ pc = "inputs"
  /\ res' = "localErr" /\ pc' = "remoteEnd"
  /\ UNCHANGED <<req, ctx, timer, fileVars, made, recVars, uploaded, rerunVars, status>>

(* If the wait for an input processor slot was cut off by the timeout, the *)
(* deferred function writes to the remote metadata, which does not exist   *)
(* yet: a nil dereference ends reproxy.                                    *)
InputsTimeoutPanics ==
  /\ pc = "inputs" /\ timer = "fired"
  /\ pc' = "panicked"
  /\ UNCHANGED <<req, ctx, timer, fileVars, made, res, recVars, uploaded, rerunVars, status>>

Inputs ==
  /\ pc = "inputs"
  /\ IF req.compare THEN stash' \in Copies(files) ELSE UNCHANGED stash
  /\ \/ pc' = "exec" /\ UNCHANGED res
     \/ req.atomic /\ pc' = "remoteEnd" /\ res' = "localErr"   \* createTmpDir
  /\ UNCHANGED <<req, ctx, timer, files, fmc, made, recVars, uploaded, rerunVars, status>>

(* A cache hit, or the remote execution succeeds.                          *)
RemoteSucceeds ==
  /\ pc = "exec"
  /\ fmc' = Loaded(fmc)
  /\ made' = Made("remote", Pristine(fmc'))
  /\ res' \in Ok /\ pc' = "download"
  /\ UNCHANGED <<req, ctx, timer, files, stash, recVars, uploaded, rerunVars, status>>

RemoteFails ==
  /\ pc = "exec"
  /\ fmc' = Loaded(fmc)
  /\ res' \in {"nonZero", "remoteErr"}
  /\ pc' = "remoteEnd"
  /\ UNCHANGED <<req, ctx, timer, files, stash, made, recVars, uploaded, rerunVars, status>>

(* GetFlattenedOutputs fails: the successful result stands, and nothing is *)
(* downloaded.                                                             *)
FlattenFails ==
  /\ pc = "download" /\ req.fault = "flatten"
  /\ pc' = "compareEnd"
  /\ UNCHANGED <<req, ctx, timer, fileVars, made, res, recVars, uploaded, rerunVars, status>>

(* DownloadSpecifiedOutputs enters what it wrote into the cache, under the *)
(* path it wrote to: with atomic downloads that is the temporary one.      *)
MoveForgotten == "compareEnd"
AfterDownload == IF req.atomic THEN "move" ELSE "compareEnd"
Download ==
  /\ pc = "download"
  /\ pc' = AfterDownload
  /\ IF req.atomic
     THEN UNCHANGED <<files, fmc>>
     ELSE /\ files' = Write(files, Wanted(req), made)
          /\ fmc' = Write(fmc, Wanted(req), made)
  /\ UNCHANGED <<req, ctx, timer, stash, made, res, recVars, uploaded, rerunVars, status>>

InPlace == Wanted(req)
WrittenInPlace == IF req.atomic THEN {} ELSE Wanted(req)
DownloadFails ==
  /\ pc = "download"
  /\ \E W \in SUBSET WrittenInPlace : files' = Write(files, W, made)
  /\ res' = "remoteErr" /\ pc' = "remoteEnd"
  /\ UNCHANGED <<req, ctx, timer, fmc, stash, made, recVars, uploaded, rerunVars, status>>

(* The remote execution or the download gives up because rCtx has ended.   *)
RemoteInterrupted ==
  /\ pc \in {"exec", "download"} /\ RCtxDone
  /\ IF pc = "download"
     THEN \E W \in SUBSET WrittenInPlace : files' = Write(files, W, made)
     ELSE UNCHANGED files
  /\ res' \in {"interrupted", "remoteErr"} /\ pc' = "remoteEnd"
  /\ UNCHANGED <<req, ctx, timer, fmc, stash, made, recVars, uploaded, rerunVars, status>>

MoveOutputsFromTemp ==
  /\ pc = "move"
  /\ files' = Write(files, Wanted(req), made)
  /\ pc' = "compareEnd"
  /\ UNCHANGED <<req, ctx, timer, fmc, stash, made, res, recVars, uploaded, rerunVars, status>>

MoveFails ==
  /\ pc = "move" /\ req.fault = "move"
  /\ \E W \in SUBSET Wanted(req) : files' = Write(files, W, made)
  /\ res' = "localErr" /\ pc' = "remoteEnd"
  /\ UNCHANGED <<req, ctx, timer, fmc, stash, made, recVars, uploaded, rerunVars, status>>

(* A success in compare mode: the outputs are removed and the in-out files *)
(* put back for the local reruns.                                          *)
CompareEnd ==
  /\ pc = "compareEnd"
  /\ IF req.compare
     THEN files' \in Restored(Write(files, Outputs, "none")) /\ fmc' = ClearInputOutputFileCache(fmc)
     ELSE UNCHANGED <<files, fmc>>
  /\ pc' = "remoteEnd"
  /\ UNCHANGED <<req, ctx, timer, stash, made, res, recVars, uploaded, rerunVars, status>>

(* The deferred functions of runRemote: the timer stops, and an            *)
(* interruption by it becomes a timeout.                                   *)
RemoteEnd ==
  /\ pc = "remoteEnd"
  /\ timer' = "off"
  /\ res' = IF res = "interrupted" /\ timer = "fired" THEN "timeout" ELSE res
  /\ IF req.strategy = "REMOTE_LOCAL_FALLBACK" /\ res \notin Ok
     THEN pc' = "fallback" /\ fallback' = res'
     ELSE pc' = "clear" /\ UNCHANGED fallback
  /\ UNCHANGED <<req, ctx, fileVars, made, ranLocally, fallbacks, env, uploaded, rerunVars, status>>

(* The local fallback runs under the action's context, not under rCtx.     *)
Fallback ==
  /\ pc = "fallback"
  /\ RunLocal /\ CountFallback
  /\ pc' = "clear"
  /\ UNCHANGED <<req, ctx, timer, fmc, stash, made, fallback, uploaded, rerunVars, status>>

-----------------------------------------------------------------------------
(* runRacing, with the outcomes that RaceOutcome.tla promises.             *)

RaceRemoteWins ==
  /\ pc = "race"
  /\ fmc' = Loaded(fmc)
  /\ files' = Write(files, Wanted(req), Made("remote", Pristine(fmc')))
  /\ res' \in Ok /\ pc' = "clear"
  /\ UNCHANGED <<req, ctx, timer, stash, made, recVars, uploaded, rerunVars, status>>

(* runLocalRace adds the environment to a duplicate that shares the map of *)
(* environment variables, if there is one.  The remote side may have given *)
(* up before.                                                              *)
RaceLocalWins ==
  /\ pc = "race"
  /\ fmc' = Loaded(fmc)
  /\ LocalProcessEnds(req.envVars) /\ res' # "localErr"
  /\ fallbacks' \in {fallbacks, fallbacks + 1}
  /\ pc' = "clear"
  /\ UNCHANGED <<req, ctx, timer, stash, made, fallback, uploaded, rerunVars, status>>

(* No input, an interrupted race, or a failed move.                        *)
RaceFails ==
  /\ pc = "race"
  /\ fmc' \in {fmc, Loaded(fmc)}
  /\ \E W \in SUBSET Outputs, who \in {"local", "remote"} :
       files' = Write(files, W, Made(who, TRUE))
  /\ res' \in {"localErr", "remoteErr"} /\ pc' = "clear"
  /\ UNCHANGED <<req, ctx, timer, stash, made, recVars, uploaded, rerunVars, status>>

-----------------------------------------------------------------------------
(* rerunAction.                                                            *)

(* duplicate: every rerun is an action of its own with the command, the     *)
(* options and the execution context of a.                                 *)
Duplicate(n) == [i \in 1..MaxReruns |-> IF i <= n THEN "exec" ELSE "done"]

AfterRunAction ==
  /\ pc = "ran"
  /\ IF req.compare
     THEN /\ pc' = "remoteReruns"
          /\ rr' = Duplicate(req.remote)
     ELSE pc' = "log" /\ UNCHANGED rr
  /\ UNCHANGED <<req, ctx, timer, fileVars, made, res, recVars, uploaded, lruns, views, status>>

(* The reruns have DownloadOutputs off, which download_regex overrides.    *)
RerunWanted == Wanted([req EXCEPT !.download = FALSE])

RemoteRerun(i) ==
  /\ pc = "remoteReruns" /\ rr[i] = "exec"
  /\ fmc' = Loaded(fmc)
  /\ views' = views \union {Pristine(fmc')}
  /\ \/ rr' = [rr EXCEPT ![i] = "done"]    \* failed, or nothing to download
     \/ RerunWanted # {} /\ rr' = [rr EXCEPT ![i] = Made("remote", Pristine(fmc'))]
  /\ UNCHANGED <<req, pc, ctx, timer, files, stash, made, res, recVars, uploaded, lruns, status>>

(* Without a temporary directory there is no remote metadata to copy: a    *)
(* nil dereference ends reproxy.                                           *)
RemoteRerunPanics(i) ==
  /\ pc = "remoteReruns" /\ rr[i] = "exec" /\ req.atomic
  /\ pc' = "panicked"
  /\ UNCHANGED <<req, ctx, timer, fileVars, made, res, recVars, uploaded, rerunVars, status>>

RemoteRerunDownload(i) ==
  /\ pc = "remoteReruns" /\ rr[i] \in Content
  /\ \/ /\ files' = Write(files, RerunWanted, rr[i])
        /\ fmc' = IF req.atomic THEN fmc ELSE Write(fmc, RerunWanted, rr[i])
     \/ /\ \E W \in SUBSET (IF req.atomic THEN {} ELSE RerunWanted) :
             files' = Write(files, W, rr[i])
        /\ UNCHANGED fmc
  /\ rr' = [rr EXCEPT ![i] = "done"]
  /\ UNCHANGED <<req, pc, ctx, timer, stash, made, res, recVars, uploaded, lruns, views, status>>

RemoteRerunsDone ==
  /\ pc = "remoteReruns"
  /\ \A i \in 1..MaxReruns : rr[i] = "done"
  /\ stash' \in Copies(files)
  /\ pc' = "localReruns"
  /\ UNCHANGED <<req, ctx, timer, files, fmc, made, res, recVars, uploaded, rerunVars, status>>

(* Each local rerun starts with the in-out files of the stash.  Its result *)
(* goes to the rerun's own record.                                         *)
LocalRerun ==
  /\ pc = "localReruns" /\ lruns < req.local
  /\ \E before \in Restored(files) :
       /\ stash' \in Copies(before)
       /\ views' = views \union {Pristine(before)}
       /\ \E x \in LocalOutcomes(before) : files' = x.files
  /\ fmc' = ClearInputOutputFileCache(ClearOutputsCache(fmc))
  /\ lruns' = lruns + 1
  /\ UNCHANGED <<req, pc, ctx, timer, made, res, recVars, uploaded, rr, status>>

LocalRerunsDone ==
  /\ pc = "localReruns" /\ lruns = req.local
  /\ pc' = "log"
  /\ UNCHANGED <<req, ctx, timer, fileVars, made, res, recVars, uploaded, rerunVars, status>>

-----------------------------------------------------------------------------
(* getCompletionStatus, from the record's result, the strategy and         *)
(* ExecutedLocally.                                                        *)
StatusOfStrategy(r, strategy, locally) ==
  IF r = "success" THEN "REMOTE_EXECUTION" ELSE "UNKNOWN"
CompletionStatus(r, strategy, locally) ==
  IF r = "nonZero" THEN "NON_ZERO_EXIT"
  ELSE IF r = "cacheHit" THEN "CACHE_HIT"
  ELSE IF r = "timeout" THEN "TIMEOUT"
  ELSE IF r = "interrupted" THEN "INTERRUPTED"
  ELSE IF r = "remoteErr" THEN "REMOTE_FAILURE"
  ELSE IF r = "localErr" THEN "LOCAL_FAILURE"
  ELSE IF strategy = "LOCAL" THEN "LOCAL_EXECUTION"
  ELSE IF strategy = "REMOTE" THEN IF locally THEN "LOCAL_EXECUTION" ELSE "REMOTE_EXECUTION"
  ELSE IF strategy = "REMOTE_LOCAL_FALLBACK" THEN IF locally THEN "LOCAL_FALLBACK" ELSE "REMOTE_EXECUTION"
  ELSE IF strategy = "RACING" THEN IF locally THEN "RACING_LOCAL" ELSE "RACING_REMOTE"
  ELSE "UNKNOWN"

LogRecord ==
  /\ pc = "log"
  /\ status' = CompletionStatus(res, req.strategy, ranLocally)
  /\ pc' = "finished"
  /\ UNCHANGED <<req, ctx, timer, fileVars, made, res, recVars, uploaded, rerunVars>>

-----------------------------------------------------------------------------
RunActionStep == RunActionRefused \/ Dispatch \/ Clear \/ AfterRunAction \/ LogRecord
LercStep ==
  \/ LercInputsFail \/ LercInputs \/ LercCacheMiss \/ LercCacheHit
  \/ CacheLocal \/ LercDone
RemoteStep ==
  \/ InputsFail \/ InputsTimeoutPanics \/ Inputs
  \/ MoveOutputsFromTemp \/ MoveFails \/ CompareEnd \/ RemoteInterrupted \/ RemoteEnd
RemoteCall ==
  \/ RemoteSucceeds \/ RemoteFails
  \/ FlattenFails \/ Download \/ DownloadFails
LocalProcess == RunActionLocally \/ LercLocal \/ LercFallback \/ Fallback
RaceStep == RaceRemoteWins \/ RaceLocalWins \/ RaceFails
RerunStep ==
  \/ \E i \in 1..MaxReruns :
       RemoteRerun(i) \/ RemoteRerunPanics(i) \/ RemoteRerunDownload(i)
  \/ RemoteRerunsDone \/ LocalRerun \/ LocalRerunsDone

Next ==
  \/ CtxDone \/ ReclientTimeout \/ RunActionStep \/ LercStep \/ RemoteStep \/ RemoteCall
  \/ LocalProcess \/ RaceStep \/ RerunStep

Spec == Init /\ [][Next]_vars

(* reproxy is scheduled, its timer fires, and local processes end.  A      *)
(* remote call need not return before rCtx ends, nor need ctx ever end.    *)
FairSpec ==
  /\ Spec
  /\ WF_vars(RunActionStep) /\ WF_vars(RemoteStep) /\ WF_vars(ReclientTimeout)
  /\ WF_vars(LocalProcess)

-----------------------------------------------------------------------------
(* Properties.                                                             *)

(* A reported success has its outputs in the exec root: all of them after  *)
(* a local run, the downloaded ones otherwise.  "Download command outputs  *)
(* after execution. Defaults to true." (api/proxy/proxy.proto:225)  Not so *)
(* if the list of outputs cannot be had or the download of a LERC cache    *)
(* hit fails (LercHitsHaveOutputs), and in compare mode, which leaves it   *)
(* to the local reruns to make the outputs again.                          *)
HasOutputs ==
  \A o \in IF ranLocally THEN Outputs ELSE Wanted(req) : files[o] \notin {"orig", "old", "none"}
SuccessHasOutputs ==
  /\ TypeOK
  /\ (/\ pc = "finished" /\ res \in Ok
      /\ ~req.compare /\ req.fault \notin {"flatten", "lercDownload"}) => HasOutputs

(* The same of a cache hit of local execution with remote caching, also if *)
(* its download fails: DownloadOutputs "will overwrite the result in the   *)
(* exec context" (action.go:445).                                          *)
LercHitsHaveOutputs ==
  (pc = "finished" /\ req.strategy = "LOCAL" /\ res = "cacheHit" /\ ~ranLocally) => HasOutputs

(* The completion status in the log record says whose outputs are in the   *)
(* exec root: after a success through the remote side no local process has *)
(* left anything there, after a fallback no remote output is left, and the *)
(* failure that led to it is reported.                                     *)
StatusMatchesFiles ==
  pc = "finished" /\ ~req.compare =>
    /\ status \in {"REMOTE_EXECUTION", "CACHE_HIT", "RACING_REMOTE"} =>
         \A o \in Outputs : files[o] \notin {"local", "localDirty"}
    /\ status \in {"LOCAL_FALLBACK", "LOCAL_EXECUTION", "RACING_LOCAL"} =>
         \A o \in Outputs : files[o] \in {"local", "localDirty"}
    /\ status = "LOCAL_FALLBACK" /\ ~req.remoteDisabled =>
         fallbacks = 1 /\ fallback \notin Ok \union {"none"}

(* Whoever runs an action again is given the original in-out files.  With  *)
(* atomic downloads a remote failure leaves them alone, so that the local  *)
(* fallback works on them, whenever the timeout or the end of ctx strikes  *)
(* (unless it is the move itself that fails half way).                     *)
(* After a remote success in compare mode every rerun, remote or local,    *)
(* finds them although the download and each local rerun overwrite them,   *)
(* and none is lost: StashFiles "returns a function that restores the      *)
(* original files" (stash.go:25).  That holds as long as every copy and    *)
(* every rename of an in-out file succeeds, whose errors stash.go:33-52    *)
(* and 62 ignore: with one of those faults a rerun gets what is there.     *)
RerunsSeeOriginals ==
  /\ (req.strategy = "REMOTE_LOCAL_FALLBACK" /\ req.atomic /\ ~req.compare /\ req.fault # "move") =>
       \A o \in Outputs : files[o] # "localDirty"
  /\ (req.strategy \in {"REMOTE", "REMOTE_LOCAL_FALLBACK"} /\ req.compare /\ ~req.regex
        /\ req.fault \notin {"stash", "restore"} /\ res \in Ok /\ ~ranLocally) => FALSE \notin views
  /\ (req.compare /\ req.fault \notin {"stash", "restore"} /\ pc = "finished") =>
       \A f \in InOut : files[f] # "none"

(* When an action is done, the file metadata cache has no stale digest of  *)
(* an in-out file: "A local fallback might update the in-out file without  *)
(* invalidating its cache entry" (server.go:694).  Remote reruns that      *)
(* download because of download_regex, with no local rerun after them, are *)
(* the exception.                                                          *)
InOutDigestsFresh ==
  (pc = "finished" /\ ~req.remoteDisabled
     /\ ~(req.compare /\ req.regex /\ req.local = 0)) =>
    \A f \in InOut : fmc[f] \in {"unknown", files[f]}

(* What LERC puts into the remote cache is what the local run produced,    *)
(* also for in-out files, whose old digests were cached as inputs.         *)
UploadsMatchOutputs == [][uploaded' # uploaded => uploaded' = files']_uploaded

(* The environment of rewrapper is not in the command when its action key  *)
(* is computed: "these variables shouldn't become a part of the            *)
(* action-cache key" (action.go:108).  cacheLocal computes the key if no   *)
(* lookup has done so.                                                     *)
EnvNotInActionKey ==
  \/ pc \in {"exec", "lercCache"}
  \/ pc = "lercUpload" /\ ~req.lercAccept /\ req.lercCache /\ res \in Ok
  \/ \E i \in 1..MaxReruns : rr[i] = "exec"
  => ~env

(* The reclient timeout ends every remote run that hangs, and the local    *)
(* fallback that follows is not affected by it.  (Reruns have no timeout.) *)
RemoteActionsEnd == (pc = "inputs" /\ ~req.compare) ~> (pc \in {"finished", "panicked"})
=============================================================================
