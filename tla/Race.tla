-------------------------------- MODULE Race --------------------------------
(***************************************************************************)
(* Racing execution of one action (internal/pkg/reproxy/action.go: race,   *)
(* runRemoteRace, runLocalRace, moveOutputsFromTemp; server.go: runRacing, *)
(* localexec.go: LocalPool.Run).                                           *)
(*                                                                         *)
(* Four goroutines share the action: the caller of race ("main"), the      *)
(* remote racer, the hold-off timer that the remote racer starts on a      *)
(* cache hit, and the local racer.  The racers report to main over the     *)
(* channel ch, of capacity 2; the remote racer starts the local one by     *)
(* closing lCh; main stops a local racer that is still queued by           *)
(* cancelling cCtx.                                                        *)
(*                                                                         *)
(* Each racer sends exactly one raceResult, so ch holds the names of the   *)
(* senders and msg[s] the value s sends.                                   *)
(***************************************************************************)
EXTENDS Naturals, Sequences

CONSTANTS
  OutputFiles,  \* cmd.OutputFiles
  OutputDirs,   \* cmd.OutputDirs
  Filtered      \* the outputs that excludeOutputsViaFilter keeps out of the
                \* download (download_regex, or download_outputs=false)

Outputs == OutputFiles \union OutputDirs

ASSUME RaceAssumption ==
  /\ OutputFiles \intersect OutputDirs = {}
  /\ Filtered \subseteq Outputs

VARIABLES
  ctx,        \* the action's context: "live", or why it is done
  cCtx,       \* the context race derives from it to stop a queued local racer
  lCh,        \* lCh is closed: local execution may start
  rpc,        \* control state of the remote racer
  holdoff,    \* the goroutine that closes lCh after the hold-off
  lpc,        \* control state of the local racer
  msg,        \* the raceResult each racer sends
  ch,         \* the channel of race results
  main,       \* control state of race and of its caller runRacing
  winner,     \* the sender of the raceResult that main holds in "winner"
  toMove,     \* outputs moveOutputsFromTemp has not dealt with yet
  outs,       \* who wrote each output in the exec root
  tmp,        \* the outputs present in tmpDir
  cleanup,    \* the deferred goroutine has removed tmpDir
  res,        \* a.res
  oe,         \* whose stdout and stderr a.oe holds
  fallbacks   \* what race added to Server.numFallbacks

remoteVars == <<rpc, holdoff, lCh, tmp>>
localVars  == <<lpc>>
mainVars   == <<main, winner, toMove, fallbacks, oe>>
vars == <<ctx, cCtx, remoteVars, localVars, msg, ch, mainVars, outs, res, cleanup>>

Side == {"remote", "local"}
CtxState == {"live", "canceled", "deadline"}
ResultType == {"remote", "local", "canceled"}

(* The command.Result values told apart: an action can end with what the   *)
(* remote execution or the local process produced, or with an error.       *)
Result == {"none", "remoteOk", "remoteFailed", "localExit", "localErr",
           "ctxErr", "tmpErr", "moveErr", "noResult"}

(* raceResult: its type, its result and whose output its oe field holds.   *)
RaceResult == [t : ResultType, res : Result, oe : {"nil", "remote", "local"}]
Canceled(r) == [t |-> "canceled", res |-> r, oe |-> "nil"]
RemoteWins == [t |-> "remote", res |-> "remoteOk", oe |-> "remote"]
LocalWins == [t |-> "local", res |-> "localExit", oe |-> "local"]
DownloadFailed == [t |-> "canceled", res |-> "remoteFailed", oe |-> "remote"]

TypeOK ==
  /\ ctx \in CtxState
  /\ cCtx \in CtxState
  /\ lCh \in BOOLEAN
  /\ rpc \in {"off", "newContext", "getCached", "execute", "download", "send", "done"}
  /\ holdoff \in {"off", "sleeping", "done"}
  /\ lpc \in {"off", "select", "queued", "locked", "running", "send", "done"}
  /\ msg \in [Side -> RaceResult]
  /\ ch \in Seq(Side)
  /\ main \in {"start", "first", "second", "move", "returned", "finished"}
  /\ winner \in Side \union {"none"}
  /\ toMove \subseteq Outputs
  /\ outs \in [Outputs -> {"pre", "local", "remote", "removed"}]
  /\ tmp \subseteq Outputs
  /\ cleanup \in BOOLEAN
  /\ res \in Result
  /\ oe \in {"action", "remote", "local", "nil", "fresh"}
  /\ fallbacks \in {0, 1}

Init ==
  /\ ctx = "live" /\ cCtx = "live" /\ lCh = FALSE
  /\ rpc = "off" /\ holdoff = "off" /\ lpc = "off"
  /\ msg = [s \in Side |-> Canceled("none")]
  /\ ch = <<>>
  /\ main = "start" /\ winner = "none" /\ toMove = {}
  /\ outs = [o \in Outputs |-> "pre"]
  /\ tmp = {} /\ cleanup = FALSE
  /\ res = "none" /\ oe = "action" /\ fallbacks = 0

-----------------------------------------------------------------------------
(* The environment.                                                        *)

(* The action's context ends: the client went away or its deadline passed, *)
(* the server drains, or checkFailBuild cancels the active actions.        *)
(* "deadline" stands for every error other than context.Canceled.          *)
(* Cancelling a context also cancels the ones derived from it.             *)
CtxDone ==
  /\ ctx = "live"
  /\ ctx' \in {"canceled", "deadline"}
  /\ cCtx' = IF cCtx = "live" THEN ctx' ELSE cCtx
  /\ UNCHANGED <<remoteVars, localVars, msg, ch, mainVars, outs, res, cleanup>>

-----------------------------------------------------------------------------
(* race: set-up.                                                           *)

(* The temporary directory cannot be created: race ends before it starts.  *)
TmpDirFails ==
  /\ main = "start"
  /\ main' = "returned"
  /\ res' = "tmpErr"
  /\ UNCHANGED <<ctx, cCtx, remoteVars, localVars, msg, ch, winner, toMove,
                 fallbacks, oe, outs, cleanup>>

StartRace ==
  /\ main = "start"
  /\ main' = "first"
  /\ rpc' = "newContext"
  /\ lpc' = "select"
  /\ UNCHANGED <<ctx, cCtx, lCh, holdoff, msg, ch, winner, toMove, outs, tmp,
                 res, oe, fallbacks, cleanup>>

-----------------------------------------------------------------------------
(* runRemoteRace.  The remote calls use a background context: nothing that *)
(* happens to ctx or cCtx interrupts them.                                 *)

(* The racer leaves runRemoteRace with the given raceResult.               *)
RemoteReturns(m) ==
  /\ rpc' = "send"
  /\ msg' = [msg EXCEPT !["remote"] = m]

NewContextFails ==
  /\ rpc = "newContext"
  /\ lCh' = TRUE
  /\ RemoteReturns(Canceled("remoteFailed"))
  /\ UNCHANGED <<ctx, cCtx, holdoff, localVars, ch, mainVars, outs, tmp, res, cleanup>>

NewContext ==
  /\ rpc = "newContext"
  /\ rpc' = "getCached"
  /\ UNCHANGED <<ctx, cCtx, holdoff, lCh, localVars, msg, ch, mainVars, outs, tmp, res, cleanup>>

(* Cache miss: local execution may start, then the action runs remotely.   *)
CacheMiss ==
  /\ rpc = "getCached"
  /\ lCh' = TRUE
  /\ rpc' = "execute"
  /\ UNCHANGED <<ctx, cCtx, holdoff, localVars, msg, ch, mainVars, outs, tmp, res, cleanup>>

(* Cache hit: a goroutine lets local execution start after the hold-off,   *)
(* and this one goes on with the download.                                 *)
HoldoffForgotten == UNCHANGED holdoff
StartHoldoff == holdoff' = "sleeping"
CacheHit ==
  /\ rpc = "getCached"
  /\ StartHoldoff
  /\ rpc' = "download"
  /\ UNCHANGED <<ctx, cCtx, lCh, localVars, msg, ch, mainVars, outs, tmp, res, cleanup>>

(* GetCachedResult reports an error: local execution starts at once.       *)
CacheError ==
  /\ rpc = "getCached"
  /\ lCh' = TRUE
  /\ RemoteReturns(Canceled("remoteFailed"))
  /\ UNCHANGED <<ctx, cCtx, holdoff, localVars, ch, mainVars, outs, tmp, res, cleanup>>

HoldoffElapses ==
  /\ holdoff = "sleeping"
  /\ holdoff' = "done"
  /\ lCh' = TRUE
  /\ UNCHANGED <<ctx, cCtx, rpc, tmp, localVars, msg, ch, mainVars, outs, res, cleanup>>

(* ExecuteRemotely returns.  With cCtx done the result is dropped, whatever *)
(* it is.                                                                  *)
ExecuteRemotely ==
  /\ rpc = "execute"
  /\ \/ cCtx # "live" /\ RemoteReturns(Canceled("none"))
     \/ cCtx = "live" /\ RemoteReturns(Canceled("remoteFailed"))
     \/ cCtx = "live" /\ rpc' = "download" /\ UNCHANGED msg
  /\ UNCHANGED <<ctx, cCtx, lCh, holdoff, tmp, localVars, ch, mainVars, outs, res, cleanup>>

(* One more output reaches tmpDir, also one that the filter excludes if    *)
(* GetFlattenedOutputs failed: then everything is downloaded.              *)
DownloadOutput(o) ==
  /\ rpc = "download"
  /\ o \notin tmp
  /\ tmp' = tmp \union {o}
  /\ UNCHANGED <<ctx, cCtx, lCh, holdoff, rpc, localVars, msg, ch, mainVars, outs, res, cleanup>>

(* The download returns: with an error at any moment, without one only     *)
(* when every output has been written, or every one that passes the filter *)
(* (DownloadSpecifiedOutputs).                                             *)
DownloadReturns ==
  /\ rpc = "download"
  /\ \/ cCtx # "live" /\ RemoteReturns(Canceled("none"))
     \/ cCtx = "live" /\ RemoteReturns(DownloadFailed)
     \/ /\ cCtx = "live"
        /\ tmp \in {Outputs, Outputs \ Filtered}
        /\ RemoteReturns(RemoteWins)
  /\ UNCHANGED <<ctx, cCtx, lCh, holdoff, tmp, localVars, ch, mainVars, outs, res, cleanup>>

RemoteSends ==
  /\ rpc = "send"
  /\ ch' = Append(ch, "remote")
  /\ rpc' = "done"
  /\ UNCHANGED <<ctx, cCtx, lCh, holdoff, tmp, localVars, msg, mainVars, outs, res, cleanup>>

-----------------------------------------------------------------------------
(* The local racer: the select of race, then runLocalRace and              *)
(* LocalPool.Run.                                                          *)

LocalReturns(m) ==
  /\ lpc' = "send"
  /\ msg' = [msg EXCEPT !["local"] = m]

LocalReleased ==
  /\ lpc = "select"
  /\ lCh
  /\ lpc' = "queued"
  /\ UNCHANGED <<ctx, cCtx, remoteVars, msg, ch, mainVars, outs, res, cleanup>>

LocalNotNeeded ==
  /\ lpc = "select"
  /\ cCtx # "live"
  /\ LocalReturns(Canceled("none"))
  /\ UNCHANGED <<ctx, cCtx, remoteVars, ch, mainVars, outs, res, cleanup>>

(* Manager.Lock gives up when cCtx is done.  Only context.Canceled counts  *)
(* as an intended cancellation.                                            *)
LockFails ==
  /\ lpc = "queued"
  /\ cCtx # "live"
  /\ LocalReturns(Canceled(IF cCtx = "canceled" THEN "none" ELSE "localErr"))
  /\ UNCHANGED <<ctx, cCtx, remoteVars, ch, mainVars, outs, res, cleanup>>

(* Manager.Lock succeeds only while cCtx is live; cancelling cCtx later no *)
(* longer stops the local execution.                                       *)
LockAcquired ==
  /\ lpc = "queued"
  /\ cCtx = "live"
  /\ lpc' = "locked"
  /\ UNCHANGED <<ctx, cCtx, remoteVars, msg, ch, mainVars, outs, res, cleanup>>

(* The process cannot be started, for a reason of its own or because ctx   *)
(* is done.                                                                *)
ProcessNotStarted ==
  /\ lpc = "locked"
  /\ \/ LocalReturns(Canceled("localErr"))
     \/ ctx = "canceled" /\ LocalReturns(Canceled("none"))
  /\ UNCHANGED <<ctx, cCtx, remoteVars, ch, mainVars, outs, res, cleanup>>

ProcessStarts ==
  /\ lpc = "locked"
  /\ lpc' = "running"
  /\ UNCHANGED <<ctx, cCtx, remoteVars, msg, ch, mainVars, outs, res, cleanup>>

(* The running process writes one of the outputs in the exec root.         *)
ProcessWrites(o) ==
  /\ lpc = "running"
  /\ outs' = [outs EXCEPT ![o] = "local"]
  /\ UNCHANGED <<ctx, cCtx, remoteVars, localVars, msg, ch, mainVars, res, cleanup>>

(* The process exits, with any exit code, also by being killed when ctx is *)
(* done.  runLocalRace stores the result in the action before it reports.  *)
ProcessExits ==
  /\ lpc = "running"
  /\ LocalReturns(LocalWins)
  /\ res' = "localExit"
  /\ UNCHANGED <<ctx, cCtx, remoteVars, ch, mainVars, outs, cleanup>>

(* ctx ends, and the process exits with code 0 before it can be killed:    *)
(* Cmd.Wait reports the context's error instead.                           *)
ProcessInterrupted ==
  /\ lpc = "running"
  /\ ctx # "live"
  /\ LocalReturns(Canceled(IF ctx = "canceled" THEN "none" ELSE "localErr"))
  /\ UNCHANGED <<ctx, cCtx, remoteVars, ch, mainVars, outs, res, cleanup>>

LocalSends ==
  /\ lpc = "send"
  /\ ch' = Append(ch, "local")
  /\ lpc' = "done"
  /\ UNCHANGED <<ctx, cCtx, remoteVars, msg, mainVars, outs, res, cleanup>>

-----------------------------------------------------------------------------
(* race: choosing the winner.                                              *)

(* race returns after the winner is known and its result stored.           *)
Return(w, r) ==
  /\ main' = "returned"
  /\ winner' = w
  /\ res' = r
  /\ oe' = msg[w].oe

(* A raceResult with a winner of type canceled sets a.res if it has one.   *)
ResAfter(w) ==
  IF msg[w].t = "canceled" /\ msg[w].res # "none" THEN msg[w].res ELSE res

CancelsLocal(w) == msg[w].t # "canceled"

(* The first result.  Unless it says "canceled" it cancels cCtx; only a    *)
(* local result needs no second one.                                       *)
FirstResult ==
  /\ main = "first"
  /\ ch # <<>>
  /\ LET w == Head(ch) IN
     /\ ch' = Tail(ch)
     /\ cCtx' = IF CancelsLocal(w) /\ cCtx = "live" THEN "canceled" ELSE cCtx
     /\ IF msg[w].t = "local"
        THEN Return(w, res)
        ELSE main' = "second" /\ winner' = w /\ UNCHANGED <<res, oe>>
  /\ UNCHANGED <<ctx, remoteVars, localVars, msg, toMove, fallbacks, outs, cleanup>>

(* The second result replaces the first one only if it is local.           *)
FirstWinner(second) == winner
SecondWinner(second) == IF msg[second].t = "local" THEN second ELSE winner

FallbackAnyLocal(second) == IF msg[second].t = "local" THEN fallbacks + 1 ELSE fallbacks
FallbacksAfter(second) ==
  IF msg[winner].t = "canceled" /\ msg[second].t = "local" THEN fallbacks + 1 ELSE fallbacks

SecondResult ==
  /\ main = "second"
  /\ ch # <<>>
  /\ ch' = Tail(ch)
  /\ fallbacks' = FallbacksAfter(Head(ch))
  /\ LET w == SecondWinner(Head(ch)) IN
     IF msg[w].t = "remote"
     THEN /\ main' = "move" /\ winner' = w /\ toMove' = Outputs
          /\ UNCHANGED <<res, oe>>
     ELSE Return(w, ResAfter(w)) /\ UNCHANGED toMove
  /\ UNCHANGED <<ctx, cCtx, remoteVars, localVars, msg, outs, cleanup>>

(* Either wait ends when the action's context does.                        *)
WaitInterrupted ==
  /\ main \in {"first", "second"}
  /\ ctx # "live"
  /\ main' = "returned"
  /\ res' = "ctxErr"
  /\ UNCHANGED <<ctx, cCtx, remoteVars, localVars, msg, ch, winner, toMove,
                 fallbacks, oe, outs, cleanup>>

-----------------------------------------------------------------------------
(* moveOutputsFromTemp: the files first, then the directories.             *)

Movable(o) == o \in toMove /\ (o \in OutputFiles \/ toMove \subseteq OutputDirs)

(* An output that is not in tmpDir is skipped; the metadata of one that is *)
(* there can be read.                                                      *)
SkipOutput(o) ==
  /\ main = "move"
  /\ Movable(o)
  /\ o \notin tmp
  /\ toMove' = toMove \ {o}
  /\ UNCHANGED <<ctx, cCtx, remoteVars, localVars, msg, ch, main, winner,
                 fallbacks, oe, outs, res, cleanup>>

MoveOutput(o) ==
  /\ main = "move"
  /\ Movable(o)
  /\ o \in tmp
  /\ toMove' = toMove \ {o}
  /\ tmp' = tmp \ {o}
  /\ outs' = [outs EXCEPT ![o] = "remote"]
  /\ UNCHANGED <<ctx, cCtx, rpc, holdoff, lCh, localVars, msg, ch, main, winner,
                 fallbacks, oe, res, cleanup>>

(* A directory or a rename fails: race returns an error with the outputs   *)
(* moved so far in place.  A directory's old contents are already gone.    *)
MoveFails(o) ==
  /\ main = "move"
  /\ Movable(o)
  /\ o \in tmp
  /\ main' = "returned"
  /\ res' = "moveErr"
  /\ \/ UNCHANGED outs
     \/ o \in OutputDirs /\ outs' = [outs EXCEPT ![o] = "removed"]
  /\ UNCHANGED <<ctx, cCtx, remoteVars, localVars, msg, ch, winner, toMove,
                 fallbacks, oe, cleanup>>

FilesMoved == toMove \subseteq OutputDirs
AllMoved == toMove = {}
MoveDone ==
  /\ main = "move"
  /\ AllMoved
  /\ Return(winner, msg[winner].res)
  /\ UNCHANGED <<ctx, cCtx, remoteVars, localVars, msg, ch, toMove, fallbacks, outs, cleanup>>

-----------------------------------------------------------------------------
(* The goroutine that removes tmpDir, once, when race has returned.  The   *)
(* remote racer may still be downloading into it.                          *)
CleanupTmpDir ==
  /\ main \in {"returned", "finished"}
  /\ rpc # "off"
  /\ ~cleanup
  /\ cleanup' = TRUE
  /\ tmp' = {}
  /\ UNCHANGED <<ctx, cCtx, rpc, holdoff, lCh, localVars, msg, ch, mainVars, outs, res>>

(* runRacing after race: there is always a result and an OutErr.           *)
FinishRacing ==
  /\ main = "returned"
  /\ main' = "finished"
  /\ res' = IF res = "none" THEN "noResult" ELSE res
  /\ oe' = IF oe = "nil" THEN "fresh" ELSE oe
  /\ UNCHANGED <<ctx, cCtx, remoteVars, localVars, msg, ch, winner, toMove,
                 fallbacks, outs, cleanup>>

-----------------------------------------------------------------------------
RemoteStep ==
  \/ NewContextFails \/ NewContext
  \/ CacheMiss \/ CacheHit \/ CacheError
  \/ HoldoffElapses \/ RemoteSends
RemoteWork == ExecuteRemotely \/ DownloadReturns \/ \E o \in Outputs : DownloadOutput(o)
LocalStep ==
  \/ LocalReleased \/ LocalNotNeeded \/ LockFails
  \/ ProcessNotStarted \/ ProcessStarts \/ LocalSends
LocalWork ==
  \/ LockAcquired \/ ProcessExits \/ ProcessInterrupted
  \/ \E o \in Outputs : ProcessWrites(o)
MainStep ==
  \/ TmpDirFails \/ StartRace \/ FirstResult \/ SecondResult \/ WaitInterrupted
  \/ \E o \in Outputs : SkipOutput(o) \/ MoveOutput(o) \/ MoveFails(o)
  \/ MoveDone \/ FinishRacing

Next ==
  \/ CtxDone \/ RemoteStep \/ RemoteWork \/ LocalStep \/ LocalWork
  \/ MainStep \/ CleanupTmpDir

Spec == Init /\ [][Next]_vars

(* The goroutines of reproxy are scheduled.  Nothing is assumed here of    *)
(* the remote execution, the local process or the wait for local           *)
(* resources, and ctx need not end.                                        *)
FairSpec == Spec /\ WF_vars(RemoteStep) /\ WF_vars(LocalStep) /\ WF_vars(MainStep)

-----------------------------------------------------------------------------
(* Properties.                                                             *)

(* While the action's context is live, the exec root never holds outputs   *)
(* of the local process next to outputs that race moved there: a remote    *)
(* winner waits for the local racer before it moves anything.              *)
NoMixedOutputs ==
  ctx = "live" =>
    \A o, p \in Outputs : ~(outs[o] = "local" /\ outs[p] \in {"remote", "removed"})

(* A reported success matches the exec root: a remote one has every output *)
(* that passed the download filter in place, a local one no remote output. *)
OutputsMatchResult ==
  main \in {"returned", "finished"} =>
    /\ res = "remoteOk" => \A o \in Outputs \ Filtered : outs[o] = "remote"
    /\ res = "localExit" => \A o \in Outputs : outs[o] \in {"pre", "local"}

(* What is reported of a race that nobody interrupts fits its result: the  *)
(* output shown is that of the execution whose result it is, and a         *)
(* fallback is counted against the build exactly when a local result is    *)
(* used because the remote side gave up first.                             *)
ReportMatchesWinner ==
  (main = "finished" /\ ctx = "live") =>
    /\ res = "remoteOk" => oe = "remote"
    /\ res = "localExit" => oe = "local"
    /\ fallbacks = 1 <=> res = "localExit" /\ cCtx = "live"

(* If the remote racer delivered a result and the local process produced   *)
(* none, the remote result is the one reported: "In case winner was        *)
(* canceled, wait for the real winner" (action.go:329).                    *)
RealWinnerReported ==
  (main = "finished" /\ ctx = "live" /\ ch = <<>> /\ rpc = "done" /\ lpc = "done") =>
    (msg["remote"].t = "remote" /\ msg["local"].t # "local" => res \in {"remoteOk", "moveErr"})

(* Race implements the promise of RaceOutcome.                             *)
verdictBar ==
  IF main \notin {"returned", "finished"} THEN "undecided"
  ELSE IF res = "remoteOk" THEN "remote"
  ELSE IF res = "localExit" THEN "local"
  ELSE "error"
Outcome == INSTANCE RaceOutcome
             WITH verdict <- verdictBar, files <- outs, interrupted <- ctx # "live"
ImplementsOutcome == Outcome!OutcomeSpec

(* A remote execution that hangs never blocks the race: a cache miss, a    *)
(* cache hit after its hold-off and every remote error release the local   *)
(* racer, and its result ends the race.  The exception is a process that   *)
(* could not be run.                                                       *)
ReturnsIfLocalWorks ==
  WF_vars(LockAcquired) /\ WF_vars(ProcessExits) =>
    <>(main = "finished" \/ msg["local"].res = "localErr")

(* A local racer that never gets its resources does not block the race     *)
(* after a remote success, which cancels its wait.  Only a local racer     *)
(* whose process has started, or one whose result is needed because the    *)
(* remote side failed, is waited for: "Once local execution starts, it     *)
(* cannot be aborted" (action.go:314).                                     *)
ReturnsIfRemoteWorks ==
  WF_vars(RemoteWork) =>
    \/ <>(main = "finished")
    \/ <>[](lpc = "running")
    \/ <>[](lpc = "queued" /\ msg["remote"].res = "remoteFailed")

(* A race ends whichever side hangs, but for the two cases above.          *)
RaceReturns == ReturnsIfLocalWorks /\ ReturnsIfRemoteWorks
=============================================================================
