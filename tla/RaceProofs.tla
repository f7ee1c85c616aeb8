----------------------------- MODULE RaceProofs -----------------------------
(***************************************************************************)
(* Proofs about Race, for every set of output files, output directories    *)
(* and filtered outputs.                                                   *)
(***************************************************************************)
EXTENDS Race, SequenceTheorems, TLAPS

Returned == main \in {"returned", "finished"}

(* A context derived from another is done when that one is.                *)
CtxInv == cCtx = "live" => ctx = "live"

(* What the racers report, and when.                                       *)
MsgInv ==
  /\ msg["remote"].t # "local"
  /\ msg["remote"].t = "remote" => msg["remote"].res = "remoteOk" /\ rpc \in {"send", "done"}
  /\ msg["local"].t # "remote"
  /\ msg["local"].t = "local" => lpc \in {"send", "done"}
  /\ \A s \in Side : msg[s].t = "canceled" => msg[s].res \in {"none", "remoteFailed", "localErr"}

(* Until race returns, a racer that is done has its result in the channel  *)
(* or in the hands of main, and nowhere twice.                             *)
ChanInv ==
  /\ main \in {"start", "first"} =>
       /\ ch \in {<<>>, <<"remote">>, <<"local">>, <<"remote", "local">>, <<"local", "remote">>}
       /\ (rpc = "done") <=> ch \in {<<"remote">>, <<"remote", "local">>, <<"local", "remote">>}
       /\ (lpc = "done") <=> ch \in {<<"local">>, <<"remote", "local">>, <<"local", "remote">>}
  /\ main = "second" =>
       \/ /\ winner = "remote" /\ rpc = "done"
          /\ ch = IF lpc = "done" THEN <<"local">> ELSE <<>>
       \/ /\ winner = "local" /\ lpc = "done" /\ msg["local"].t = "canceled"
          /\ ch = IF rpc = "done" THEN <<"remote">> ELSE <<>>
  /\ main = "move" =>
       /\ winner = "remote" /\ rpc = "done" /\ lpc = "done"
       /\ msg["remote"].t = "remote" /\ msg["local"].t = "canceled"

(* Who may have written the exec root and tmpDir.                          *)
OutsInv ==
  /\ lpc \in {"off", "select", "queued", "locked"} => \A o \in Outputs : outs[o] # "local"
  /\ (lpc \in {"send", "done"} /\ msg["local"].t = "canceled" /\ ctx = "live")
       => \A o \in Outputs : outs[o] # "local"
  /\ main \in {"start", "first", "second"} =>
       \A o \in Outputs : outs[o] \notin {"remote", "removed"}
  /\ (main \in {"first", "second"} /\ msg["remote"].t = "remote") => Outputs \ Filtered \subseteq tmp
  /\ main = "move" =>
       /\ \A o \in Outputs : outs[o] # "removed"
       /\ \A o \in Outputs \ Filtered : IF o \in toMove THEN o \in tmp ELSE outs[o] = "remote"
  /\ (\E o \in Outputs : outs[o] \in {"remote", "removed"}) => lpc = "done"

(* Where the action's result can come from.                                *)
ResInv ==
  /\ ~Returned => res \in {"none", "localExit"}
  /\ res = "localExit" => msg["local"].t = "local"
  /\ res = "remoteOk" => lpc = "done"
  /\ main = "start" => rpc = "off" /\ lpc = "off"
  /\ main \in {"start", "first", "second"} => fallbacks = 0
  /\ (~Returned /\ msg["local"].t = "local") => res = "localExit"
  /\ Returned => lpc \in {"off", "done"} \/ ctx # "live"

IInv ==
  /\ TypeOK /\ CtxInv /\ MsgInv /\ ChanInv /\ OutsInv /\ ResInv
  /\ NoMixedOutputs /\ OutputsMatchResult
-----------------------------------------------------------------------------
(* Sending to the channel of capacity two, spelled out.                    *)
LEMMA AppendShort ==
  ASSUME NEW S, NEW a \in S, NEW b \in S
  PROVE  /\ Append(<<>>, a) = <<a>>
         /\ Append(<<a>>, b) = <<a, b>>
<1>1. <<>> \in Seq(S) /\ <<a>> \in Seq(S) /\ <<a, b>> \in Seq(S)
  OBVIOUS
<1>2. Append(<<>>, a) = <<a>>
  <2>1. Append(<<>>, a) \in Seq(S) /\ Len(Append(<<>>, a)) = 1
    BY <1>1
  <2>2. Append(<<>>, a)[1] = a
    BY <1>1
  <2> QED
    BY <1>1, <2>1, <2>2
<1>3. Append(<<a>>, b) = <<a, b>>
  <2> DEFINE x == Append(<<a>>, b)
             y == <<a, b>>
  <2>1. x \in Seq(S) /\ Len(x) = 2 /\ x[1] = a /\ x[2] = b
    BY <1>1
  <2>2. y \in Seq(S) /\ Len(y) = 2 /\ y[1] = a /\ y[2] = b
    BY <1>1
  <2>3. \A i \in 1 .. Len(x) : x[i] = y[i]
    BY <2>1, <2>2
  <2> HIDE DEF x, y
  <2>4. x = y
    BY <2>1, <2>2, <2>3, SeqEqual
  <2> QED
    BY <2>4 DEF x, y
<1> QED
  BY <1>2, <1>3

(* Receiving from it.                                                      *)
LEMMA HeadTailShort ==
  ASSUME NEW a, NEW b
  PROVE  /\ Head(<<a>>) = a /\ Tail(<<a>>) = <<>>
         /\ Head(<<a, b>>) = a /\ Tail(<<a, b>>) = <<b>>
  OBVIOUS

(* The values the channel can take are different from each other.          *)
LEMMA ShortDistinct ==
  /\ <<>> # <<"remote">> /\ <<>> # <<"local">>
  /\ <<>> # <<"remote", "local">> /\ <<>> # <<"local", "remote">>
  /\ <<"remote">> # <<"local">>
  /\ <<"remote">> # <<"remote", "local">> /\ <<"remote">> # <<"local", "remote">>
  /\ <<"local">> # <<"remote", "local">> /\ <<"local">> # <<"local", "remote">>
  /\ <<"remote", "local">> # <<"local", "remote">>
  OBVIOUS

(* IInv holds initially and every step of the race preserves it.           *)
THEOREM RaceInvariant == Spec => []IInv
<1>1. Init => IInv
  <2> SUFFICES ASSUME Init PROVE IInv
    OBVIOUS
  <2> USE DEF Init, Canceled, Side, CtxState, ResultType, Result, RaceResult
  <2>1. TypeOK
    <3>1. ch \in Seq(Side)
      OBVIOUS
    <3>2. msg \in [Side -> RaceResult]
      OBVIOUS
    <3> QED
      BY <3>1, <3>2 DEF TypeOK
  <2>2. CtxInv /\ MsgInv /\ ResInv
    BY DEF CtxInv, MsgInv, ResInv, Returned
  <2>3. ChanInv
    BY DEF ChanInv
  <2>4. OutsInv /\ NoMixedOutputs /\ OutputsMatchResult
    BY DEF OutsInv, NoMixedOutputs, OutputsMatchResult
  <2> QED
    BY <2>1, <2>2, <2>3, <2>4 DEF IInv
<1>2. ASSUME IInv, [Next]_vars PROVE IInv'
  <2> USE <1>2, RaceAssumption DEF IInv, TypeOK, CtxInv, MsgInv, ChanInv, OutsInv, ResInv,
      NoMixedOutputs, OutputsMatchResult, Returned, Side, CtxState, ResultType,
      Result, RaceResult, remoteVars, localVars, mainVars
  <2>1. CASE CtxDone
    BY <2>1 DEF CtxDone
  <2>2. CASE NewContextFails
    BY <2>2 DEF NewContextFails, RemoteReturns, Canceled
  <2>3. CASE NewContext
    BY <2>3 DEF NewContext
  <2>4. CASE CacheMiss
    BY <2>4 DEF CacheMiss
  <2>5. CASE CacheHit
    BY <2>5 DEF CacheHit, StartHoldoff
  <2>6. CASE CacheError
    BY <2>6 DEF CacheError, RemoteReturns, Canceled
  <2>7. CASE HoldoffElapses
    BY <2>7 DEF HoldoffElapses
  <2>8. CASE RemoteSends
    <3>1. ch' = Append(ch, "remote") /\ ch' \in Seq(Side)
      BY <2>8 DEF RemoteSends
    <3>2. /\ Append(<<>>, "remote") = <<"remote">>
          /\ Append(<<"local">>, "remote") = <<"local", "remote">>
      BY AppendShort
    <3>3. CASE main \in {"start", "first"}
      <4>1. IF lpc = "done" THEN ch = <<"local">> ELSE ch = <<>>
        BY <2>8, <3>3 DEF RemoteSends
      <4>2. IF lpc = "done" THEN ch' = <<"local", "remote">> ELSE ch' = <<"remote">>
        BY <3>1, <3>2, <4>1
      <4>3. main' = main /\ lpc' = lpc /\ rpc' = "done"
        BY <2>8 DEF RemoteSends
      <4>4. ChanInv'
        BY <3>3, <4>2, <4>3, ShortDistinct
      <4> HIDE DEF ChanInv
      <4> QED
        BY <2>8, <3>1, <3>3, <4>4 DEF RemoteSends
    <3>4. CASE main = "second"
      BY <2>8, <3>1, <3>2, <3>4 DEF RemoteSends
    <3>5. CASE main \notin {"start", "first", "second"}
      BY <2>8, <3>1, <3>5 DEF RemoteSends
    <3> QED
      BY <3>3, <3>4, <3>5
  <2>9. CASE ExecuteRemotely
    BY <2>9 DEF ExecuteRemotely, RemoteReturns, Canceled
  <2>10. CASE DownloadReturns
    BY <2>10 DEF DownloadReturns, RemoteReturns, Canceled, DownloadFailed, RemoteWins
  <2>11. ASSUME NEW o \in Outputs, DownloadOutput(o) PROVE IInv'
    BY <2>11 DEF DownloadOutput
  <2>12. CASE LocalReleased
    BY <2>12 DEF LocalReleased
  <2>13. CASE LocalNotNeeded
    BY <2>13 DEF LocalNotNeeded, LocalReturns, Canceled
  <2>14. CASE LockFails
    BY <2>14 DEF LockFails, LocalReturns, Canceled
  <2>15. CASE ProcessNotStarted
    BY <2>15 DEF ProcessNotStarted, LocalReturns, Canceled
  <2>16. CASE ProcessStarts
    BY <2>16 DEF ProcessStarts
  <2>17. CASE LocalSends
    <3>1. ch' = Append(ch, "local") /\ ch' \in Seq(Side)
      BY <2>17 DEF LocalSends
    <3>2. /\ Append(<<>>, "local") = <<"local">>
          /\ Append(<<"remote">>, "local") = <<"remote", "local">>
      BY AppendShort
    <3>3. CASE main \in {"start", "first"}
      <4>1. IF rpc = "done" THEN ch = <<"remote">> ELSE ch = <<>>
        BY <2>17, <3>3 DEF LocalSends
      <4>2. IF rpc = "done" THEN ch' = <<"remote", "local">> ELSE ch' = <<"local">>
        BY <3>1, <3>2, <4>1
      <4>3. main' = main /\ rpc' = rpc /\ lpc' = "done"
        BY <2>17 DEF LocalSends
      <4>4. ChanInv'
        BY <3>3, <4>2, <4>3, ShortDistinct
      <4> HIDE DEF ChanInv
      <4> QED
        BY <2>17, <3>1, <3>3, <4>4 DEF LocalSends
    <3>4. CASE main = "second"
      BY <2>17, <3>1, <3>2, <3>4 DEF LocalSends
    <3>5. CASE main \notin {"start", "first", "second"}
      BY <2>17, <3>1, <3>5 DEF LocalSends
    <3> QED
      BY <3>3, <3>4, <3>5
  <2>18. CASE LockAcquired
    BY <2>18 DEF LockAcquired
  <2>19. CASE ProcessExits
    BY <2>19 DEF ProcessExits, LocalReturns, LocalWins
  <2>20. CASE ProcessInterrupted
    BY <2>20 DEF ProcessInterrupted, LocalReturns, Canceled
  <2>21. ASSUME NEW o \in Outputs, ProcessWrites(o) PROVE IInv'
    BY <2>21 DEF ProcessWrites
  <2>22. CASE TmpDirFails
    BY <2>22 DEF TmpDirFails
  <2>23. CASE StartRace
    BY <2>23 DEF StartRace
  <2>24. CASE FirstResult
    <3>1. PICK w \in Side : w = Head(ch)
      BY <2>24 DEF FirstResult, CancelsLocal
    <3>2. /\ ch' = Tail(ch) /\ ch' \in Seq(Side)
          /\ (w = "remote" => rpc = "done") /\ (w = "local" => lpc = "done")
      BY <2>24, <3>1, HeadTailShort DEF FirstResult, CancelsLocal
    <3>3. ChanInv'
      <4>1. \/ ch = <<w>> /\ ch' = <<>>
            \/ \E v \in Side : v # w /\ ch = <<w, v>> /\ ch' = <<v>>
        <5>1. ch \in {<<"remote">>, <<"local">>, <<"remote", "local">>, <<"local", "remote">>}
          BY <2>24 DEF FirstResult, CancelsLocal
        <5>2. CASE ch \in {<<"remote">>, <<"local">>}
          BY <3>1, <3>2, <5>2, HeadTailShort
        <5>3. CASE ch = <<"remote", "local">>
          BY <3>1, <3>2, <5>3, HeadTailShort
        <5>4. CASE ch = <<"local", "remote">>
          BY <3>1, <3>2, <5>4, HeadTailShort
        <5> QED
          BY <5>1, <5>2, <5>3, <5>4
      <4>2. CASE w = "remote"
        BY <2>24, <3>1, <3>2, <4>1, <4>2, ShortDistinct DEF FirstResult, CancelsLocal, Return
      <4>3. CASE w = "local"
        BY <2>24, <3>1, <3>2, <4>1, <4>3, ShortDistinct DEF FirstResult, CancelsLocal, Return
      <4> QED
        BY <4>2, <4>3
    <3> HIDE DEF ChanInv
    <3> QED
      BY <2>24, <3>1, <3>2, <3>3 DEF FirstResult, CancelsLocal, Return
  <2>25. CASE SecondResult
    BY <2>25 DEF SecondResult, SecondWinner, FallbacksAfter, Return, ResAfter
  <2>26. CASE WaitInterrupted
    BY <2>26 DEF WaitInterrupted
  <2>27. ASSUME NEW o \in Outputs, SkipOutput(o) PROVE IInv'
    BY <2>27 DEF SkipOutput, Movable
  <2>28. ASSUME NEW o \in Outputs, MoveOutput(o) PROVE IInv'
    BY <2>28 DEF MoveOutput, Movable
  <2>29. ASSUME NEW o \in Outputs, MoveFails(o) PROVE IInv'
    BY <2>29 DEF MoveFails, Movable
  <2>30. CASE MoveDone
    BY <2>30 DEF MoveDone, AllMoved, Return
  <2>31. CASE FinishRacing
    BY <2>31 DEF FinishRacing
  <2>32. CASE CleanupTmpDir
    BY <2>32 DEF CleanupTmpDir
  <2>33. CASE UNCHANGED vars
    BY <2>33 DEF vars
  <2> QED
    BY <2>1, <2>2, <2>3, <2>4, <2>5, <2>6, <2>7, <2>8, <2>9, <2>10, <2>11, <2>12, <2>13, <2>14,
       <2>15, <2>16, <2>17, <2>18, <2>19, <2>20, <2>21, <2>22, <2>23, <2>24, <2>25, <2>26,
       <2>27, <2>28, <2>29, <2>30, <2>31, <2>32, <2>33
    DEF Next, RemoteStep, RemoteWork, LocalStep, LocalWork, MainStep
<1> QED
  BY <1>1, <1>2, PTL DEF Spec

(* The type invariant of the race.                                         *)
THEOREM RaceTypeCorrect == Spec => []TypeOK
  BY RaceInvariant, PTL DEF IInv

(* Local and remote outputs are not mixed while the context is live.       *)
THEOREM RaceNoMixedOutputs == Spec => []NoMixedOutputs
  BY RaceInvariant, PTL DEF IInv

(* The outputs in the exec root belong to the success that is reported.    *)
THEOREM RaceOutputsMatchResult == Spec => []OutputsMatchResult
  BY RaceInvariant, PTL DEF IInv

-----------------------------------------------------------------------------
(* What main knows while nobody interrupts the race: cCtx is done exactly  *)
(* if the first result made it so, and the result, the output shown and    *)
(* the fallback counted all stem from one raceResult.                      *)
ReportInv ==
  /\ msg["remote"].t = "remote" => msg["remote"].oe = "remote"
  /\ msg["local"].t = "local" => msg["local"].oe = "local"
  /\ main = "move" => fallbacks = 0
  /\ ctx = "live" =>
       /\ main \in {"start", "first"} => cCtx = "live"
       /\ main = "second" => (cCtx = "live" <=> msg[winner].t = "canceled")
       /\ main = "move" => cCtx # "live"
       /\ Returned => /\ res = "remoteOk" => oe = "remote"
                      /\ res = "localExit" => oe = "local"
                      /\ fallbacks = 1 <=> res = "localExit" /\ cCtx = "live"

(* Every step keeps the report consistent.                                 *)
LEMMA ReportStep ==
  ASSUME IInv, ReportInv, [Next]_vars
  PROVE  ReportInv'
<1> USE DEF IInv, TypeOK, CtxInv, MsgInv, ChanInv, ResInv, ReportInv, Returned, Side, CtxState,
    ResultType, Result, RaceResult, remoteVars, localVars, mainVars
<1>1. CASE CtxDone
  BY <1>1 DEF CtxDone
<1>2. CASE RemoteStep
  BY <1>2 DEF RemoteStep, NewContextFails, NewContext, CacheMiss, CacheHit, StartHoldoff,
     CacheError,
     HoldoffElapses, RemoteSends, RemoteReturns, Canceled
<1>3. CASE RemoteWork
  BY <1>3 DEF RemoteWork, ExecuteRemotely, DownloadReturns, DownloadOutput, RemoteReturns, Canceled,
     DownloadFailed, RemoteWins
<1>4. CASE LocalStep
  BY <1>4 DEF LocalStep, LocalReleased, LocalNotNeeded, LockFails, ProcessNotStarted, ProcessStarts,
     LocalSends, LocalReturns, Canceled
<1>5. CASE LocalWork
  BY <1>5 DEF LocalWork, LockAcquired, ProcessExits, ProcessInterrupted, ProcessWrites,
     LocalReturns,
     Canceled, LocalWins
<1>6. CASE TmpDirFails \/ StartRace \/ WaitInterrupted
  BY <1>6 DEF TmpDirFails, StartRace, WaitInterrupted
<1>7. CASE FirstResult
  <2>1. Head(ch) \in Side
    BY <1>7 DEF FirstResult, CancelsLocal
  <2> QED
    BY <1>7, <2>1 DEF FirstResult, CancelsLocal, Return
<1>8. CASE SecondResult
  <2>1. /\ Head(ch) \in Side /\ winner \in Side
        /\ winner = "local" => msg["local"].t = "canceled" /\ Head(ch) = "remote"
        /\ winner = "remote" => Head(ch) = "local"
    BY <1>8 DEF SecondResult
  <2>2. CASE winner = "local"
    BY <1>8, <2>1, <2>2 DEF SecondResult, SecondWinner, FallbacksAfter, Return, ResAfter
  <2>3. CASE winner = "remote"
    BY <1>8, <2>1, <2>3 DEF SecondResult, SecondWinner, FallbacksAfter, Return, ResAfter
  <2> QED
    BY <2>1, <2>2, <2>3
<1>9. ASSUME NEW o \in Outputs, SkipOutput(o) \/ MoveOutput(o) \/ MoveFails(o)
      PROVE  ReportInv'
  BY <1>9 DEF SkipOutput, MoveOutput, MoveFails
<1>10. CASE MoveDone
  BY <1>10 DEF MoveDone, AllMoved, Return
<1>11. CASE FinishRacing
  BY <1>11 DEF FinishRacing
<1>12. CASE CleanupTmpDir \/ UNCHANGED vars
  BY <1>12 DEF CleanupTmpDir, vars
<1> QED
  BY <1>1, <1>2, <1>3, <1>4, <1>5, <1>6, <1>7, <1>8, <1>9, <1>10, <1>11, <1>12 DEF Next, MainStep

(* The output shown is that of the execution whose result is reported, and *)
(* a fallback is counted exactly when the remote side gave up first        *)
(* (action.go: race, runRacing).                                           *)
THEOREM RaceReportMatchesWinner == Spec => []ReportMatchesWinner
<1>1. Init => ReportInv
  BY DEF Init, ReportInv, Returned, Canceled, Side
<1>2. IInv /\ ReportInv /\ [Next]_vars => ReportInv'
  BY ReportStep
<1>3. ReportInv => ReportMatchesWinner
  BY DEF ReportInv, ReportMatchesWinner, Returned
<1> QED
  BY <1>1, <1>2, <1>3, RaceInvariant, PTL DEF Spec

-----------------------------------------------------------------------------
(* Every step of the race is a step of RaceOutcome, or leaves it alone.    *)
THEOREM RaceImplementsOutcome == Spec => ImplementsOutcome
<1>1. Init => Outcome!OutcomeInit
  BY DEF Init, Outcome!OutcomeInit, verdictBar
<1>2. ASSUME IInv, IInv', [Next]_vars
      PROVE  [Outcome!OutcomeNext]_(Outcome!outcomeVars)
  <2> USE <1>2 DEF IInv
  <2>1. ASSUME UNCHANGED <<ctx, outs>>,
               \/ UNCHANGED <<main, res>>
               \/ main \notin {"returned", "finished"} /\ main' \notin {"returned", "finished"}
        PROVE  UNCHANGED Outcome!outcomeVars
    BY <2>1 DEF Outcome!outcomeVars, verdictBar
  <2>2. CASE CtxDone
    BY <2>2 DEF CtxDone, mainVars, verdictBar, Outcome!OutcomeNext, Outcome!Interrupt
  <2>3. CASE UNCHANGED vars \/ CleanupTmpDir \/ StartRace
    BY <2>1, <2>3 DEF vars, mainVars, CleanupTmpDir, StartRace
  <2>4. CASE RemoteStep \/ RemoteWork
    BY <2>1, <2>4 DEF mainVars, RemoteStep, RemoteWork, NewContextFails, NewContext, CacheMiss,
       CacheHit, StartHoldoff, CacheError, HoldoffElapses, RemoteSends, ExecuteRemotely,
       DownloadReturns,
       DownloadOutput
  <2>5. CASE LocalStep \/ LockAcquired \/ ProcessInterrupted
    BY <2>1, <2>5 DEF mainVars, LocalStep, LocalReleased, LocalNotNeeded, LockFails,
       ProcessNotStarted, ProcessStarts, LocalSends, LockAcquired, ProcessInterrupted
  <2>6. ASSUME NEW o \in Outputs, ProcessWrites(o)
        PROVE  Outcome!WriteLocally(o)
    <3>1. Outcome!NoneFrom("remote")
      BY <2>6 DEF ProcessWrites, OutsInv, Outcome!NoneFrom
    <3>2. verdictBar = "undecided" \/ (verdictBar = "error" /\ ctx # "live")
      BY <2>6 DEF ProcessWrites, MsgInv, ResInv, Returned, verdictBar
    <3> QED
      BY <2>6, <3>1, <3>2 DEF ProcessWrites, mainVars, Outcome!WriteLocally, verdictBar
  <2>7. CASE ProcessExits
    <3>1. Outcome!NoneFrom("remote")
      BY <2>7 DEF ProcessExits, OutsInv, Outcome!NoneFrom
    <3>2. CASE main \in {"returned", "finished"}
      <4>1. verdictBar = "error" /\ ctx # "live" /\ verdictBar' = "local"
        BY <2>7, <3>2 DEF ProcessExits, mainVars, MsgInv, ResInv, Returned, verdictBar
      <4> QED
        BY <2>7, <3>1, <4>1 DEF ProcessExits, Outcome!ReportLocal, Outcome!OutcomeNext
    <3>3. CASE main \notin {"returned", "finished"}
      BY <2>1, <2>7, <3>3 DEF ProcessExits, mainVars
    <3> QED
      BY <3>2, <3>3
  <2>8. CASE TmpDirFails \/ WaitInterrupted
    BY <2>8 DEF TmpDirFails, WaitInterrupted, verdictBar, Outcome!ReportError, Outcome!OutcomeNext
  <2>9. CASE FirstResult
    <3>1. UNCHANGED <<ctx, outs>>
      BY <2>9 DEF FirstResult, CancelsLocal
    <3>2. CASE main' = "returned"
      <4>1. Head(ch) \in Side
        BY <2>9 DEF FirstResult, CancelsLocal, TypeOK
      <4>2. msg["local"].t = "local" /\ res' = "localExit"
        BY <2>9, <3>2, <4>1 DEF FirstResult, CancelsLocal, Return, MsgInv, ResInv, Returned, Side
      <4>3. Outcome!NoneFrom("remote")
        BY <2>9 DEF FirstResult, CancelsLocal, OutsInv, Outcome!NoneFrom
      <4>4. verdictBar = "undecided" /\ verdictBar' = "local"
        BY <2>9, <3>2, <4>2 DEF FirstResult, CancelsLocal, verdictBar
      <4> QED
        BY <3>1, <4>3, <4>4 DEF Outcome!ReportLocal, Outcome!OutcomeNext
    <3>3. CASE main' # "returned"
      BY <2>1, <2>9, <3>1, <3>3 DEF FirstResult, CancelsLocal, Return
    <3> QED
      BY <3>2, <3>3
  <2>10. CASE SecondResult
    <3>1. UNCHANGED <<ctx, outs>> /\ main = "second" /\ main' \in {"move", "returned"}
      BY <2>10 DEF SecondResult, SecondWinner, FallbacksAfter, Return
    <3>2. CASE main' = "move"
      BY <2>1, <3>1, <3>2
    <3>3. CASE main' = "returned"
      <4>1. res' # "remoteOk"
        <5>1. Head(ch) \in Side /\ winner \in Side
          BY <2>10 DEF SecondResult, SecondWinner, FallbacksAfter, TypeOK, ChanInv, Side
        <5> QED
          BY <2>10, <3>3, <5>1 DEF SecondResult, SecondWinner, FallbacksAfter, Return, ResAfter,
             MsgInv, ResInv, Returned
      <4>2. Outcome!NoneFrom("remote")
        BY <3>1 DEF OutsInv, Outcome!NoneFrom
      <4>3. verdictBar = "undecided" /\ verdictBar' \in {"local", "error"}
        BY <3>1, <3>3, <4>1 DEF verdictBar
      <4> QED
        BY <3>1, <4>2, <4>3 DEF Outcome!ReportLocal, Outcome!ReportError, Outcome!OutcomeNext
    <3> QED
      BY <3>1, <3>2, <3>3
  <2>11. ASSUME NEW o \in Outputs, SkipOutput(o)
         PROVE  UNCHANGED Outcome!outcomeVars
    BY <2>1, <2>11 DEF SkipOutput
  <2>12. ASSUME NEW o \in Outputs, MoveOutput(o)
         PROVE  Outcome!PlaceRemotely(o)
    <3>1. Outcome!NoneFrom("local") \/ ctx # "live"
      BY <2>12 DEF MoveOutput, OutsInv, ChanInv, Outcome!NoneFrom
    <3> QED
      BY <2>12, <3>1 DEF MoveOutput, verdictBar, Outcome!PlaceRemotely
  <2>13. ASSUME NEW o \in Outputs, MoveFails(o)
         PROVE  Outcome!ReportError
    BY <2>13 DEF MoveFails, verdictBar, Outcome!ReportError
  <2>14. CASE MoveDone
    <3>1. \A o \in Outputs \ Filtered : outs[o] = "remote"
      BY <2>14 DEF MoveDone, AllMoved, OutsInv
    <3>2. res' = "remoteOk" /\ verdictBar = "undecided" /\ verdictBar' = "remote"
      BY <2>14 DEF MoveDone, AllMoved, Return, ChanInv, MsgInv, verdictBar
    <3> QED
      BY <2>14, <3>1, <3>2 DEF MoveDone, AllMoved, Outcome!ReportRemote, Outcome!OutcomeNext
  <2>15. CASE FinishRacing
    BY <2>15 DEF FinishRacing, verdictBar, Outcome!outcomeVars
  <2> QED
    BY <2>2, <2>3, <2>4, <2>5, <2>6, <2>7, <2>8, <2>9, <2>10, <2>11, <2>12, <2>13, <2>14, <2>15
    DEF Next, LocalWork, MainStep, Outcome!OutcomeNext
<1> QED
  BY <1>1, <1>2, RaceInvariant, PTL DEF Spec, ImplementsOutcome, Outcome!OutcomeSpec
=============================================================================
