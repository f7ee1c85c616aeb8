---------------------------- MODULE ServerProofs ----------------------------
(***************************************************************************)
(* Proofs about Server, for every set of RunCommand and Shutdown rpcs, and *)
(* about the Logger that the server closes when it has drained, for every  *)
(* set of callers and any sizes of the uploader's queue and batches; then  *)
(* about the processes that bootstrap starts and shuts down.               *)
(***************************************************************************)
EXTENDS Server, Logger, Lifecycle, FiniteSetTheorems, SequenceTheorems, TLAPS

(* Start-up is over exactly when it has failed or is complete, and a       *)
(* complete one cannot fail any more.                                      *)
StartInv ==
  /\ started <=> startErr \/ resources = Resource
  /\ \A r \in resources : init[r] = "done"
  /\ cleanupFns = resources

(* Nobody gets past waitForStarted unless start-up succeeded.              *)
AdmissionInv ==
  \A c \in Commands : cmd[c] \in {"add", "active"} => started /\ ~startErr

(* How far the drain is.                                                   *)
DrainInv ==
  /\ rr \notin {"idle", "waitStarted"} => started
  /\ stats <=> rr \in {"cleaning", "done"}
  /\ cleanupDone <=> rr = "done"
  /\ \A c \in atDrain : cmd[c] \in {"active", "answered"}
  /\ rr \in {"aggregate", "cleaning", "done"} => \A c \in atDrain : cmd[c] # "active"

(* Which cleanup functions have run.                                       *)
CleanupInv ==
  /\ toClean \subseteq resources
  /\ rr # "cleaning" => toClean = {}
  /\ \A r \in resources :
       cleaned[r] = IF rr \in {"cleaning", "done"} /\ r \notin toClean THEN 1 ELSE 0
  /\ \A r \in Resource \ resources :
       /\ cleaned[r] <= 1
       /\ init[r] # "done" => cleaned[r] = 0

(* Once a Shutdown has been accepted, one of them is inside shutdownOnce   *)
(* until the statistics are there.                                         *)
ShutdownInv ==
  /\ shutdownCmd => stats \/ \E s \in Shutdowns : shutdown[s] = "inOnce"
  /\ \A s \in Shutdowns : shutdown[s] = "answered" => stats

IInv == TypeOK /\ StartInv /\ AdmissionInv /\ DrainInv /\ CleanupInv /\ ShutdownInv

-----------------------------------------------------------------------------
(* IInv holds initially and every step of the server preserves it.         *)
THEOREM ServerInvariant == Spec => []IInv
<1>1. Init => IInv
  <2> SUFFICES ASSUME Init PROVE IInv
    OBVIOUS
  <2> USE ServerAssumption DEF Init
  <2>1. TypeOK
    <3>1. init \in [Resource -> {"creating", "created"}]
      OBVIOUS
    <3>2. init \in [Resource -> {"creating", "created", "failed", "cancel", "done"}]
      BY <3>1
    <3>3. sigs \in 0 .. SigCnt
      OBVIOUS
    <3> QED
      BY <3>2, <3>3 DEF TypeOK
  <2>2. {} # Resource
    BY DEF Resource
  <2>3. StartInv /\ AdmissionInv /\ DrainInv /\ CleanupInv /\ ShutdownInv
    BY <2>2 DEF StartInv, AdmissionInv, DrainInv, CleanupInv, ShutdownInv
  <2> QED
    BY <2>1, <2>3 DEF IInv
<1>2. ASSUME IInv, [Next]_vars PROVE IInv'
  <2> USE <1>2, ServerAssumption DEF IInv, TypeOK, StartInv, AdmissionInv, DrainInv,
      CleanupInv, ShutdownInv, Admitted, InFlight, startVars, cmdVars, drainVars, mainVars
  <2>1. ASSUME NEW r \in Resource, Created(r) PROVE IInv'
    BY <2>1 DEF Created, At
  <2>2. ASSUME NEW r \in Resource, CreationFails(r) PROVE IInv'
    BY <2>2 DEF CreationFails, At
  <2>3. ASSUME NEW r \in Resource, SetResource(r) PROVE IInv'
    <3>1. CASE startErr
      BY <2>3, <3>1 DEF SetResource, ReleaseAtOnce, At, MaybeUnblockStartup
    <3>2. CASE ~startErr
      <4>1. /\ r \notin resources /\ resources # Resource
            /\ rr \in {"idle", "waitStarted"} /\ toClean = {} /\ cleaned[r] = 0
        BY <2>3, <3>2 DEF SetResource, ReleaseAtOnce, At
      <4>2. /\ resources' = resources \union {r} /\ cleanupFns' = cleanupFns \union {r}
            /\ init' = [init EXCEPT ![r] = "done"] /\ startErr' = startErr
            /\ started' = (started \/ resources' = Resource)
        BY <2>3, <3>2 DEF SetResource, ReleaseAtOnce, MaybeUnblockStartup
      <4>3. TypeOK'
        BY <2>3, <3>2, <4>2 DEF SetResource, ReleaseAtOnce
      <4>4. started' <=> startErr' \/ resources' = Resource
        BY <3>2, <4>1, <4>2
      <4>5. StartInv'
        BY <4>2, <4>4
      <4>6. AdmissionInv' /\ DrainInv' /\ ShutdownInv'
        BY <2>3, <3>2, <4>1 DEF SetResource, ReleaseAtOnce, At, MaybeUnblockStartup
      <4>7. CleanupInv'
        BY <2>3, <3>2, <4>1 DEF SetResource, ReleaseAtOnce, At
      <4> QED
        BY <4>3, <4>5, <4>6, <4>7
    <3> QED
      BY <3>1, <3>2
  <2>4. ASSUME NEW r \in Resource, SetStartupErr(r) PROVE IInv'
    BY <2>4, ZenonT(30) DEF SetStartupErr, At, MaybeUnblockStartup
  <2>5. ASSUME NEW r \in Resource, CancelInit(r) PROVE IInv'
    BY <2>5 DEF CancelInit, At
  <2>6. ASSUME NEW c \in Commands, CommandArrives(c) PROVE IInv'
    BY <2>6 DEF CommandArrives
  <2>7. ASSUME NEW c \in Commands, CommandCtxDone(c) PROVE IInv'
    BY <2>7 DEF CommandCtxDone
  <2>8. ASSUME NEW c \in Commands, CheckDrain(c) PROVE IInv'
    BY <2>8 DEF CheckDrain
  <2>9. ASSUME NEW c \in Commands, WaitForStarted(c) PROVE IInv'
    BY <2>9 DEF WaitForStarted
  <2>10. ASSUME NEW c \in Commands, AddToGroup(c) PROVE IInv'
    BY <2>10 DEF AddToGroup
  <2>11. ASSUME NEW c \in Commands, CommandEnds(c) PROVE IInv'
    BY <2>11 DEF CommandEnds
  <2>12. CASE DrainBegins
    BY <2>12 DEF DrainBegins, CloseDrain
  <2>13. CASE StartupOver
    BY <2>13 DEF StartupOver, CloseDrain
  <2>14. CASE GroupEmpty
    BY <2>14 DEF GroupEmpty, WgZero
  <2>15. CASE CloseAndAggregate
    BY <2>15 DEF CloseAndAggregate
  <2>16. ASSUME NEW r \in Resource, RunCleanup(r) PROVE IInv'
    BY <2>16 DEF RunCleanup
  <2>17. CASE CleanupEnds
    BY <2>17 DEF CleanupEnds
  <2>18. ASSUME NEW s \in Shutdowns, ShutdownArrives(s) PROVE IInv'
    BY <2>18 DEF ShutdownArrives
  <2>19. ASSUME NEW s \in Shutdowns, ShutdownFirst(s) PROVE IInv'
    BY <2>19 DEF ShutdownFirst
  <2>20. ASSUME NEW s \in Shutdowns, ShutdownDrained(s) PROVE IInv'
    BY <2>20 DEF ShutdownDrained, OnceDone
  <2>21. ASSUME NEW s \in Shutdowns, ShutdownOther(s) PROVE IInv'
    BY <2>21 DEF ShutdownOther
  <2>22. CASE Signal
    BY <2>22 DEF Signal, InSignalLoop
  <2>23. CASE ShutdownNoticed
    BY <2>23 DEF ShutdownNoticed, InSignalLoop
  <2>24. CASE StopServing
    BY <2>24 DEF StopServing
  <2>25. CASE Stopped
    BY <2>25 DEF Stopped
  <2>26. CASE Exit
    BY <2>26 DEF Exit
  <2>27. CASE UNCHANGED vars
    BY <2>27 DEF vars
  <2> QED
    BY <2>1, <2>2, <2>3, <2>4, <2>5, <2>6, <2>7, <2>8, <2>9, <2>10, <2>11, <2>12, <2>13, <2>14,
       <2>15, <2>16, <2>17, <2>18, <2>19, <2>20, <2>21, <2>22, <2>23, <2>24, <2>25, <2>26, <2>27
    DEF Next, InitStep, CommandStep, DrainStep, ShutdownStep, MainStep
<1> QED
  BY <1>1, <1>2, PTL DEF Spec

(* The type invariant of the server.                                       *)
THEOREM ServerTypeCorrect == Spec => []TypeOK
  BY ServerInvariant, PTL DEF IInv

(* Commands run only in a server that has started.                         *)
THEOREM ServerStartedForCommands == Spec => []CommandsFindServerStarted
<1>1. IInv => CommandsFindServerStarted
  BY DEF IInv, StartInv, AdmissionInv, Admitted, CommandsFindServerStarted
<1> QED
  BY <1>1, ServerInvariant, PTL

(* The drain waits for the commands that were admitted before it.          *)
THEOREM ServerDrainWaits == Spec => []DrainWaitsForCommands
<1>1. IInv => DrainWaitsForCommands
  BY DEF IInv, DrainInv, Admitted, DrainWaitsForCommands
<1> QED
  BY <1>1, ServerInvariant, PTL

(* Every Shutdown is answered with the statistics.                         *)
THEOREM ServerShutdownStats == Spec => []ShutdownReturnsStats
<1>1. IInv => ShutdownReturnsStats
  BY DEF IInv, ShutdownInv, ShutdownReturnsStats
<1> QED
  BY <1>1, ServerInvariant, PTL

(* Every resource is released once, and only after the drain.              *)
THEOREM ServerReleasesOnce == Spec => []ResourcesReleasedOnce
<1>1. IInv => ResourcesReleasedOnce
  BY DEF IInv, TypeOK, DrainInv, CleanupInv, Admitted, ResourcesReleasedOnce
<1> QED
  BY <1>1, ServerInvariant, PTL

(***************************************************************************)
(* The Logger, which DrainAndReleaseResources closes.                      *)
(***************************************************************************)
(* The types of its state.  The bounds of its counters are consequences of *)
(* what they count.                                                        *)
LogFlags ==
  /\ open \in BOOLEAN /\ chClosed \in BOOLEAN /\ itemsClosed \in BOOLEAN
  /\ batching \in BOOLEAN /\ bqErr \in BOOLEAN /\ panicked \in BOOLEAN
LogTypes ==
  /\ LogFlags
  /\ closer \in {"idle", "lock", "closeCh", "closeItems", "wait", "write", "done"}
  /\ action \in [Actions -> {"idle", "starting", "started", "ending", "logged", "discarded", "rejected"}]
  /\ summary \in [Summaries -> {"idle", "sending", "waiting", "answered", "timedOut", "refused"}]
  /\ proc \in [ev : {"none", "start", "end", "summarize", "exited"},
               of : Actions \union Summaries \union {"none"},
               at : {"none", "begin", "items", "count"}]
  /\ proc.ev \in {"start", "end"} => proc.of \in Actions
  /\ recOpen \subseteq Actions /\ recorded \subseteq Actions
  /\ sent \subseteq Actions /\ dropped \subseteq Actions /\ buffer \subseteq Actions
  /\ items \in Seq(Actions) /\ batches \in Seq(SUBSET Actions) /\ uploading \subseteq SUBSET Actions
  /\ adder \in [Events -> {"idle", "lock", "added"}]
  /\ sampler \in {"running", "cancelled", "exited"}
  /\ samples \in 0 .. MaxSamples /\ infoSamples \in 0 .. samples
  /\ bqSuccess \in Nat /\ bqFailed \in Nat

(* How far CloseAndAggregate is, and what cannot happen any more then.     *)
CloseInv ==
  /\ open <=> closer \in {"idle", "lock"}
  /\ chClosed <=> closer \in {"closeItems", "wait", "write", "done"}
  /\ itemsClosed <=> closer \in {"wait", "write", "done"}
  /\ ~open => \A a \in Actions : action[a] \notin {"starting", "ending"}
  /\ proc.ev = "exited" => chClosed
  /\ closer \in {"write", "done"} =>
       proc.ev = "exited" /\ sampler = "exited" /\ UploaderDone /\ infoSamples = samples

Applies(e, a) == proc.ev = e /\ proc.of = a

(* Where the record of an action is: the end of an action is received only *)
(* after its start has been applied, and applied only once.                *)
RecordInv ==
  \A a \in Actions :
    /\ (action[a] = "started" /\ open) \/ action[a] = "ending" => a \in recOpen \/ Applies("start", a)
    /\ action[a] \in {"idle", "starting"} \/ Applies("start", a) => a \notin recOpen
    /\ action[a] \in {"idle", "starting"} => ~Applies("start", a)
    /\ Applies("end", a) => a \in recOpen /\ action[a] = "logged"
    /\ a \in recorded <=> action[a] = "logged" /\ ~(Applies("end", a) /\ proc.at = "begin")

(* l.runningActions counts the open records.                               *)
RunningInv == running = Cardinality(recOpen)

(* A record is sent to l.items once, while it is being applied.            *)
SentInv ==
  /\ \A a \in sent : action[a] = "logged" /\ (Applies("end", a) => proc.at = "count")
  /\ dropped \subseteq sent
  /\ proc.at = "items" => UseBQ
  /\ InUploader \subseteq sent \ dropped

(* When the batching goroutine has returned nothing is left for it.        *)
BatchInv ==
  /\ batching => UseBQ
  /\ ~batching => items = <<>> /\ buffer = {}
  /\ ~batching /\ UseBQ => itemsClosed
  /\ Len(items) <= ItemsCap
  /\ Cardinality(buffer) <= BatchMax

CountedInv == Cardinality(sent \ dropped) = bqSuccess + bqFailed + Cardinality(InUploader)

LoggerInv ==
  /\ LogTypes /\ CloseInv /\ RecordInv /\ RunningInv
  /\ SentInv /\ BatchInv /\ InOnePlace /\ CountedInv

USE LoggerAssumption

-----------------------------------------------------------------------------
(* Sequences without repetition.                                           *)

(* What Append does to the elements.                                       *)
LEMMA AppendElements ==
  ASSUME NEW S, NEW s \in Seq(S), NEW e \in S
  PROVE  /\ Append(s, e) \in Seq(S) /\ Len(Append(s, e)) = Len(s) + 1
         /\ DOMAIN Append(s, e) = DOMAIN s \union {Len(s) + 1}
         /\ \A i \in DOMAIN s : Append(s, e)[i] = s[i] /\ i # Len(s) + 1
         /\ Append(s, e)[Len(s) + 1] = e
         /\ Range(Append(s, e)) = Range(s) \union {e}
<1>1. /\ Append(s, e) \in Seq(S) /\ Len(Append(s, e)) = Len(s) + 1
      /\ \A i \in 1 .. Len(s) : Append(s, e)[i] = s[i]
      /\ Append(s, e)[Len(s) + 1] = e
      /\ Len(s) \in Nat /\ DOMAIN s = 1 .. Len(s) /\ DOMAIN Append(s, e) = 1 .. Len(s) + 1
  OBVIOUS
<1>2. DOMAIN Append(s, e) = DOMAIN s \union {Len(s) + 1} /\ Len(s) + 1 \notin DOMAIN s
  BY <1>1
<1>3. Range(Append(s, e)) = Range(s) \union {e}
  BY <1>1, <1>2 DEF Range
<1>. QED BY <1>1, <1>2, <1>3

(* What Head and Tail are to the elements.                                 *)
LEMMA TailElements ==
  ASSUME NEW S, NEW s \in Seq(S), s # <<>>
  PROVE  /\ Head(s) \in S /\ Tail(s) \in Seq(S) /\ Len(Tail(s)) = Len(s) - 1 /\ Len(s) \in Nat
         /\ 1 \in DOMAIN s /\ Head(s) = s[1]
         /\ \A i \in DOMAIN Tail(s) : i + 1 \in DOMAIN s /\ i + 1 # 1 /\ Tail(s)[i] = s[i + 1]
         /\ Range(s) = {Head(s)} \union Range(Tail(s))
<1>1. /\ Head(s) \in S /\ Tail(s) \in Seq(S) /\ Len(Tail(s)) = Len(s) - 1
      /\ \A i \in 1 .. Len(Tail(s)) : Tail(s)[i] = s[i + 1]
      /\ Len(s) \in Nat \ {0} /\ Head(s) = s[1]
  BY HeadTailProperties, EmptySeq
<1>2. DOMAIN s = 1 .. Len(s) /\ DOMAIN Tail(s) = 1 .. Len(s) - 1
  BY <1>1
<1>3. 1 \in DOMAIN s /\ \A i \in DOMAIN Tail(s) : i + 1 \in DOMAIN s /\ i + 1 # 1
  BY <1>1, <1>2
<1>4. ASSUME NEW i \in DOMAIN s PROVE s[i] = Head(s) \/ s[i] \in Range(Tail(s))
  <2>1. CASE i = 1
    BY <1>1, <2>1
  <2>2. CASE i # 1
    <3>1. i - 1 \in DOMAIN Tail(s) /\ (i - 1) + 1 = i
      BY <1>1, <1>2, <2>2
    <3>2. Tail(s)[i - 1] = s[i]
      BY <1>1, <1>2, <3>1
    <3>. QED BY <3>1, <3>2 DEF Range
  <2>. QED BY <2>1, <2>2
<1>5. ASSUME NEW i \in DOMAIN Tail(s) PROVE Tail(s)[i] \in Range(s)
  BY <1>1, <1>2, <1>3 DEF Range
<1>6. Range(s) = {Head(s)} \union Range(Tail(s))
  BY <1>1, <1>3, <1>4, <1>5 DEF Range
<1>. QED BY <1>1, <1>2, <1>3, <1>6

Distinct(s) == \A i, j \in DOMAIN s : s[i] = s[j] => i = j
Apart(s) == \A i, j \in DOMAIN s : i # j => s[i] \intersect s[j] = {}

(* A queue without repetition stays one.                                   *)
LEMMA DistinctQueue ==
  ASSUME NEW S, NEW s \in Seq(S), Distinct(s)
  PROVE  /\ \A e \in S : e \notin Range(s) => Distinct(Append(s, e))
         /\ s # <<>> => Distinct(Tail(s)) /\ Head(s) \notin Range(Tail(s))
<1>1. ASSUME NEW e \in S, e \notin Range(s) PROVE Distinct(Append(s, e))
  <2>1. \A i \in DOMAIN s : s[i] # e
    BY <1>1 DEF Range
  <2>. QED BY <2>1, AppendElements DEF Distinct
<1>2. ASSUME s # <<>> PROVE Distinct(Tail(s)) /\ Head(s) \notin Range(Tail(s))
  <2> DEFINE t == Tail(s)
  <2>1. /\ t \in Seq(S) /\ 1 \in DOMAIN s /\ Head(s) = s[1]
        /\ \A i \in DOMAIN t : i \in Nat /\ i + 1 \in DOMAIN s /\ i + 1 # 1 /\ t[i] = s[i + 1]
    BY <1>2, TailElements
  <2> HIDE DEF t
  <2>2. ASSUME NEW i \in DOMAIN t, NEW j \in DOMAIN t, t[i] = t[j] PROVE i = j
    <3>1. i + 1 = j + 1
      BY <2>1, <2>2 DEF Distinct
    <3>. QED BY <2>1, <3>1
  <2>3. \A i \in DOMAIN t : t[i] # Head(s)
    BY <2>1 DEF Distinct
  <2>. QED BY <2>2, <2>3 DEF Distinct, Range, t
<1>. QED BY <1>1, <1>2

(* So does a queue of disjoint batches.                                    *)
LEMMA ApartQueue ==
  ASSUME NEW S, NEW s \in Seq(SUBSET S), Apart(s)
  PROVE  /\ \A e \in SUBSET S : e \intersect (UNION Range(s)) = {} => Apart(Append(s, e))
         /\ s # <<>> => Apart(Tail(s)) /\ Head(s) \intersect (UNION Range(Tail(s))) = {}
<1>1. ASSUME NEW e \in SUBSET S, e \intersect (UNION Range(s)) = {} PROVE Apart(Append(s, e))
  <2>1. \A i \in DOMAIN s : s[i] \intersect e = {} /\ e \intersect s[i] = {}
    BY <1>1 DEF Range
  <2> DEFINE t == Append(s, e)
  <2>2. /\ DOMAIN t = DOMAIN s \union {Len(s) + 1} /\ t[Len(s) + 1] = e
        /\ \A i \in DOMAIN s : t[i] = s[i]
    BY AppendElements
  <2> HIDE DEF t
  <2>3. Apart(t)
    BY <2>1, <2>2 DEF Apart
  <2>. QED BY <2>3 DEF t
<1>2. ASSUME s # <<>> PROVE Apart(Tail(s)) /\ Head(s) \intersect (UNION Range(Tail(s))) = {}
  <2> DEFINE t == Tail(s)
  <2>1. /\ t \in Seq(SUBSET S) /\ 1 \in DOMAIN s /\ Head(s) = s[1]
        /\ \A i \in DOMAIN t : i \in Nat /\ i + 1 \in DOMAIN s /\ i + 1 # 1 /\ t[i] = s[i + 1]
    BY <1>2, TailElements
  <2> HIDE DEF t
  <2>2. ASSUME NEW i \in DOMAIN t, NEW j \in DOMAIN t, i # j PROVE t[i] \intersect t[j] = {}
    <3>1. i + 1 # j + 1
      BY <2>1, <2>2
    <3>. QED BY <2>1, <3>1 DEF Apart
  <2>3. \A i \in DOMAIN t : Head(s) \intersect t[i] = {}
    BY <2>1 DEF Apart
  <2>. QED BY <2>2, <2>3 DEF Apart, Range, t
<1>. QED BY <1>1, <1>2

-----------------------------------------------------------------------------
(* The types.                                                              *)
LEMMA LogTypesInit == LoggerInit => LogTypes
<1> SUFFICES ASSUME LoggerInit PROVE LogTypes
  OBVIOUS
<1>1. LogFlags
  BY Zenon DEF LoggerInit, LogFlags
<1>2. items \in Seq(Actions) /\ batches \in Seq(SUBSET Actions)
  BY DEF LoggerInit
<1>3. samples \in 0 .. MaxSamples /\ infoSamples \in 0 .. samples /\ bqSuccess \in Nat /\ bqFailed \in Nat
  BY DEF LoggerInit
<1>. QED BY <1>1, <1>2, <1>3 DEF LoggerInit, LogTypes, Idle

(* The flags are only set and reset.                                       *)
LEMMA LogFlagsStep == LogFlags /\ [LoggerNext]_loggerVars => LogFlags'
<1> SUFFICES ASSUME LogFlags, [LoggerNext]_loggerVars PROVE LogFlags'
  OBVIOUS
<1> USE DEF LogFlags, infoVars, procVars, bqVars, itemVars
<1>1. ASSUME NEW a \in Actions, LogActionStart(a) \/ Log(a) \/ RejectCommand(a) \/ ReceiveAction(a)
      PROVE  LogFlags'
  BY <1>1, Zenon DEF LogActionStart, Log, RejectCommand, ReceiveAction
<1>2. ASSUME NEW q \in Summaries, GetStatusSummary(q) \/ SummaryTimesOut(q) \/ ReceiveSummary(q)
      PROVE  LogFlags'
  BY <1>2, Zenon DEF GetStatusSummary, SummaryTimesOut, ReceiveSummary
<1>3. CASE ApplyStart \/ ApplyEnd \/ CountEnd \/ EventsEnd
  BY <1>3, Zenon DEF ApplyStart, ApplyEnd, CountEnd, EventsEnd
<1>4. CASE SendItem \/ SendItemPanics \/ ApplySummarize
  BY <1>4, Zenon DEF SendItem, SendItemPanics, ApplySummarize
<1>5. CASE BeginClose \/ TurnCallersAway \/ CloseCh \/ CloseItems \/ Aggregate \/ WriteProxyInfo
  BY <1>5, Zenon DEF BeginClose, TurnCallersAway, CloseCh, CloseItems, Aggregate, WriteProxyInfo
<1>6. CASE Batch \/ DropItem \/ LastBatch \/ BeginUpload
  BY <1>6, Zenon DEF Batch, DropItem, LastBatch, BeginUpload
<1>7. ASSUME NEW b \in SUBSET Actions, EndUpload(b) PROVE LogFlags'
  BY <1>7, Zenon DEF EndUpload
<1>8. ASSUME NEW e \in Events, AddProxyEvents(e) \/ AddEventTimesToProxyInfo(e) PROVE LogFlags'
  BY <1>8, Zenon DEF AddProxyEvents, AddEventTimesToProxyInfo
<1>9. CASE CollectResourceUsageSamples \/ SamplerEnds \/ UNCHANGED loggerVars
  BY <1>9, Zenon DEF CollectResourceUsageSamples, SamplerEnds, loggerVars
<1>. QED BY <1>1, <1>2, <1>3, <1>4, <1>5, <1>6, <1>7, <1>8, <1>9
        DEF LoggerNext, CallStep, ProcStep, CloseStep, BQStep, AddStep

(* Every step of the Logger keeps the types.                               *)
LEMMA LogTypesStep == LogTypes /\ [LoggerNext]_loggerVars => LogTypes'
<1> SUFFICES ASSUME LogTypes, [LoggerNext]_loggerVars PROVE LogTypes'
  OBVIOUS
<1> USE DEF LogTypes, callVars, infoVars, procVars, bqVars, itemVars
<1>0. LogFlags'
  BY LogFlagsStep
<1>1. CASE CallStep
  BY <1>0, <1>1, SMTT(30) DEF CallStep, LogActionStart, Log, RejectCommand, GetStatusSummary, SummaryTimesOut
<1>2. CASE ProcStep
  <2>1. ASSUME NEW a \in Actions, ReceiveAction(a) PROVE LogTypes'
    BY <1>0, <2>1 DEF ReceiveAction, Event
  <2>2. ASSUME NEW q \in Summaries, ReceiveSummary(q) PROVE LogTypes'
    BY <1>0, <2>2 DEF ReceiveSummary, Event
  <2>3. CASE ApplyStart
    BY <1>0, <2>3 DEF ApplyStart, Idle
  <2>4. CASE ApplyEnd \/ CountEnd \/ EventsEnd
    BY <1>0, <2>4 DEF ApplyEnd, CountEnd, EventsEnd, Idle
  <2>6. CASE SendItem
    BY <1>0, <2>6, SMTT(30) DEF SendItem
  <2>5. CASE SendItemPanics \/ ApplySummarize
    BY <1>0, <2>5 DEF SendItemPanics, ApplySummarize, Idle
  <2>. QED BY <1>2, <2>1, <2>2, <2>3, <2>4, <2>5, <2>6 DEF ProcStep
<1>3. CASE BeginClose \/ CloseStep
  BY <1>0, <1>3 DEF BeginClose, CloseStep, TurnCallersAway, CloseCh, CloseItems, Aggregate,
     WriteProxyInfo
<1>4. CASE BQStep
  <2>1. CASE Batch
    <3>1. Append(batches, buffer) \in Seq(SUBSET Actions)
      BY AppendProperties
    <3>2. Head(items) \in Actions /\ Tail(items) \in Seq(Actions)
      BY <2>1, HeadTailProperties DEF Batch
    <3>. QED BY <1>0, <2>1, <3>1, <3>2, ZenonT(30) DEF Batch
  <2>2. CASE DropItem
    BY <1>0, <2>2, HeadTailProperties DEF DropItem
  <2>3. CASE LastBatch
    <3>1. Append(batches, buffer) \in Seq(SUBSET Actions)
      BY AppendProperties
    <3>. QED BY <1>0, <2>3, <3>1 DEF LastBatch
  <2>4. CASE BeginUpload
    BY <1>0, <2>4, HeadTailProperties DEF BeginUpload
  <2>5. ASSUME NEW b \in SUBSET Actions, EndUpload(b) PROVE LogTypes'
    <3>1. Cardinality(b) \in Nat
      BY FS_Subset, FS_CardinalityType
    <3>2. /\ bqSuccess' = bqSuccess \/ bqSuccess' = bqSuccess + Cardinality(b)
          /\ bqFailed' = bqFailed \/ bqFailed' = bqFailed + Cardinality(b)
      BY <2>5, Zenon DEF EndUpload
    <3>4. bqSuccess' \in Nat /\ bqFailed' \in Nat
      BY <3>1, <3>2
    <3>3. uploading' \subseteq SUBSET Actions
      BY <2>5 DEF EndUpload
    <3>. QED BY <1>0, <2>5, <3>3, <3>4 DEF EndUpload
  <2>. QED BY <1>4, <2>1, <2>2, <2>3, <2>4, <2>5 DEF BQStep
<1>5. ASSUME NEW e \in Events, AddProxyEvents(e) \/ AddEventTimesToProxyInfo(e) PROVE LogTypes'
  <2>1. UNCHANGED <<open, closer, chClosed, callVars, procVars, itemVars, bqVars, sampler, samples,
                    infoSamples>>
    BY <1>5 DEF AddProxyEvents, AddEventTimesToProxyInfo
  <2>2. adder' = [adder EXCEPT ![e] = "lock"] \/ adder' = [adder EXCEPT ![e] = "added"]
    BY <1>5, Zenon DEF AddProxyEvents, AddEventTimesToProxyInfo
  <2>3. adder' \in [Events -> {"idle", "lock", "added"}]
    BY <2>2
  <2>. QED BY <1>0, <2>1, <2>3
<1>6. CASE CollectResourceUsageSamples \/ SamplerEnds
  BY <1>0, <1>6 DEF CollectResourceUsageSamples, SamplerEnds
<1>7. CASE UNCHANGED loggerVars
  BY <1>0, <1>7 DEF loggerVars
<1>. QED BY <1>1, <1>2, <1>3, <1>4, <1>5, <1>6, <1>7 DEF LoggerNext, AddStep

-----------------------------------------------------------------------------
(* CloseAndAggregate: the callers are gone before the event channel is     *)
(* closed, and l.wg.Wait leaves nobody behind who could undo what it saw.  *)
LEMMA CloseStepKept ==
  LogTypes /\ CloseInv /\ [LoggerNext]_loggerVars => CloseInv'
<1> SUFFICES ASSUME LogTypes, CloseInv, [LoggerNext]_loggerVars PROVE CloseInv'
  OBVIOUS
<1> USE DEF CloseInv, UploaderDone, callVars, infoVars, procVars, bqVars, itemVars
<1>1. CASE CallStep
  BY <1>1 DEF CallStep, LogActionStart, Log, RejectCommand, GetStatusSummary, SummaryTimesOut,
     LogTypes
<1>2. CASE ProcStep
  <2>1. ASSUME NEW a \in Actions, ReceiveAction(a) PROVE CloseInv'
    BY <2>1 DEF ReceiveAction, Event, Ready, Idle, LogTypes
  <2>2. CASE \E q \in Summaries : ReceiveSummary(q)
    BY <2>2 DEF ReceiveSummary, Event, Ready, Idle
  <2>3. CASE ApplyStart \/ ApplyEnd \/ CountEnd \/ EventsEnd \/ SendItem \/ SendItemPanics
               \/ ApplySummarize
    BY <2>3 DEF ApplyStart, ApplyEnd, CountEnd, EventsEnd, SendItem, SendItemPanics, ApplySummarize,
       Ready, Idle, LogTypes
  <2>. QED BY <1>2, <2>1, <2>2, <2>3 DEF ProcStep
<1>3. CASE BeginClose \/ CloseStep
  BY <1>3 DEF BeginClose, CloseStep, TurnCallersAway, NoReader, CloseCh, CloseItems, Aggregate,
     WgDone,
     WriteProxyInfo
<1>4. CASE BQStep
  <2>1. CASE Batch \/ DropItem \/ LastBatch
    BY <2>1 DEF Batch, DropItem, LastBatch
  <2>2. CASE BeginUpload
    BY <2>2 DEF BeginUpload
  <2>3. ASSUME NEW b \in SUBSET Actions, EndUpload(b) PROVE CloseInv'
    <3>1. uploading = {} => uploading' = {}
      BY <2>3 DEF EndUpload
    <3>. QED BY <2>3, <3>1 DEF EndUpload
  <2>. QED BY <1>4, <2>1, <2>2, <2>3 DEF BQStep
<1>5. CASE (\E e \in Events : AddProxyEvents(e)) \/ AddStep \/ UNCHANGED loggerVars
  <2>1. UNCHANGED <<open, closer, chClosed, callVars, procVars, itemVars, bqVars, sampler, samples, infoSamples>>
    BY <1>5 DEF AddProxyEvents, AddStep, AddEventTimesToProxyInfo, loggerVars
  <2>. QED BY <2>1
<1>6. CASE CollectResourceUsageSamples \/ SamplerEnds
  BY <1>6 DEF CollectResourceUsageSamples, SamplerEnds
<1>. QED BY <1>1, <1>2, <1>3, <1>4, <1>5, <1>6 DEF LoggerNext

-----------------------------------------------------------------------------
(* What a step can do to the records: a call or the event loop moves one   *)
(* action on, and CloseAndAggregate turns the callers away.                *)
LEMMA RecordMoves ==
  ASSUME LogTypes, [LoggerNext]_loggerVars
  PROVE  \/ CallStep \/ ProcStep \/ TurnCallersAway
         \/ UNCHANGED <<open, action, proc, recOpen, running, recorded>>
<1> USE DEF callVars, infoVars, procVars, bqVars, itemVars
<1>1. CASE BeginClose \/ CloseStep
  BY <1>1 DEF BeginClose, CloseStep, CloseCh, CloseItems, Aggregate, WriteProxyInfo
<1>2. CASE BQStep
  BY <1>2 DEF BQStep, Batch, DropItem, LastBatch, BeginUpload, EndUpload
<1>3. CASE \/ \E e \in Events : AddProxyEvents(e)
           \/ AddStep \/ CollectResourceUsageSamples \/ SamplerEnds \/ UNCHANGED loggerVars
  BY <1>3 DEF AddProxyEvents, AddStep, AddEventTimesToProxyInfo, CollectResourceUsageSamples,
     SamplerEnds, loggerVars
<1>. QED BY <1>1, <1>2, <1>3 DEF LoggerNext

(* An accepted record is applied once, after its start.                    *)
LEMMA RecordStep ==
  LogTypes /\ CloseInv /\ RecordInv /\ [LoggerNext]_loggerVars => RecordInv'
<1> SUFFICES ASSUME LogTypes, CloseInv, RecordInv, [LoggerNext]_loggerVars PROVE RecordInv'
  OBVIOUS
<1> USE DEF RecordInv, Applies, callVars, procVars
<1>1. CASE CallStep
  <2>1. ASSUME NEW a \in Actions, LogActionStart(a) \/ Log(a) \/ RejectCommand(a) PROVE RecordInv'
    BY <2>1 DEF LogActionStart, Log, RejectCommand, LogTypes
  <2>2. CASE \E q \in Summaries : GetStatusSummary(q) \/ SummaryTimesOut(q)
    BY <2>2 DEF GetStatusSummary, SummaryTimesOut
  <2>. QED BY <1>1, <2>1, <2>2 DEF CallStep
<1>2. CASE ProcStep
  <2>1. ASSUME NEW a \in Actions, ReceiveAction(a) PROVE RecordInv'
    BY <2>1 DEF ReceiveAction, Event, Ready, Idle, LogTypes, CloseInv
  <2>2. CASE \E q \in Summaries : ReceiveSummary(q)
    BY <2>2 DEF ReceiveSummary, Event, Ready, Idle
  <2>3. CASE ApplyStart
    BY <2>3 DEF ApplyStart, Idle, LogTypes
  <2>4. CASE ApplyEnd
    BY <2>4 DEF ApplyEnd, Idle, LogTypes
  <2>5. CASE CountEnd
    BY <2>5 DEF CountEnd, Idle, LogTypes
  <2>6. CASE SendItem \/ SendItemPanics
    BY <2>6 DEF SendItem, SendItemPanics, LogTypes
  <2>7. CASE ApplySummarize \/ EventsEnd
    BY <2>7 DEF ApplySummarize, EventsEnd, Ready, Idle
  <2>. QED BY <1>2, <2>1, <2>2, <2>3, <2>4, <2>5, <2>6, <2>7 DEF ProcStep
<1>3. CASE TurnCallersAway
  BY <1>3 DEF TurnCallersAway
<1>4. CASE UNCHANGED <<open, action, proc, recOpen, running, recorded>>
  BY <1>4
<1>. QED BY <1>1, <1>2, <1>3, <1>4, RecordMoves

(* l.runningActions counts the records that are open.                      *)
LEMMA RunningStep ==
  LogTypes /\ RecordInv /\ RunningInv /\ [LoggerNext]_loggerVars => RunningInv'
<1> SUFFICES ASSUME LogTypes, RecordInv, RunningInv, [LoggerNext]_loggerVars PROVE RunningInv'
  OBVIOUS
<1> USE DEF RunningInv, callVars, procVars
<1>1. IsFiniteSet(recOpen) /\ Cardinality(recOpen) \in Nat
  BY FS_Subset, FS_CardinalityType DEF LogTypes
<1>2. CASE ApplyStart
  <2>1. proc.of \notin recOpen
    BY <1>2 DEF ApplyStart, RecordInv, Applies, LogTypes
  <2>. QED BY <1>1, <1>2, <2>1, FS_AddElement DEF ApplyStart
<1>3. CASE CountEnd
  <2>1. proc.of \in recOpen
    BY <1>3 DEF CountEnd, RecordInv, Applies, LogTypes
  <2>. QED BY <1>1, <1>3, <2>1, FS_RemoveElement DEF CountEnd
<1>4. CASE ProcStep /\ ~ApplyStart /\ ~CountEnd
  BY <1>4 DEF ProcStep, ReceiveAction, ReceiveSummary, ApplyEnd, SendItem, SendItemPanics,
     ApplySummarize, EventsEnd
<1>5. CASE CallStep
  BY <1>5 DEF CallStep, LogActionStart, Log, RejectCommand, GetStatusSummary, SummaryTimesOut
<1>6. CASE TurnCallersAway
  BY <1>6 DEF TurnCallersAway
<1>. QED BY <1>2, <1>3, <1>4, <1>5, <1>6, RecordMoves

-----------------------------------------------------------------------------
(* The uploader.                                                           *)

UploaderStep ==
  SendItem \/ Batch \/ DropItem \/ LastBatch \/ BeginUpload \/ \E b \in SUBSET Actions : EndUpload(b)
uploaderVars == <<items, sent, dropped, buffer, batches, batching, uploading, bqSuccess, bqFailed>>

(* No other step touches the records on their way.                         *)
LEMMA UploaderMoves ==
  ASSUME [LoggerNext]_loggerVars, ~UploaderStep
  PROVE  UNCHANGED uploaderVars
<1> USE DEF callVars, infoVars, procVars, bqVars, itemVars, uploaderVars
<1>1. CASE CallStep
  BY <1>1 DEF CallStep, LogActionStart, Log, RejectCommand, GetStatusSummary, SummaryTimesOut
<1>2. CASE ProcStep
  BY <1>2 DEF ProcStep, ReceiveAction, ReceiveSummary, ApplyStart, ApplyEnd, SendItemPanics,
     CountEnd,
     ApplySummarize, EventsEnd, UploaderStep
<1>3. CASE BeginClose \/ CloseStep
  BY <1>3 DEF BeginClose, CloseStep, TurnCallersAway, CloseCh, CloseItems, Aggregate, WriteProxyInfo
<1>4. CASE \/ \E e \in Events : AddProxyEvents(e)
           \/ AddStep \/ CollectResourceUsageSamples \/ SamplerEnds \/ UNCHANGED loggerVars
  BY <1>4 DEF AddProxyEvents, AddStep, AddEventTimesToProxyInfo, CollectResourceUsageSamples,
     SamplerEnds, loggerVars
<1>. QED BY <1>1, <1>2, <1>3, <1>4 DEF LoggerNext, BQStep, UploaderStep

(* A record that is sent is new to the uploader.                           *)
LEMMA NewItem ==
  ASSUME LogTypes, SentInv, SendItem
  PROVE  proc.of \in Actions \ sent /\ proc.of \notin InUploader
  BY DEF LogTypes, SentInv, SendItem, Applies

(* What each step does to the records in the uploader: endActionEvent adds *)
(* the one that it applies.                                                *)
LEMMA SendItemEffect ==
  ASSUME LogTypes, SendItem
  PROVE  /\ InUploader' = InUploader \union {proc.of}
         /\ sent' = sent \union {proc.of}
         /\ UNCHANGED <<dropped, buffer, batches, batching, uploading, bqSuccess, bqFailed>>
<1>1. Range(items') = Range(items) \union {proc.of}
  BY AppendElements DEF LogTypes, SendItem
<1>2. UNCHANGED <<dropped, buffer, batches, batching, uploading, bqSuccess, bqFailed>>
  BY DEF SendItem, bqVars
<1>. QED BY <1>1, <1>2 DEF InUploader, InBatches, InUploads, SendItem

(* batch takes a record from l.items into the buffer, or makes a full      *)
(* buffer a batch first: no record leaves the uploader.                    *)
LEMMA BatchEffect ==
  ASSUME LogTypes, Batch
  PROVE  InUploader' = InUploader /\ UNCHANGED <<sent, dropped, bqSuccess, bqFailed>>
<1>1. UNCHANGED <<sent, dropped, uploading, bqSuccess, bqFailed>>
  BY DEF Batch
<1>2. Range(items) = {Head(items)} \union Range(items')
  BY TailElements DEF LogTypes, Batch
<1>3. CASE BatchFull
  <2>1. Range(batches') = Range(batches) \union {buffer}
    <3>1. batches \in Seq(SUBSET Actions) /\ buffer \in SUBSET Actions /\ batches' = Append(batches, buffer)
      BY <1>3 DEF LogTypes, Batch
    <3>. QED BY <3>1, AppendElements
  <2>2. InBatches' = InBatches \union buffer
    BY <2>1 DEF InBatches
  <2>3. buffer' = {Head(items)}
    BY <1>3 DEF Batch
  <2>. QED BY <1>1, <1>2, <2>2, <2>3 DEF InUploader, InUploads
<1>4. CASE ~BatchFull
  <2>1. buffer' = buffer \union {Head(items)} /\ UNCHANGED batches
    BY <1>4 DEF Batch
  <2>. QED BY <1>1, <1>2, <2>1 DEF InUploader, InBatches, InUploads
<1>. QED BY <1>3, <1>4

(* The last batch is what was in the buffer.                               *)
LEMMA LastBatchEffect ==
  ASSUME LogTypes, LastBatch
  PROVE  /\ InBatches' = InBatches \union buffer
         /\ InUploader' = InUploader /\ UNCHANGED <<sent, dropped, bqSuccess, bqFailed>>
<1>1. UNCHANGED <<items, sent, dropped, uploading, bqSuccess, bqFailed>> /\ buffer' = {}
  BY DEF LastBatch, itemVars
<1>2. Range(batches') = Range(batches) \union {buffer}
  BY AppendElements DEF LogTypes, LastBatch
<1>3. InBatches' = InBatches \union buffer
  BY <1>2 DEF InBatches
<1>. QED BY <1>1, <1>3 DEF InUploader, InUploads

(* A record that fits in no batch leaves the uploader, and it alone.       *)
LEMMA DropItemEffect ==
  ASSUME LogTypes, InOnePlace, DropItem
  PROVE  /\ InUploader' = InUploader \ {Head(items)} /\ Head(items) \in InUploader
         /\ dropped' = dropped \union {Head(items)}
         /\ UNCHANGED <<sent, buffer, batches, batching, uploading, bqSuccess, bqFailed>>
<1>1. UNCHANGED <<sent, buffer, batches, batching, uploading, bqSuccess, bqFailed>>
  BY DEF DropItem, bqVars
<1>2. Range(items) = {Head(items)} \union Range(items')
  BY TailElements DEF LogTypes, DropItem
<1>3. Head(items) \notin Range(items')
  BY DistinctQueue DEF LogTypes, DropItem, InOnePlace, Distinct
<1>4. Head(items) \notin buffer \union InBatches \union InUploads
  BY <1>2 DEF InOnePlace
<1>. QED BY <1>1, <1>2, <1>3, <1>4 DEF InUploader, InBatches, InUploads, DropItem

(* The upload of a batch begins with all that is in the batch.             *)
LEMMA BeginUploadEffect ==
  ASSUME LogTypes, BeginUpload
  PROVE  /\ InBatches = Head(batches) \union InBatches'
         /\ InUploads' = InUploads \union Head(batches)
         /\ InUploader' = InUploader
         /\ UNCHANGED <<items, buffer, sent, dropped, bqSuccess, bqFailed>>
<1>1. UNCHANGED <<items, buffer, sent, dropped, bqSuccess, bqFailed>>
  BY DEF BeginUpload, itemVars
<1>2. Range(batches) = {Head(batches)} \union Range(batches')
  BY TailElements DEF LogTypes, BeginUpload
<1>3. InBatches = Head(batches) \union InBatches'
  BY <1>2 DEF InBatches
<1>4. InUploads' = InUploads \union Head(batches)
  BY DEF BeginUpload, InUploads
<1>. QED BY <1>1, <1>3, <1>4 DEF InUploader

(* When it ends, the records of the batch leave and each is counted once.  *)
LEMMA EndUploadEffect ==
  ASSUME LogTypes, InOnePlace, NEW b \in SUBSET Actions, EndUpload(b)
  PROVE  /\ InUploader' = InUploader \ b /\ b \subseteq InUploader
         /\ bqSuccess' + bqFailed' = bqSuccess + bqFailed + Cardinality(b)
         /\ UNCHANGED <<items, buffer, batches, batching, sent, dropped>>
<1>1. UNCHANGED <<items, buffer, batches, batching, sent, dropped>>
  BY DEF EndUpload, itemVars
<1>2. b \in uploading /\ uploading' = uploading \ {b}
  BY DEF EndUpload
<1>3. InUploads' = InUploads \ b
  BY <1>2 DEF InOnePlace, InUploads
<1>4. b \subseteq InUploads
  BY <1>2 DEF InUploads
<1>5. b \intersect (Range(items) \union buffer \union InBatches) = {}
  BY <1>4 DEF InOnePlace
<1>6. \/ bqSuccess' = bqSuccess + Cardinality(b) /\ bqFailed' = bqFailed
      \/ bqFailed' = bqFailed + Cardinality(b) /\ bqSuccess' = bqSuccess
  BY Zenon DEF EndUpload
<1>7. Cardinality(b) \in Nat
  BY FS_Subset, FS_CardinalityType
<1>8. bqSuccess' + bqFailed' = bqSuccess + bqFailed + Cardinality(b)
  BY <1>6, <1>7 DEF LogTypes
<1>9. InBatches' = InBatches
  BY <1>1 DEF InBatches
<1>. QED BY <1>1, <1>3, <1>4, <1>5, <1>8, <1>9 DEF InUploader

(* A record moves from one place to the next.                              *)
LEMMA PlaceStep ==
  LogTypes /\ SentInv /\ InOnePlace /\ [LoggerNext]_loggerVars => InOnePlace'
<1> SUFFICES ASSUME LogTypes, SentInv, InOnePlace, [LoggerNext]_loggerVars PROVE InOnePlace'
  OBVIOUS
<1> DEFINE It == Range(items)
           UpApart == \A b, d \in uploading : b # d => b \intersect d = {}
<1>1. /\ Distinct(items) /\ Apart(batches) /\ UpApart
      /\ It \intersect (buffer \union InBatches \union InUploads) = {}
      /\ buffer \intersect (InBatches \union InUploads) = {} /\ InBatches \intersect InUploads = {}
  BY DEF InOnePlace, Distinct, Apart
<1>2. SUFFICES /\ Distinct(items') /\ Apart(batches') /\ UpApart'
               /\ It' \intersect (buffer' \union InBatches' \union InUploads') = {}
               /\ buffer' \intersect (InBatches' \union InUploads') = {} /\ InBatches' \intersect InUploads' = {}
  BY DEF InOnePlace, Distinct, Apart
<1>3. items \in Seq(Actions) /\ batches \in Seq(SUBSET Actions) /\ buffer \in SUBSET Actions
  BY DEF LogTypes
<1>4. CASE SendItem
  <2>1. proc.of \in Actions /\ proc.of \notin It \union buffer \union InBatches \union InUploads
    BY <1>4, NewItem DEF InUploader
  <2>2. items' = Append(items, proc.of) /\ UNCHANGED <<buffer, batches, uploading>>
    BY <1>4 DEF SendItem, bqVars
  <2>3. It' = It \union {proc.of} /\ Distinct(items')
    BY <1>1, <1>3, <2>1, <2>2, AppendElements, DistinctQueue
  <2>4. InBatches' = InBatches /\ InUploads' = InUploads /\ Apart(batches') /\ UpApart'
    BY <1>1, <2>2 DEF InBatches, InUploads
  <2> HIDE DEF It, UpApart
  <2>. QED BY <1>1, <2>1, <2>2, <2>3, <2>4
<1>5. CASE Batch \/ DropItem
  <2> DEFINE h == Head(items)
  <2>1. items # <<>> /\ items' = Tail(items) /\ UNCHANGED uploading
    BY <1>5 DEF Batch, DropItem, bqVars
  <2>2. It = {h} \union It' /\ h \notin It' /\ Distinct(items')
    BY <1>1, <1>3, <2>1, TailElements, DistinctQueue
  <2>3. InUploads' = InUploads /\ UpApart'
    BY <1>1, <2>1 DEF InUploads
  <2>4. \/ UNCHANGED <<buffer, batches>>
        \/ buffer' = buffer \union {h} /\ UNCHANGED batches
        \/ batches' = Append(batches, buffer) /\ buffer' = {h}
    BY <1>5 DEF Batch, DropItem, bqVars
  <2>5. CASE batches' = Append(batches, buffer) /\ buffer' = {h}
    <3>1. Range(batches') = Range(batches) \union {buffer}
      BY <1>3, <2>5, AppendElements
    <3>3. buffer \intersect (UNION Range(batches)) = {}
      BY <1>1 DEF InBatches
    <3>4. Apart(batches')
      <4>1. batches \in Seq(SUBSET Actions) /\ buffer \in SUBSET Actions /\ Apart(batches)
        BY <1>1, <1>3
      <4>2. Apart(Append(batches, buffer))
        BY <3>3, <4>1, ApartQueue
      <4>. QED BY <2>5, <4>2
    <3>2. InBatches' = InBatches \union buffer
      BY <3>1 DEF InBatches
    <3> HIDE DEF It, UpApart, h
    <3>. QED BY <1>1, <2>2, <2>3, <2>5, <3>2, <3>4
  <2>6. CASE UNCHANGED batches /\ (UNCHANGED buffer \/ buffer' = buffer \union {h})
    <3>1. InBatches' = InBatches /\ Apart(batches')
      BY <1>1, <2>6 DEF InBatches
    <3> HIDE DEF It, UpApart, h
    <3>. QED BY <1>1, <2>2, <2>3, <2>6, <3>1
  <2>. QED BY <2>4, <2>5, <2>6
<1>6. CASE LastBatch
  <2>1. UNCHANGED <<items, uploading>> /\ batches' = Append(batches, buffer) /\ buffer' = {}
    BY <1>6 DEF LastBatch, itemVars
  <2>2. InBatches' = InBatches \union buffer
    BY <1>6, LastBatchEffect
  <2>3. Apart(batches')
    <3>1. /\ batches \in Seq(SUBSET Actions) /\ buffer \in SUBSET Actions
          /\ Apart(batches) /\ buffer \intersect (UNION Range(batches)) = {}
      BY <1>1, <1>3 DEF InBatches
    <3>2. Apart(Append(batches, buffer))
      BY <3>1, ApartQueue
    <3>. QED BY <2>1, <3>2
  <2>4. It' = It /\ Distinct(items') /\ InUploads' = InUploads /\ UpApart'
    BY <1>1, <2>1 DEF InUploads
  <2> HIDE DEF It, UpApart
  <2>. QED BY <1>1, <2>1, <2>2, <2>3, <2>4
<1>7. CASE BeginUpload
  <2> DEFINE h == Head(batches)
  <2>1. /\ UNCHANGED <<items, buffer>> /\ batches # <<>> /\ batches' = Tail(batches)
        /\ uploading' = uploading \union {h}
    BY <1>7 DEF BeginUpload, itemVars
  <2>2. InBatches = h \union InBatches' /\ InUploads' = InUploads \union h
    BY <1>7, BeginUploadEffect
  <2>3. Apart(batches') /\ h \intersect InBatches' = {}
    <3>1. batches \in Seq(SUBSET Actions) /\ Apart(batches)
      BY <1>1, <1>3
    <3>2. Apart(Tail(batches)) /\ h \intersect (UNION Range(Tail(batches))) = {}
      BY <2>1, <3>1, ApartQueue
    <3>. QED BY <2>1, <3>2 DEF InBatches
  <2>4. \A b \in uploading : b \intersect h = {} /\ h \intersect b = {}
    BY <1>1, <2>2 DEF InUploads
  <2>5. UpApart'
    BY <1>1, <2>1, <2>4
  <2>6. It' = It /\ Distinct(items')
    BY <1>1, <2>1
  <2> HIDE DEF It, UpApart, h
  <2>. QED BY <1>1, <2>1, <2>2, <2>3, <2>5, <2>6
<1>8. ASSUME NEW b \in SUBSET Actions, EndUpload(b)
      PROVE  UNCHANGED <<items, buffer, batches>> /\ uploading' \subseteq uploading
  BY <1>8 DEF EndUpload, itemVars
<1>10. CASE UNCHANGED <<items, buffer, batches>> /\ uploading' \subseteq uploading
  <2>1. It' = It /\ Distinct(items') /\ InBatches' = InBatches /\ Apart(batches') /\ UpApart'
    BY <1>1, <1>10 DEF InBatches
  <2>2. InUploads' \subseteq InUploads
    BY <1>10 DEF InUploads
  <2> HIDE DEF It, UpApart
  <2>. QED BY <1>1, <1>10, <2>1, <2>2
<1>11. CASE UNCHANGED uploaderVars
  BY <1>10, <1>11 DEF uploaderVars
<1>. QED BY <1>4, <1>5, <1>6, <1>7, <1>8, <1>10, <1>11, UploaderMoves DEF UploaderStep

(* A record is sent once: only while its end is applied.                   *)
LEMMA SentStep ==
  LogTypes /\ SentInv /\ InOnePlace /\ RecordInv /\ [LoggerNext]_loggerVars => SentInv'
<1> SUFFICES ASSUME LogTypes, SentInv, InOnePlace, RecordInv, [LoggerNext]_loggerVars PROVE SentInv'
  OBVIOUS
<1> DEFINE AppliedOnce == /\ \A a \in sent : action[a] = "logged" /\ (Applies("end", a) => proc.at = "count")
                          /\ proc.at = "items" => UseBQ
           Inside == dropped \subseteq sent /\ InUploader \subseteq sent \ dropped
<1>1. AppliedOnce /\ Inside
  BY DEF SentInv
<1>2. SUFFICES AppliedOnce' /\ Inside'
  BY DEF SentInv
<1>3. AppliedOnce'
  <2> USE <1>1 DEF Applies, callVars, procVars, itemVars
  <2>1. CASE SendItem
    <3>1. proc.ev = "end" /\ proc.of \in Actions /\ sent' = sent \union {proc.of}
      BY <2>1 DEF SendItem, LogTypes
    <3>2. action[proc.of] = "logged"
      BY <3>1 DEF RecordInv
    <3>. QED BY <2>1, <3>1, <3>2 DEF SendItem, LogTypes
  <2>2. CASE UNCHANGED sent
    <3>1. CASE CallStep
      <4>1. ASSUME NEW a \in Actions, LogActionStart(a) \/ Log(a) \/ RejectCommand(a)
            PROVE  AppliedOnce'
        BY <2>2, <4>1 DEF LogActionStart, Log, RejectCommand, LogTypes
      <4>2. CASE \E q \in Summaries : GetStatusSummary(q) \/ SummaryTimesOut(q)
        BY <2>2, <4>2 DEF GetStatusSummary, SummaryTimesOut
      <4>. QED BY <3>1, <4>1, <4>2 DEF CallStep
    <3>2. CASE ProcStep
      <4>1. ASSUME NEW a \in Actions, ReceiveAction(a) PROVE AppliedOnce'
        BY <2>2, <4>1 DEF ReceiveAction, Event, Ready, Idle, LogTypes
      <4>2. CASE \E q \in Summaries : ReceiveSummary(q)
        BY <2>2, <4>2 DEF ReceiveSummary, Event
      <4>3. CASE ApplyStart \/ CountEnd \/ ApplySummarize \/ EventsEnd \/ SendItemPanics
        BY <2>2, <4>3 DEF ApplyStart, CountEnd, ApplySummarize, EventsEnd, SendItemPanics, Idle
      <4>4. CASE ApplyEnd
        BY <2>2, <4>4 DEF ApplyEnd, Idle, LogTypes
      <4>. QED BY <2>1, <3>2, <4>1, <4>2, <4>3, <4>4 DEF ProcStep
    <3>3. CASE TurnCallersAway
      BY <2>2, <3>3 DEF TurnCallersAway
    <3>4. CASE UNCHANGED <<open, action, proc, recOpen, running, recorded>>
      BY <2>2, <3>4
    <3>. QED BY <3>1, <3>2, <3>3, <3>4, RecordMoves
  <2>3. CASE Batch \/ DropItem \/ LastBatch \/ BeginUpload \/ \E b \in SUBSET Actions : EndUpload(b)
    <3>1. UNCHANGED sent
      BY <2>3 DEF Batch, DropItem, LastBatch, BeginUpload, EndUpload
    <3>. QED BY <2>2, <3>1
  <2>. QED BY <2>1, <2>2, <2>3, UploaderMoves DEF UploaderStep, uploaderVars
<1>4. Inside'
  <2> USE <1>1
  <2>1. CASE SendItem
    BY <2>1, NewItem, SendItemEffect
  <2>2. CASE Batch \/ LastBatch \/ BeginUpload
    BY <2>2, BatchEffect, LastBatchEffect, BeginUploadEffect
  <2>3. CASE DropItem
    BY <2>3, DropItemEffect
  <2>4. ASSUME NEW b \in SUBSET Actions, EndUpload(b) PROVE Inside'
    BY <2>4, EndUploadEffect
  <2>5. CASE UNCHANGED uploaderVars
    <3>1. InUploader' = InUploader
      BY <2>5 DEF uploaderVars, InUploader, InBatches, InUploads
    <3>. QED BY <2>5, <3>1 DEF uploaderVars
  <2>. QED BY <2>1, <2>2, <2>3, <2>4, <2>5, UploaderMoves DEF UploaderStep
<1>. QED BY <1>3, <1>4

(* The batching goroutine returns once l.items is closed and empty, and    *)
(* keeps to the limits.                                                    *)
LEMMA BatchStep ==
  LogTypes /\ CloseInv /\ BatchInv /\ SentInv /\ [LoggerNext]_loggerVars => BatchInv'
<1> SUFFICES ASSUME LogTypes, CloseInv, BatchInv, SentInv, [LoggerNext]_loggerVars PROVE BatchInv'
  OBVIOUS
<1>1. itemsClosed => itemsClosed'
  <2> USE DEF infoVars, itemVars
  <2>1. CASE CallStep
    BY <2>1 DEF CallStep, LogActionStart, Log, RejectCommand, GetStatusSummary, SummaryTimesOut
  <2>2. CASE ProcStep
    BY <2>2 DEF ProcStep, ReceiveAction, ReceiveSummary, ApplyStart, ApplyEnd, SendItem,
       SendItemPanics,
       CountEnd, ApplySummarize, EventsEnd
  <2>3. CASE BeginClose \/ CloseStep
    BY <2>3 DEF BeginClose, CloseStep, TurnCallersAway, CloseCh, CloseItems, Aggregate,
       WriteProxyInfo
  <2>4. CASE BQStep
    BY <2>4 DEF BQStep, Batch, DropItem, LastBatch, BeginUpload, EndUpload
  <2>5. CASE \/ \E e \in Events : AddProxyEvents(e)
             \/ AddStep \/ CollectResourceUsageSamples \/ SamplerEnds \/ UNCHANGED loggerVars
    BY <2>5 DEF AddProxyEvents, AddStep, AddEventTimesToProxyInfo, CollectResourceUsageSamples,
       SamplerEnds, loggerVars
  <2>. QED BY <2>1, <2>2, <2>3, <2>4, <2>5 DEF LoggerNext
<1>2. items \in Seq(Actions) /\ ItemsCap \in Nat
  BY DEF LogTypes
<1>3. IsFiniteSet(buffer) /\ Cardinality(buffer) \in Nat
  BY FS_Subset, FS_CardinalityType DEF LogTypes
<1>4. CASE SendItem
  <2>1. items' = Append(items, proc.of) /\ proc.of \in Actions /\ Len(items) < ItemsCap
    BY <1>4 DEF SendItem, LogTypes
  <2>2. Len(items') = Len(items) + 1 /\ Len(items) \in Nat
    BY <1>2, <2>1, AppendElements
  <2>3. Len(items') <= ItemsCap
    BY <1>2, <2>1, <2>2
  <2>4. UseBQ /\ ~itemsClosed /\ UNCHANGED <<buffer, batching>>
    BY <1>4 DEF SendItem, SentInv, bqVars
  <2>5. batching
    BY <2>4 DEF BatchInv
  <2>. QED BY <1>1, <2>3, <2>4, <2>5 DEF BatchInv
<1>5. CASE Batch \/ DropItem
  <2>1. items # <<>> /\ items' = Tail(items) /\ UNCHANGED batching /\ batching
    BY <1>5 DEF Batch, DropItem, bqVars
  <2>2. Len(items') <= ItemsCap
    <3>1. Len(items') = Len(items) - 1 /\ Len(items) \in Nat
      BY <1>2, <2>1, TailElements
    <3>. QED BY <1>2, <3>1 DEF BatchInv
  <2>3. Cardinality(buffer') <= BatchMax
    <3>1. CASE UNCHANGED buffer
      BY <3>1 DEF BatchInv
    <3>2. CASE Batch /\ BatchFull
      <4>1. buffer' = {Head(items)}
        BY <3>2 DEF Batch
      <4>2. Cardinality(buffer') = 1
        BY <4>1, FS_Singleton
      <4>. QED BY <4>2
    <3>3. CASE Batch /\ ~BatchFull
      <4>1. buffer' = buffer \union {Head(items)}
        BY <3>3 DEF Batch
      <4>2. Cardinality(buffer') = Cardinality(buffer) \/ Cardinality(buffer') = Cardinality(buffer) + 1
        BY <1>3, <4>1, FS_AddElement
      <4>3. Cardinality(buffer) < BatchMax
        BY <1>3, <3>3 DEF BatchInv, BatchFull
      <4>. QED BY <1>3, <4>2, <4>3
    <3>. QED BY <1>5, <3>1, <3>2, <3>3 DEF DropItem, bqVars
  <2>. QED BY <1>1, <2>1, <2>2, <2>3 DEF BatchInv
<1>6. CASE LastBatch
  <2>1. items = <<>> /\ itemsClosed /\ UNCHANGED items /\ buffer' = {} /\ batching' = FALSE
    BY <1>6 DEF LastBatch, itemVars
  <2>2. Cardinality(buffer') = 0
    BY <2>1, FS_EmptySet
  <2>. QED BY <1>1, <2>1, <2>2 DEF BatchInv
<1>7. CASE UNCHANGED <<items, buffer, batching>>
  BY <1>1, <1>7 DEF BatchInv
<1>8. CASE BeginUpload \/ \E b \in SUBSET Actions : EndUpload(b)
  BY <1>7, <1>8 DEF BeginUpload, EndUpload, itemVars
<1>. QED BY <1>4, <1>5, <1>6, <1>7, <1>8, UploaderMoves DEF UploaderStep, uploaderVars

(* The counts are those of the records that have left the uploader.        *)
LEMMA CountedStep ==
  LogTypes /\ SentInv /\ InOnePlace /\ CountedInv /\ [LoggerNext]_loggerVars => CountedInv'
<1> SUFFICES ASSUME LogTypes, SentInv, InOnePlace, CountedInv, [LoggerNext]_loggerVars
             PROVE  CountedInv'
  OBVIOUS
<1>1. /\ sent \ dropped \subseteq Actions /\ InUploader \subseteq Actions
      /\ dropped \subseteq sent /\ InUploader \subseteq sent \ dropped
  BY DEF LogTypes, SentInv
<1>2. IsFiniteSet(sent \ dropped) /\ IsFiniteSet(InUploader)
  BY <1>1, FS_Subset
<1>3. /\ Cardinality(sent \ dropped) \in Nat /\ Cardinality(InUploader) \in Nat
      /\ bqSuccess \in Nat /\ bqFailed \in Nat
  BY <1>2, FS_CardinalityType DEF LogTypes
<1>4. CASE SendItem
  <2>1. proc.of \notin InUploader /\ proc.of \notin sent
    BY <1>4, NewItem
  <2>2. /\ InUploader' = InUploader \union {proc.of}
        /\ (sent \ dropped)' = (sent \ dropped) \union {proc.of}
        /\ UNCHANGED <<bqSuccess, bqFailed>>
    BY <1>1, <1>4, <2>1, SendItemEffect
  <2>3. /\ Cardinality(InUploader') = Cardinality(InUploader) + 1
        /\ Cardinality((sent \ dropped)') = Cardinality(sent \ dropped) + 1
    <3>1. Cardinality(InUploader \union {proc.of}) = Cardinality(InUploader) + 1
      BY <1>2, <2>1, FS_AddElement
    <3>2. Cardinality((sent \ dropped) \union {proc.of}) = Cardinality(sent \ dropped) + 1
      BY <1>2, <2>1, FS_AddElement
    <3>. QED BY <2>2, <3>1, <3>2, Zenon
  <2>. QED BY <1>3, <2>2, <2>3 DEF CountedInv
<1>5. CASE Batch \/ LastBatch \/ BeginUpload
  BY <1>5, BatchEffect, LastBatchEffect, BeginUploadEffect DEF CountedInv
<1>6. CASE DropItem
  <2> DEFINE h == Head(items)
  <2>1. /\ InUploader' = InUploader \ {h} /\ h \in InUploader /\ h \in sent \ dropped
        /\ (sent \ dropped)' = (sent \ dropped) \ {h}
        /\ UNCHANGED <<bqSuccess, bqFailed>>
    BY <1>1, <1>6, DropItemEffect
  <2>2. /\ Cardinality(InUploader') = Cardinality(InUploader) - 1
        /\ Cardinality((sent \ dropped)') = Cardinality(sent \ dropped) - 1
    <3>1. Cardinality(InUploader \ {h}) = Cardinality(InUploader) - 1
      BY <1>2, <2>1, FS_RemoveElement
    <3>2. Cardinality((sent \ dropped) \ {h}) = Cardinality(sent \ dropped) - 1
      BY <1>2, <2>1, FS_RemoveElement
    <3>. QED BY <2>1, <3>1, <3>2, Zenon
  <2>. QED BY <1>3, <2>1, <2>2 DEF CountedInv
<1>7. ASSUME NEW b \in SUBSET Actions, EndUpload(b) PROVE CountedInv'
  <2>1. /\ InUploader' = InUploader \ b /\ InUploader \intersect b = b
        /\ bqSuccess' + bqFailed' = bqSuccess + bqFailed + Cardinality(b)
        /\ UNCHANGED <<sent, dropped>>
    BY <1>7, EndUploadEffect
  <2>2. Cardinality(InUploader') = Cardinality(InUploader) - Cardinality(b)
    <3>1. Cardinality(InUploader \ b) = Cardinality(InUploader) - Cardinality(InUploader \intersect b)
      BY <1>2, FS_Difference
    <3>. QED BY <2>1, <3>1, Zenon
  <2>3. Cardinality(b) \in Nat
    BY FS_Subset, FS_CardinalityType
  <2>. QED BY <1>3, <2>1, <2>2, <2>3 DEF CountedInv
<1>8. CASE UNCHANGED uploaderVars
  <2>1. InUploader' = InUploader /\ UNCHANGED <<sent, dropped, bqSuccess, bqFailed>>
    BY <1>8 DEF uploaderVars, InUploader, InBatches, InUploads
  <2>. QED BY <2>1 DEF CountedInv
<1>. QED BY <1>4, <1>5, <1>6, <1>7, <1>8, UploaderMoves DEF UploaderStep

-----------------------------------------------------------------------------
(* A Logger begins with nothing to account for.                            *)
LEMMA LoggerInvInit == LoggerInit => LoggerInv
<1> SUFFICES ASSUME LoggerInit PROVE LoggerInv
  OBVIOUS
<1>1. LogTypes
  BY LogTypesInit
<1>2. Range(items) = {} /\ InBatches = {} /\ InUploads = {}
  BY DEF LoggerInit, Range, InBatches, InUploads
<1>3. InUploader = {} /\ InOnePlace
  BY <1>2 DEF LoggerInit, InUploader, InOnePlace
<1>4. Cardinality({}) = 0
  BY FS_EmptySet
<1>5. CloseInv /\ RecordInv
  BY DEF LoggerInit, CloseInv, RecordInv, Applies, Idle
<1>6. RunningInv /\ CountedInv
  BY <1>3, <1>4 DEF LoggerInit, RunningInv, CountedInv
<1>7. SentInv
  BY <1>3 DEF LoggerInit, SentInv, Idle
<1>8. BatchInv
  BY <1>4 DEF LoggerInit, BatchInv
<1>. QED BY <1>1, <1>3, <1>5, <1>6, <1>7, <1>8 DEF LoggerInv

(* The inductive invariant of the Logger and its uploader.                 *)
THEOREM LoggerInvariant == LoggerSpec => []LoggerInv
<1>1. LoggerInv /\ [LoggerNext]_loggerVars => LoggerInv'
  BY LogTypesStep, CloseStepKept, RecordStep, RunningStep, SentStep, BatchStep, PlaceStep,
     CountedStep
  DEF LoggerInv
<1>. QED BY <1>1, LoggerInvInit, PTL DEF LoggerSpec

(* When CloseAndAggregate has written the statistics, every record whose   *)
(* Log was accepted is in them, and every sample of resource usage.        *)
THEOREM RecordsAreAggregated == LoggerSpec => []AcceptedRecordsAggregated
<1>1. LoggerInv => AcceptedRecordsAggregated
  <2> SUFFICES ASSUME LoggerInv, closer = "done" PROVE AcceptedRecordsAggregated
    BY DEF AcceptedRecordsAggregated
  <2>1. proc.ev = "exited" /\ infoSamples = samples
    BY DEF LoggerInv, CloseInv
  <2>2. \A a \in Actions : a \in recorded <=> action[a] = "logged"
    BY <2>1 DEF LoggerInv, RecordInv, Applies
  <2>3. {a \in Actions : action[a] = "logged"} = recorded
    BY <2>2 DEF LoggerInv, LogTypes
  <2>. QED BY <2>1, <2>3 DEF AcceptedRecordsAggregated
<1>. QED BY <1>1, LoggerInvariant, PTL

(* Every record that is sent to BigQuery is uploaded, failed or dropped    *)
(* once, for any capacity of l.items and any size of a batch; and the      *)
(* counters stay within their bounds.                                      *)
THEOREM RecordsAreAccounted == LoggerSpec => []UploadsAccounted
<1>1. LoggerInv => UploadsAccounted
  <2> SUFFICES ASSUME LoggerInv PROVE UploadsAccounted
    OBVIOUS
  <2> USE DEF LoggerInv
  <2>1. Cardinality(Actions) \in Nat
    BY FS_CardinalityType
  <2>2. /\ Cardinality(recOpen) \in Nat /\ Cardinality(recOpen) <= Cardinality(Actions)
        /\ Cardinality(sent \ dropped) <= Cardinality(Actions)
        /\ Cardinality(sent \ dropped) \in Nat /\ Cardinality(InUploader) \in Nat
    <3>1. recOpen \subseteq Actions /\ sent \ dropped \subseteq Actions /\ InUploader \subseteq Actions
      BY DEF LogTypes, SentInv
    <3>. QED BY <3>1, FS_Subset, FS_CardinalityType
  <2>3. running \in 0 .. Cardinality(Actions)
    BY <2>1, <2>2 DEF RunningInv
  <2>4. bqSuccess \in 0 .. Cardinality(Actions) /\ bqFailed \in 0 .. Cardinality(Actions)
    BY <2>1, <2>2 DEF CountedInv, LogTypes
  <2>5. LoggerTypeOK
    BY <2>3, <2>4 DEF LoggerTypeOK, LogTypes, LogFlags, BatchInv
  <2>6. ASSUME closer = "done" PROVE bqSuccess + bqFailed = Cardinality(sent \ dropped)
    <3>1. ~batching /\ batches = <<>> /\ uploading = {}
      BY <2>6 DEF CloseInv, UploaderDone
    <3>2. items = <<>> /\ buffer = {}
      BY <3>1 DEF BatchInv
    <3>3. InUploader = {}
      BY <3>1, <3>2 DEF InUploader, InBatches, InUploads, Range
    <3>4. Cardinality(InUploader) = 0
      BY <3>3, FS_EmptySet
    <3>. QED BY <3>4 DEF CountedInv, LogTypes
  <2>. QED BY <2>5, <2>6 DEF UploadsAccounted, CountedInv
<1>. QED BY <1>1, LoggerInvariant, PTL

-----------------------------------------------------------------------------
(* Bootstrap and Lifecycle, which see the server from outside: for any     *)
(* number of reproxy processes, runs of bootstrap and rewrappers, over TCP *)
(* and Unix sockets, a shutdown that reports success has ended the         *)
(* process, and the PID file names the reproxy that serves.                *)

ProcStates == {"none", "starting", "bound", "listening", "draining", "cleanup", "exited"}
MainStates == {"idle", "read", "alive", "select", "start", "write", "wait", "events"}

(* The types of what the proofs need.                                      *)
BootTypes ==
  /\ reproxy \in [Pids -> ProcStates]
  /\ pidFile \in Pids \union {None} /\ addr \in Pids \union {None} /\ target \in Pids \union {None}
  /\ new \in Pids \union {None}
  /\ pc \in MainStates /\ poll \in {"off", "check", "delete", "dead"}
  /\ op \in {"start", "shutdown", "async"}

(* Where bootstrap stands: the processes that it knows by their PIDs have  *)
(* been started, PollForDeath reports only what it has seen, and done is   *)
(* the outcome of a run that has ended.                                    *)
BootInStep ==
  /\ pidFile # None => reproxy[pidFile] # "none"
  /\ target # None => reproxy[target] # "none"
  /\ pc \in {"write", "wait", "events"} => new \in Pids /\ reproxy[new] # "none"
  /\ pc \in {"start", "write", "wait", "events"} => op = "start"
  /\ pc \in {"alive", "select"} => target \in Pids
  /\ pc \in {"idle", "read", "alive"} => poll = "off"
  /\ poll # "off" => target \in Pids
  /\ poll \in {"delete", "dead"} => reproxy[target] = "exited"
  /\ (poll = "dead" /\ pc = "select") => pidFile = None
  /\ done.op # "none" => pc = "idle"
  /\ (done.op = "shutdown" /\ done.ok) => done.pid \in Pids /\ reproxy[done.pid] = "exited" /\ pidFile = None

(* As long as no shutdown gave up waiting there is at most one reproxy,    *)
(* and the PID file names it, or is about to.                              *)
OneProxy ==
  ~expired =>
    /\ \A p \in Pids : Alive(p) => pidFile = p \/ (pc = "write" /\ new = p)
    /\ pc \in {"alive", "select"} => pidFile \in {target, None}
    /\ pc \in {"start", "write"} => pidFile = None
    /\ poll \in {"check", "delete"} => pc = "select"
    /\ (done.op = "start" /\ done.ok) => done.pid \in Pids

LifeInv == BootTypes /\ BootInStep /\ OneProxy

-----------------------------------------------------------------------------
USE BootstrapAssumption DEF ProcStates, MainStates

(* What a process does by itself, or a crash does to it.                   *)
LEMMA ProcessSteps ==
  ASSUME LifeInv, NEW p \in Pids,
         Listen(p) \/ Serve(p) \/ LogExit(p) \/ MainReturns(p) \/ Drained(p) \/ Interrupt(p) \/ Crash(p)
  PROVE  LifeInv'
<1> USE DEF LifeInv, BootTypes, BootInStep, OneProxy, Alive, Serving, shutVars, bootVars
<1>1. CASE Listen(p)
  BY <1>1 DEF Listen
<1>2. CASE Serve(p)
  BY <1>2 DEF Serve
<1>3. CASE LogExit(p)
  BY <1>3 DEF LogExit
<1>4. CASE MainReturns(p)
  BY <1>4 DEF MainReturns
<1>5. CASE Drained(p)
  BY <1>5 DEF Drained
<1>6. CASE Interrupt(p)
  BY <1>6 DEF Interrupt, Unbound
<1>7. CASE Crash(p)
  BY <1>7 DEF Crash
<1> QED BY <1>1, <1>2, <1>3, <1>4, <1>5, <1>6, <1>7

(* The goroutines of bootstrap.                                            *)
LEMMA GoroutineSteps ==
  ASSUME LifeInv, Goroutines
  PROVE  LifeInv'
<1> USE DEF LifeInv, BootTypes, BootInStep, OneProxy, Alive, Serving, shutVars, bootVars, reproxyVars
<1>1. CASE SendShutdown
  BY <1>1 DEF SendShutdown, Reachable, Unbound
<1>2. CASE PollCheck
  BY <1>2 DEF PollCheck, IsAlive
<1>3. CASE PollDelete
  BY <1>3 DEF PollDelete
<1> QED BY <1>1, <1>2, <1>3 DEF Goroutines

(* shutdownReproxy returns: startProxy goes on, or bootstrap ends.         *)
LEMMA ShutdownReturns ==
  ASSUME LifeInv, NEW ok \in BOOLEAN, NEW got \in BOOLEAN, AfterShutdown(ok, got),
         UNCHANGED <<reproxyVars, addr, op, new>>, pidFile' \in {pidFile, None}, expired => expired',
         pc \in {"read", "alive", "select"},
         op = "start" => expired' \/ (pidFile' = None /\ poll \in {"off", "dead"}),
         ok /\ op = "shutdown" => poll = "dead" /\ pc = "select",
         pidFile' = None => \A p \in Pids : Alive(p) => expired' \/ pidFile = None
  PROVE  LifeInv'
<1> USE DEF LifeInv, BootTypes, BootInStep, OneProxy, Alive, reproxyVars
<1>1. CASE op = "start"
  BY <1>1 DEF AfterShutdown
<1>2. CASE op # "start"
  BY <1>2 DEF AfterShutdown, End
<1> QED BY <1>1, <1>2

(* The AddProxyEvents rpc ends, and startProxy with it.                    *)
LEMMA EventsSteps ==
  ASSUME LifeInv, pc = "events", ProxyStarted
  PROVE  LifeInv'
BY DEF ProxyStarted, End, LifeInv, BootTypes, BootInStep, OneProxy, Alive, reproxyVars

(* The main goroutine of bootstrap.                                        *)
LEMMA MainSteps ==
  ASSUME LifeInv, Main
  PROVE  LifeInv'
<1> USE DEF LifeInv
<1>1. CASE AuthFails
  BY <1>1 DEF AuthFails, End, BootTypes, BootInStep, OneProxy, Alive, reproxyVars
<1>2. CASE ReadFile
  <2>1. CASE pidFile = None
    <3>1. poll = "off"
      BY <1>2 DEF ReadFile, BootInStep
    <3> QED BY <1>2, <2>1, <3>1, ShutdownReturns DEF ReadFile
  <2>2. CASE pidFile # None
    BY <1>2, <2>2 DEF ReadFile, BootTypes, BootInStep, OneProxy, Alive, reproxyVars
  <2> QED BY <2>1, <2>2
<1>3. CASE CheckAlive
  <2>1. CASE IsAlive(target)
    BY <1>3, <2>1 DEF CheckAlive, IsAlive, BootTypes, BootInStep, OneProxy, Alive, reproxyVars
  <2>2. CASE ~IsAlive(target)
    <3>1. \A p \in Pids : Alive(p) => expired' \/ pidFile = None
      BY <1>3, <2>2 DEF CheckAlive, IsAlive, BootTypes, BootInStep, OneProxy
    <3>2. poll = "off"
      BY <1>3 DEF CheckAlive, BootInStep
    <3> QED BY <1>3, <2>2, <3>1, <3>2, ShutdownReturns DEF CheckAlive
  <2> QED BY <2>1, <2>2
<1>4. CASE SelectStats
  BY <1>4, ShutdownReturns DEF SelectStats, EarlyStats
<1>5. CASE SelectDead
  <2>1. pidFile = None
    BY <1>5 DEF SelectDead, BootInStep
  <2>2. (rpc = "stats") \in BOOLEAN
    OBVIOUS
  <2> QED BY <1>5, <2>1, <2>2, ShutdownReturns DEF SelectDead
<1>6. CASE SelectTimeout
  <2>1. (rpc = "stats") \in BOOLEAN
    OBVIOUS
  <2> QED BY <1>6, <2>1, ShutdownReturns DEF SelectTimeout
<1> USE DEF BootTypes, BootInStep, OneProxy, Alive, Serving, reproxyVars, shutVars
<1>7. CASE StartProc
  <2>1. CASE End(FALSE, None, "none") /\ UNCHANGED <<reproxy, new>>
    BY <1>7, <2>1 DEF StartProc, End
  <2>2. ASSUME NEW p \in Pids, reproxy[p] = "none", reproxy' = [reproxy EXCEPT ![p] = "starting"], new' = p, pc' = "write",
               UNCHANGED <<done, target, poll, rpc, rpcTo>>
        PROVE  LifeInv'
    BY <1>7, <2>2 DEF StartProc
  <2> QED BY <1>7, <2>1, <2>2 DEF StartProc
<1>8. CASE WriteFile
  <2>1. pc = "write" /\ pc' = "wait" /\ pidFile' = new /\ new \in Pids /\ reproxy[new] # "none"
    BY <1>8 DEF WriteFile, Goto
  <2>2. UNCHANGED <<reproxy, addr, target, poll, op, new, done, expired>>
    BY <1>8 DEF WriteFile
  <2>3. OneProxy'
    BY <2>1, <2>2
  <2> QED BY <2>1, <2>2, <2>3
<1>9. CASE StartupError
  BY <1>9 DEF StartupError, End
<1>10. CASE DialSucceeds
  BY <1>10 DEF DialSucceeds, Goto
<1>11. CASE WaitTimeout
  BY <1>11 DEF WaitTimeout, Kill, End
<1>12. CASE WriteFails
  BY <1>12 DEF WriteFails, Kill, End
<1>13. CASE EventsLost
  BY <1>13, EventsSteps DEF EventsLost
<1> QED BY <1>1, <1>2, <1>3, <1>4, <1>5, <1>6, <1>7, <1>8, <1>9, <1>10, <1>11, <1>12, <1>13 DEF Main

(* LifeInv holds at every moment.                                          *)
THEOREM LifeInvariant == LifeSpec => []LifeInv
<1>1. LifeInit => LifeInv
  BY DEF LifeInit, BootInit, Nothing, LifeInv, BootTypes, BootInStep, OneProxy, Alive
<1>2. LifeInv /\ [LifeNext]_allVars => LifeInv'
  <2> SUFFICES ASSUME LifeInv, [LifeNext]_allVars PROVE LifeInv'
    OBVIOUS
  <2>1. ASSUME UNCHANGED bootstrapVars PROVE LifeInv'
    BY <2>1 DEF bootstrapVars, reproxyVars, shutVars, bootVars, LifeInv, BootTypes, BootInStep, OneProxy, Alive
  <2>2. ASSUME NEW w \in Wrappers, Wrapper(w) \/ Reply(w) \/ TimePasses(w) PROVE UNCHANGED bootstrapVars
    BY <2>2 DEF Wrapper, Reply, Cancelled, TimePasses, CannotRun, CreateRequest, RunOffline, Attempt, Executes,
       Answered, ConnectionLost
  <2>3. ASSUME NEW p \in Pids, ReproxyStep(p) \/ IdleTimeout(p) \/ BootStep(Crash(p)) PROVE LifeInv'
    BY <2>3, ProcessSteps DEF ReproxyStep, IdleTimeout, BootStep
  <2>4. ASSUME NEW o \in {"start", "shutdown", "async"}, BootStep(Begin(o)) PROVE LifeInv'
    BY <2>4 DEF BootStep, Begin, Goto, Nothing, reproxyVars, shutVars, LifeInv, BootTypes,
       BootInStep, OneProxy, Alive
  <2>5. CASE BootStep(Main)
    BY <2>5, MainSteps DEF BootStep
  <2>6. CASE BootStep(Goroutines)
    BY <2>6, GoroutineSteps DEF BootStep
  <2>7. CASE UNCHANGED allVars
    BY <2>1, <2>7 DEF allVars
  <2>8. CASE BootStep(EventsAnswered)
    BY <2>8, EventsSteps DEF BootStep, EventsAnswered
  <2> QED BY <2>1, <2>2, <2>3, <2>4, <2>5, <2>6, <2>7, <2>8 DEF LifeNext
<1> QED BY <1>1, <1>2, PTL DEF LifeSpec

(* A shutdown that waits for the end of reproxy and reports success has    *)
(* ended the process and removed its PID file (bootstrap.go:               *)
(* shutdownReproxy; reproxypid.go: PollForDeath).                          *)
THEOREM ShutdownEndsProcess == LifeSpec => []ShutdownMeansDead
<1>1. LifeInv => ShutdownMeansDead
  BY DEF LifeInv, BootTypes, BootInStep, ShutdownMeansDead, Alive
<1> QED BY <1>1, LifeInvariant, PTL

(* The PID file names the reproxy that a successful start left behind, for *)
(* as long as it serves (bootstrap.go: startProxy; cmd/reproxy/main.go).   *)
THEOREM PidFileIsRight == LifeSpec => []PidFileNamesServingProxy
<1>1. LifeInv => PidFileNamesServingProxy
  BY DEF LifeInv, BootTypes, BootInStep, OneProxy, PidFileNamesServingProxy, Alive, Serving
<1> QED BY <1>1, LifeInvariant, PTL
=============================================================================
