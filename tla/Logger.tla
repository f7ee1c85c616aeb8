------------------------------- MODULE Logger -------------------------------
(***************************************************************************)
(* The asynchronous action log (internal/pkg/logger/logger.go) and the     *)
(* BigQuery uploader it feeds (internal/pkg/bigquery/bigquery.go).         *)
(*                                                                         *)
(* Rpc goroutines send events over the unbuffered channel l.ch to the one  *)
(* goroutine processEvents, while they hold l.mu for reading.              *)
(* CloseAndAggregate takes l.mu for writing to turn callers away, closes   *)
(* the channels and waits for the background goroutines.  Applying the end *)
(* of an action also sends the record to l.items, from which a goroutine   *)
(* makes batches that another one uploads, one goroutine per batch.  A     *)
(* sampler adds resource usage, and AddProxyEvents event times, to the     *)
(* proxy information that CloseAndAggregate writes last.                   *)
(***************************************************************************)
EXTENDS Naturals, Sequences, FiniteSets, SequencesExt

CONSTANTS
  Actions,    \* RunCommand rpcs that log an action
  Summaries,  \* GetStatusSummary rpcs
  Events,     \* AddProxyEvents rpcs
  MaxSamples, \* bound on the samples of resource usage
  UseBQ,      \* l.bqSpec # nil
  ItemsCap,   \* capacity of l.items
  BatchMax,   \* records that fit in one batch
  BatchesCap  \* capacity of the channel of batches

ASSUME LoggerAssumption ==
  /\ UseBQ \in BOOLEAN
  /\ ItemsCap \in Nat \ {0}
  /\ BatchMax \in Nat \ {0}
  /\ BatchesCap \in Nat \ {0}
  /\ MaxSamples \in Nat
  /\ IsFiniteSet(Actions)

VARIABLES
  open,        \* l.open
  closer,      \* control state of CloseAndAggregate
  chClosed,    \* l.ch is closed
  action,      \* control state of each RunCommand with respect to the Logger
  summary,     \* control state of each GetStatusSummary
  proc,        \* the event processEvents is applying, and how far it is
  recOpen,     \* LogRecord.open of each action
  running,     \* l.runningActions
  recorded,    \* the records in the statistics and in the log file
  items,       \* l.items
  itemsClosed, \* l.items is closed
  buffer,      \* the batch being filled
  batches,     \* the channel of full batches
  batching,    \* the batching goroutine has not closed batches yet
  uploading,   \* batches being uploaded
  bqErr,       \* bqSpec.Err: a fatal upload error has occurred
  bqSuccess,   \* l.bqSuccess
  bqFailed,    \* l.bqFailed
  sent,        \* history: the records sent to l.items
  dropped,     \* history: the records that fit in no batch
  adder,       \* control state of the goroutine of each AddProxyEvents
  sampler,     \* control state of processUsageData
  samples,     \* samples in l.resourceUsage
  infoSamples, \* samples in the proxy information file
  panicked     \* a goroutine has sent on a closed channel

callVars == <<action, summary>>
infoVars == <<adder, sampler, samples, infoSamples>>
procVars == <<proc, recOpen, running, recorded>>
bqVars   == <<buffer, batches, batching, uploading, bqErr, bqSuccess, bqFailed>>
itemVars == <<items, itemsClosed, sent, dropped>>
loggerVars == <<open, closer, chClosed, callVars, procVars, itemVars, bqVars, infoVars, panicked>>

Idle == [ev |-> "none", of |-> "none", at |-> "none"]
Event(e, x) == [ev |-> e, of |-> x, at |-> "begin"]

LoggerTypeOK ==
  /\ open \in BOOLEAN /\ chClosed \in BOOLEAN /\ itemsClosed \in BOOLEAN
  /\ closer \in {"idle", "lock", "closeCh", "closeItems", "wait", "write", "done"}
  /\ action \in [Actions -> {"idle", "starting", "started", "ending", "logged", "discarded", "rejected"}]
  /\ summary \in [Summaries -> {"idle", "sending", "waiting", "answered", "timedOut", "refused"}]
  /\ proc.ev \in {"none", "start", "end", "summarize", "exited"}
  /\ recOpen \subseteq Actions /\ recorded \subseteq Actions
  /\ sent \subseteq Actions /\ dropped \subseteq Actions
  /\ running \in 0 .. Cardinality(Actions)
  /\ items \in Seq(Actions) /\ Len(items) <= ItemsCap
  /\ buffer \subseteq Actions /\ Cardinality(buffer) <= BatchMax
  /\ batches \in Seq(SUBSET Actions)
  /\ uploading \subseteq SUBSET Actions
  /\ batching \in BOOLEAN /\ bqErr \in BOOLEAN /\ panicked \in BOOLEAN
  /\ adder \in [Events -> {"idle", "lock", "added"}]
  /\ sampler \in {"running", "cancelled", "exited"}
  /\ samples \in 0 .. MaxSamples /\ infoSamples \in 0 .. samples
  /\ bqSuccess \in 0 .. Cardinality(Actions) /\ bqFailed \in 0 .. Cardinality(Actions)

LoggerInit ==
  /\ open = TRUE /\ chClosed = FALSE /\ closer = "idle"
  /\ action = [a \in Actions |-> "idle"]
  /\ summary = [q \in Summaries |-> "idle"]
  /\ proc = Idle /\ recOpen = {} /\ running = 0 /\ recorded = {}
  /\ items = <<>> /\ itemsClosed = FALSE /\ sent = {} /\ dropped = {}
  /\ buffer = {} /\ batches = <<>> /\ batching = UseBQ /\ uploading = {}
  /\ bqErr = FALSE /\ bqSuccess = 0 /\ bqFailed = 0
  /\ adder = [e \in Events |-> "idle"]
  /\ sampler = "running" /\ samples = 0 /\ infoSamples = 0
  /\ panicked = FALSE

-----------------------------------------------------------------------------
(* Callers.  l.mu: a reader holds it until its event has been received     *)
(* (GetStatusSummary: until it returns); a waiting writer (the closer or   *)
(* an adder of event times) keeps new readers out.                         *)

NoReader ==
  /\ \A a \in Actions : action[a] \notin {"starting", "ending"}
  /\ \A q \in Summaries : summary[q] \notin {"sending", "waiting"}
CanRLock == ~panicked /\ closer # "lock" /\ \A e \in Events : adder[e] # "lock"

(* LogActionStart and Log: with the Logger closed they do nothing.         *)
LogActionStart(a) ==
  /\ CanRLock
  /\ action[a] = "idle"
  /\ action' = [action EXCEPT ![a] = IF open THEN "starting" ELSE "started"]
  /\ UNCHANGED <<open, closer, chClosed, summary, procVars, itemVars, bqVars, panicked, infoVars>>

Log(a) ==
  /\ CanRLock
  /\ action[a] = "started"
  /\ action' = [action EXCEPT ![a] = IF open THEN "ending" ELSE "discarded"]
  /\ UNCHANGED <<open, closer, chClosed, summary, procVars, itemVars, bqVars, panicked, infoVars>>

(* RunCommand returns an error after LogActionStart, without logging:      *)
(* invalid reruns or reclient_timeout, or too many actions in flight.      *)
RejectCommand(a) ==
  /\ ~panicked
  /\ action[a] = "started"
  /\ action' = [action EXCEPT ![a] = "rejected"]
  /\ UNCHANGED <<open, closer, chClosed, summary, procVars, itemVars, bqVars, panicked, infoVars>>

GetStatusSummary(q) ==
  /\ CanRLock
  /\ summary[q] = "idle"
  /\ summary' = [summary EXCEPT ![q] = IF open THEN "sending" ELSE "refused"]
  /\ UNCHANGED <<open, closer, chClosed, action, procVars, itemVars, bqVars, panicked, infoVars>>

(* The rpc's context ends while it waits: GetStatusSummary returns, and    *)
(* closes the channel that the answer is to be sent to.                    *)
SummaryTimesOut(q) ==
  /\ ~panicked
  /\ summary[q] = "waiting"
  /\ summary' = [summary EXCEPT ![q] = "timedOut"]
  /\ UNCHANGED <<open, closer, chClosed, action, procVars, itemVars, bqVars, panicked, infoVars>>

-----------------------------------------------------------------------------
(* processEvents.                                                          *)

ReadyUntilClosing == ~panicked /\ proc = Idle /\ closer = "idle"
Ready == ~panicked /\ proc = Idle

(* The event loop receives an event; its sender goes on.                   *)
ReceiveAction(a) ==
  /\ Ready
  /\ action[a] \in {"starting", "ending"}
  /\ proc' = Event(IF action[a] = "starting" THEN "start" ELSE "end", a)
  /\ action' = [action EXCEPT ![a] = IF @ = "starting" THEN "started" ELSE "logged"]
  /\ UNCHANGED <<open, closer, chClosed, summary, recOpen, running, recorded,
                 itemVars, bqVars, panicked, infoVars>>

ReceiveSummary(q) ==
  /\ Ready
  /\ summary[q] = "sending"
  /\ proc' = Event("summarize", q)
  /\ summary' = [summary EXCEPT ![q] = "waiting"]
  /\ UNCHANGED <<open, closer, chClosed, action, recOpen, running, recorded,
                 itemVars, bqVars, panicked, infoVars>>

(* startActionEvent.apply.                                                 *)
ApplyStart ==
  /\ ~panicked /\ proc.ev = "start"
  /\ recOpen' = recOpen \union {proc.of}
  /\ running' = running + 1
  /\ proc' = Idle
  /\ UNCHANGED <<open, closer, chClosed, callVars, recorded, itemVars, bqVars, panicked, infoVars>>

(* endActionEvent.apply: a record that is not open is ignored; another one *)
(* is added to the statistics and, unless uploading has failed for good,   *)
(* sent to l.items, and then counted and written.                          *)
ApplyEnd ==
  /\ ~panicked /\ proc.ev = "end" /\ proc.at = "begin"
  /\ IF proc.of \in recOpen
     THEN /\ recorded' = recorded \union {proc.of}
          /\ proc' = [proc EXCEPT !.at = IF UseBQ /\ ~bqErr THEN "items" ELSE "count"]
     ELSE proc' = Idle /\ UNCHANGED recorded
  /\ UNCHANGED <<open, closer, chClosed, callVars, recOpen, running, itemVars, bqVars, panicked, infoVars>>

SendItem ==
  /\ ~panicked /\ proc.ev = "end" /\ proc.at = "items"
  /\ ~itemsClosed /\ Len(items) < ItemsCap
  /\ items' = Append(items, proc.of)
  /\ sent' = sent \union {proc.of}
  /\ proc' = [proc EXCEPT !.at = "count"]
  /\ UNCHANGED <<open, closer, chClosed, callVars, recOpen, running, recorded,
                 itemsClosed, dropped, bqVars, panicked, infoVars>>

SendItemPanics ==
  /\ ~panicked /\ proc.ev = "end" /\ proc.at = "items"
  /\ itemsClosed
  /\ panicked' = TRUE
  /\ UNCHANGED <<open, closer, chClosed, callVars, procVars, itemVars, bqVars, infoVars>>

CountEnd ==
  /\ ~panicked /\ proc.ev = "end" /\ proc.at = "count"
  /\ recOpen' = recOpen \ {proc.of}
  /\ running' = running - 1
  /\ proc' = Idle
  /\ UNCHANGED <<open, closer, chClosed, callVars, recorded, itemVars, bqVars, panicked, infoVars>>

(* summarizeActionsEvent.apply sends the answer, to a channel that may be  *)
(* closed by now.                                                          *)
ApplySummarize ==
  /\ ~panicked /\ proc.ev = "summarize"
  /\ IF summary[proc.of] = "waiting"
     THEN /\ summary' = [summary EXCEPT ![proc.of] = "answered"]
          /\ proc' = Idle /\ UNCHANGED panicked
     ELSE panicked' = TRUE /\ UNCHANGED <<summary, proc>>
  /\ UNCHANGED <<open, closer, chClosed, action, recOpen, running, recorded, itemVars, bqVars, infoVars>>

EventsEnd ==
  /\ Ready /\ chClosed
  /\ proc' = [Idle EXCEPT !.ev = "exited"]
  /\ UNCHANGED <<open, closer, chClosed, callVars, recOpen, running, recorded,
                 itemVars, bqVars, panicked, infoVars>>

-----------------------------------------------------------------------------
(* CloseAndAggregate, called once by DrainAndReleaseResources.             *)

BeginClose ==
  /\ ~panicked /\ closer = "idle"
  /\ closer' = "lock"
  /\ UNCHANGED <<open, chClosed, callVars, procVars, itemVars, bqVars, panicked, infoVars>>

TurnCallersAway ==
  /\ ~panicked /\ closer = "lock"
  /\ NoReader
  /\ open' = FALSE
  /\ closer' = "closeCh"
  /\ UNCHANGED <<chClosed, callVars, procVars, itemVars, bqVars, panicked, infoVars>>

CloseCh ==
  /\ ~panicked /\ closer = "closeCh"
  /\ chClosed' = TRUE
  /\ closer' = "closeItems"
  /\ UNCHANGED <<open, callVars, procVars, itemVars, bqVars, panicked, infoVars>>

(* The sampler's context is cancelled, and l.items closed.                 *)
CloseItems ==
  /\ ~panicked /\ closer = "closeItems"
  /\ sampler' = "cancelled"
  /\ itemsClosed' = TRUE
  /\ closer' = "wait"
  /\ UNCHANGED <<open, chClosed, callVars, procVars, items, sent, dropped, bqVars,
                 adder, samples, infoSamples, panicked>>

UploaderReturnsEarly == ~batching /\ batches = <<>>
UploaderDone == ~batching /\ batches = <<>> /\ uploading = {}

(* Mutants: CloseAndAggregate waits for one goroutine less.                *)
EventsNotAwaited == UploaderDone /\ sampler = "exited"
SamplerNotAwaited == proc.ev = "exited" /\ UploaderDone
WgDone == proc.ev = "exited" /\ UploaderDone /\ sampler = "exited"

(* l.wg.Wait returns: the statistics are aggregated, and the resource      *)
(* usage becomes part of the proxy information.                            *)
Aggregate ==
  /\ ~panicked /\ closer = "wait"
  /\ WgDone
  /\ infoSamples' = samples
  /\ closer' = "write"
  /\ UNCHANGED <<open, chClosed, callVars, procVars, itemVars, bqVars,
                 adder, sampler, samples, panicked>>

(* writeProxyInfo has marshalled l.info, without l.mu.                     *)
WriteProxyInfo ==
  /\ ~panicked /\ closer = "write"
  /\ closer' = "done"
  /\ UNCHANGED <<open, chClosed, callVars, procVars, itemVars, bqVars, infoVars, panicked>>

-----------------------------------------------------------------------------
(* The proxy information.                                                  *)

(* collectResourceUsageSamples, on a tick.  The select that finds the      *)
(* context cancelled as well as a tick may take either.                    *)
CollectResourceUsageSamples ==
  /\ ~panicked /\ sampler \in {"running", "cancelled"}
  /\ samples < MaxSamples
  /\ samples' = samples + 1
  /\ UNCHANGED <<open, closer, chClosed, callVars, procVars, itemVars, bqVars,
                 adder, sampler, infoSamples, panicked>>

SamplerEnds ==
  /\ ~panicked /\ sampler = "cancelled"
  /\ sampler' = "exited"
  /\ UNCHANGED <<open, closer, chClosed, callVars, procVars, itemVars, bqVars,
                 adder, samples, infoSamples, panicked>>

(* AddProxyEvents answers at once and leaves the work to a goroutine,      *)
(* which nothing waits for.                                                *)
AddProxyEvents(e) ==
  /\ ~panicked /\ adder[e] = "idle"
  /\ adder' = [adder EXCEPT ![e] = "lock"]
  /\ UNCHANGED <<open, closer, chClosed, callVars, procVars, itemVars, bqVars,
                 sampler, samples, infoSamples, panicked>>

(* The goroutine has l.mu and writes to l.info.EventTimes; if              *)
(* writeProxyInfo is going through that map at the time, the runtime may   *)
(* end the process.                                                        *)
AddEventTimesToProxyInfo(e) ==
  /\ ~panicked /\ adder[e] = "lock"
  /\ NoReader
  /\ adder' = [adder EXCEPT ![e] = "added"]
  /\ panicked' \in IF closer = "write" THEN BOOLEAN ELSE {FALSE}
  /\ UNCHANGED <<open, closer, chClosed, callVars, procVars, itemVars, bqVars,
                 sampler, samples, infoSamples>>

-----------------------------------------------------------------------------
(* The uploader: batch, upload and uploadWithRetry.                        *)

BatchFull == Cardinality(buffer) = BatchMax
BatchesFull == Len(batches) >= BatchesCap

(* The next record; a full batch is handed on first, which waits while the *)
(* channel of batches is full.                                             *)
Batch ==
  /\ ~panicked /\ batching /\ items # <<>>
  /\ BatchFull => ~BatchesFull
  /\ items' = Tail(items)
  /\ IF BatchFull
     THEN batches' = Append(batches, buffer) /\ buffer' = {Head(items)}
     ELSE buffer' = buffer \union {Head(items)} /\ UNCHANGED batches
  /\ UNCHANGED <<open, closer, chClosed, callVars, procVars, itemsClosed, sent,
                 dropped, batching, uploading, bqErr, bqSuccess, bqFailed, panicked, infoVars>>

(* A record that cannot be marshalled, or is larger than a batch, is       *)
(* logged as an error and forgotten.                                       *)
DropItem ==
  /\ ~panicked /\ batching /\ items # <<>>
  /\ items' = Tail(items)
  /\ dropped' = dropped \union {Head(items)}
  /\ UNCHANGED <<open, closer, chClosed, callVars, procVars, itemsClosed, sent, bqVars, panicked, infoVars>>

(* l.items is closed and empty: the last batch, empty or not, goes out.    *)
LastBatch ==
  /\ ~panicked /\ batching /\ items = <<>> /\ itemsClosed /\ ~BatchesFull
  /\ batches' = Append(batches, buffer)
  /\ buffer' = {}
  /\ batching' = FALSE
  /\ UNCHANGED <<open, closer, chClosed, callVars, procVars, itemVars, uploading,
                 bqErr, bqSuccess, bqFailed, panicked, infoVars>>

BeginUpload ==
  /\ ~panicked /\ batches # <<>>
  /\ uploading' = uploading \union {Head(batches)}
  /\ batches' = Tail(batches)
  /\ UNCHANGED <<open, closer, chClosed, callVars, procVars, itemVars, buffer,
                 batching, bqErr, bqSuccess, bqFailed, panicked, infoVars>>

(* The upload of a batch ends: with success, or failing after the retries, *)
(* or failing with an error that is not worth a retry.                     *)
EndUpload(b) ==
  /\ ~panicked /\ b \in uploading
  /\ uploading' = uploading \ {b}
  /\ \/ bqSuccess' = bqSuccess + Cardinality(b) /\ UNCHANGED <<bqFailed, bqErr>>
     \/ bqFailed' = bqFailed + Cardinality(b) /\ bqErr' \in {bqErr, TRUE} /\ UNCHANGED bqSuccess
  /\ UNCHANGED <<open, closer, chClosed, callVars, procVars, itemVars, buffer,
                 batches, batching, panicked, infoVars>>

-----------------------------------------------------------------------------
ProcStep ==
  \/ \E a \in Actions : ReceiveAction(a)
  \/ \E q \in Summaries : ReceiveSummary(q)
  \/ ApplyStart \/ ApplyEnd \/ SendItem \/ SendItemPanics \/ CountEnd
  \/ ApplySummarize \/ EventsEnd
CloseStep == TurnCallersAway \/ CloseCh \/ CloseItems \/ Aggregate \/ WriteProxyInfo
AddStep == \E e \in Events : AddEventTimesToProxyInfo(e)
BQStep ==
  \/ Batch \/ DropItem \/ LastBatch \/ BeginUpload
  \/ \E b \in SUBSET Actions : EndUpload(b)
CallStep ==
  \/ \E a \in Actions : LogActionStart(a) \/ Log(a) \/ RejectCommand(a)
  \/ \E q \in Summaries : GetStatusSummary(q) \/ SummaryTimesOut(q)

LoggerNext ==
  \/ CallStep \/ ProcStep \/ BeginClose \/ CloseStep \/ BQStep
  \/ \E e \in Events : AddProxyEvents(e)
  \/ AddStep \/ CollectResourceUsageSamples \/ SamplerEnds

LoggerSpec == LoggerInit /\ [][LoggerNext]_loggerVars

(* The background goroutines run, and uploads end (they have a timeout).   *)
LoggerFairSpec ==
  /\ LoggerSpec
  /\ WF_loggerVars(ProcStep) /\ WF_loggerVars(CloseStep) /\ WF_loggerVars(BQStep)
  /\ WF_loggerVars(AddStep) /\ WF_loggerVars(SamplerEnds)

-----------------------------------------------------------------------------
(* Properties.                                                             *)

(* "waits for pending records to finish logging" (CloseAndAggregate): when *)
(* the statistics are aggregated every record whose Log call was accepted  *)
(* is part of them, nothing is left to be applied, and every sample of     *)
(* resource usage is in the proxy information that is written.             *)
AcceptedRecordsAggregated ==
  closer = "done" =>
    /\ {a \in Actions : action[a] = "logged"} = recorded /\ proc.ev = "exited"
    /\ infoSamples = samples

(* The records on their way through the uploader.                          *)
InBatches == UNION Range(batches)
InUploads == UNION uploading
InUploader == Range(items) \union buffer \union InBatches \union InUploads

(* Each of them is in one place of it.                                     *)
InOnePlace ==
  /\ \A i, j \in DOMAIN items : items[i] = items[j] => i = j
  /\ \A i, j \in DOMAIN batches : i # j => batches[i] \intersect batches[j] = {}
  /\ \A b, d \in uploading : b # d => b \intersect d = {}
  /\ Range(items) \intersect (buffer \union InBatches \union InUploads) = {}
  /\ buffer \intersect (InBatches \union InUploads) = {}
  /\ InBatches \intersect InUploads = {}

(* Every record handed to the uploader is uploaded, failed or dropped,     *)
(* exactly once, when the Logger is closed; until then it is in one place, *)
(* no batch being larger than its limit.                                   *)
UploadsAccounted ==
  /\ LoggerTypeOK
  /\ InOnePlace
  /\ Cardinality(sent \ dropped) = bqSuccess + bqFailed + Cardinality(InUploader)
  /\ closer = "done" => bqSuccess + bqFailed = Cardinality(sent \ dropped)

(* "logger will close the log records channel (l.items) once all the build *)
(* actions are done" (logger.go:357): no record is sent to l.items after   *)
(* it has been closed.                                                     *)
ItemsClosedAfterLastRecord == itemsClosed => proc.at # "items"

(* Nobody waits for ever: neither callers for the event loop, nor          *)
(* CloseAndAggregate for callers blocked on l.ch or on l.mu, for uploads   *)
(* and for the sampler, nor the adders of event times for l.mu.  (A panic  *)
(* ends the process.)                                                      *)
CallsReturn ==
  /\ (closer = "lock") ~> (closer = "done" \/ panicked)
  /\ \A a \in Actions : (action[a] \in {"starting", "ending"}) ~>
                          (action[a] \in {"started", "logged"} \/ panicked)
  /\ \A e \in Events : (adder[e] = "lock") ~> (adder[e] = "added" \/ panicked)
=============================================================================
