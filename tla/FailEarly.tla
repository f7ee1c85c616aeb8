----------------------------- MODULE FailEarly -----------------------------
(***************************************************************************)
(* Admission of commands by reproxy and the switch that fails a build      *)
(* early (internal/pkg/reproxy/server.go): RunCommand limits the actions   *)
(* in flight, registers each in activeActions and counts it; a monitor     *)
(* goroutine polls counters of fallbacks, actions and input processing     *)
(* timeouts, and if they are too many sets failBuild, which refuses new    *)
(* actions, and cancels the registered ones.                               *)
(***************************************************************************)
EXTENDS Integers, FiniteSets

CONSTANTS
  Actions,          \* commands that clients send
  Strategy,         \* Strategy[a]: "LOCAL", "REMOTE" or "FALLBACK"
  MaxThreads,       \* s.maxThreads
  MinActionCount,   \* s.FailEarlyMinActionCount
  RatioNum,         \* s.FailEarlyMinFallbackRatio is RatioNum / RatioDen
  RatioDen,
  AllowedIPTimeouts,
  Leavers,          \* actions whose clients may go away
  MaxTicks          \* bound: ticks of the monitor

ASSUME FailEarlyAssumption ==
  /\ MaxThreads \in Nat \ {0} /\ MinActionCount \in Nat /\ RatioNum \in Nat
  /\ RatioDen \in Nat \ {0} /\ AllowedIPTimeouts \in Nat /\ MaxTicks \in Nat /\ Leavers \subseteq Actions

VARIABLES
  cmd,           \* cmd[a]: how far RunCommand has come
  active,        \* s.activeActions
  numActive,     \* s.numActiveActions
  window,        \* FailEarlyWindow # 0: counts expire
  numActions,    \* s.numActions
  numFallbacks,  \* s.numFallbacks
  numIPTimeouts, \* s.numIPTimeouts
  failBuild,     \* s.failBuild
  monitor,       \* control state of checkFailBuild
  nf, na,        \* the counts that it has loaded
  ticks,         \* the ticks of its ticker
  toVisit,       \* the actions that its Range has not reached
  cancelled,     \* actions whose context is cancelled
  crowded,       \* history: two commands were between the check of the limit and the count
  real           \* history: the ratio was really reached when na was loaded

countVars == <<numActions, numFallbacks, numIPTimeouts>>
monVars   == <<failBuild, monitor, nf, na, toVisit, real, ticks>>
regVars   == <<active, numActive, crowded>>
vars == <<cmd, window, cancelled, countVars, monVars, regVars>>

Init ==
  /\ cmd = [a \in Actions |-> "new"]
  /\ active = {} /\ numActive = 0 /\ crowded = FALSE
  /\ window \in BOOLEAN
  /\ numActions = 0 /\ numFallbacks = 0 /\ numIPTimeouts = 0
  /\ failBuild = FALSE /\ monitor = "idle" /\ nf = 0 /\ na = 0 /\ toVisit = {} /\ real = FALSE
  /\ ticks = 0
  /\ cancelled = {}

Goto(a, from, to) == cmd[a] = from /\ cmd' = [cmd EXCEPT ![a] = to]
At(S) == {a \in Actions : cmd[a] \in S}

(* RunCommand refuses a request that is not valid, after LogActionStart if *)
(* the reruns or the timeout are at fault.                                 *)
RejectInvalid(a) ==
  /\ Goto(a, "new", "done")
  /\ UNCHANGED <<window, cancelled, countVars, monVars, regVars>>

(* The limit is only looked at here; the action is counted two steps on,   *)
(* after it was stored.                                                    *)
FullBeyond == numActive > MaxThreads
Full == numActive >= MaxThreads
CheckLimit(a) ==
  /\ IF Full THEN Goto(a, "new", "busy") /\ UNCHANGED crowded
     ELSE Goto(a, "new", "checked") /\ crowded' = (crowded \/ At({"checked", "stored"}) # {})
  /\ UNCHANGED <<window, cancelled, countVars, monVars, active, numActive>>

(* rewrapper retries on Unavailable with a backoff.                        *)
Retry(a) ==
  /\ Goto(a, "busy", "new")
  /\ UNCHANGED <<window, cancelled, countVars, monVars, regVars>>

StoreNot(a) ==
  /\ Goto(a, "checked", "stored")
  /\ UNCHANGED <<window, cancelled, countVars, monVars, regVars>>

(* The action is stored in activeActions.  A key that is stored while      *)
(* Range runs may be visited or not.                                       *)
Store(a) ==
  /\ Goto(a, "checked", "stored")
  /\ active' = active \union {a}
  /\ \/ UNCHANGED toVisit
     \/ monitor = "cancelling" /\ toVisit' = toVisit \union {a}
  /\ UNCHANGED <<window, cancelled, countVars, failBuild, monitor, nf, na, real, ticks, numActive, crowded>>

(* numActiveActions is an atomic of its own, and is added to afterwards.   *)
Count(a) ==
  /\ Goto(a, "stored", "counted")
  /\ numActive' = numActive + 1
  /\ UNCHANGED <<window, cancelled, countVars, monVars, active, crowded>>

(* runAction reads the switch under failBuildMu: a refused action is not   *)
(* counted in numActions.                                                  *)
MuFree == monitor # "cancelling"
ShouldFailBuild(a) ==
  /\ MuFree
  /\ Goto(a, "counted", IF failBuild THEN "logged" ELSE "inputs")
  /\ UNCHANGED <<window, cancelled, countVars, monVars, regVars>>

(* How a run can end: REMOTE has no fallback, the others run the command   *)
(* locally if the run failed; for LOCAL a non-zero exit is no reason to.   *)
(* With its context cancelled a remote execution cannot succeed.           *)
AfterRun(a) ==
  CASE Strategy[a] = "REMOTE" -> {"leaving"}
    [] Strategy[a] = "FALLBACK" /\ a \in cancelled -> {"fallback"}
    [] OTHER -> {"leaving", "fallback"}
AfterError(a) == IF Strategy[a] = "REMOTE" THEN "leaving" ELSE "fallback"

(* populateCommandIO: a timeout of input processing is counted, and ends   *)
(* the run like any other error.  A cached result ends a LOCAL one.        *)
ProcessInputs(a) ==
  /\ \/ /\ \E s \in IF Strategy[a] = "LOCAL" THEN {"local", "leaving"} ELSE {"remote"} :
             Goto(a, "inputs", s)
        /\ UNCHANGED numIPTimeouts
     \/ /\ Goto(a, "inputs", AfterError(a))
        /\ numIPTimeouts' \in {numIPTimeouts, numIPTimeouts + 1}
  /\ UNCHANGED <<window, cancelled, numActions, numFallbacks, monVars, regVars>>

(* The remote execution ends, or the local one of runLERC.                 *)
RunEnds(a) ==
  /\ \E s \in AfterRun(a) : Goto(a, "remote", s) \/ Goto(a, "local", s)
  /\ UNCHANGED <<window, cancelled, countVars, monVars, regVars>>

(* runLocal as a fallback, which is counted after it returns, whatever its *)
(* result.                                                                 *)
FallbackEnds(a) ==
  /\ Goto(a, "fallback", "leaving")
  /\ numFallbacks' = numFallbacks + 1
  /\ UNCHANGED <<window, cancelled, numActions, numIPTimeouts, monVars, regVars>>

(* The deferred calls of runAction, logRecord, those of RunCommand.        *)
CountAction(a) ==
  /\ Goto(a, "leaving", "logged")
  /\ numActions' = numActions + 1
  /\ UNCHANGED <<window, cancelled, numFallbacks, numIPTimeouts, monVars, regVars>>
(* The deferred calls run last in, first out: the action leaves the map,   *)
(* then the count.                                                         *)
Delete(a) ==
  /\ Goto(a, "logged", "deleted")
  /\ active' = active \ {a}
  /\ cancelled' = cancelled \ {a}
  /\ UNCHANGED <<window, countVars, monVars, numActive, crowded>>
Uncount(a) ==
  /\ Goto(a, "deleted", "done")
  /\ numActive' = numActive - 1
  /\ UNCHANGED <<window, cancelled, countVars, monVars, active, crowded>>

(* The client goes away: the context of the rpc is cancelled, which only   *)
(* a run notices.                                                          *)
Running == {"inputs", "remote", "local", "fallback"}
ClientCancels(a) ==
  /\ a \in Leavers /\ cmd[a] \in Running /\ a \notin cancelled
  /\ cancelled' = cancelled \union {a}
  /\ UNCHANGED <<cmd, window, countVars, monVars, regVars>>

-----------------------------------------------------------------------------
(* windowedCount.Add: each increment is taken back after the window.       *)
Expire ==
  /\ window
  /\ \/ numFallbacks > 0 /\ numFallbacks' = numFallbacks - 1 /\ UNCHANGED numActions
     \/ numActions > 0 /\ numActions' = numActions - 1 /\ UNCHANGED numFallbacks
  /\ UNCHANGED <<cmd, window, cancelled, numIPTimeouts, monVars, regVars>>

(* A tick of MonitorFailBuildConditions: checkFailBuild loads the three    *)
(* counters one by one.                                                    *)
LoadFallbacks ==
  /\ MinActionCount # 0 /\ RatioNum # 0
  /\ monitor = "idle" /\ ticks < MaxTicks
  /\ ticks' = ticks + 1
  /\ nf' = numFallbacks
  /\ monitor' = "nf"
  /\ UNCHANGED <<cmd, window, cancelled, countVars, failBuild, na, toVisit, real, regVars>>
RatioReached(f, n) == f * RatioDen >= RatioNum * n
LoadActionsUpToMin ==
  /\ monitor = "nf"
  /\ na' = (IF numActions > MinActionCount THEN MinActionCount ELSE numActions) /\ real' = RatioReached(numFallbacks, numActions)
  /\ monitor' = "na"
  /\ UNCHANGED <<cmd, window, cancelled, countVars, failBuild, nf, toVisit, ticks, regVars>>
LoadActions ==
  /\ monitor = "nf"
  /\ na' = numActions /\ real' = RatioReached(numFallbacks, numActions)
  /\ monitor' = "na"
  /\ UNCHANGED <<cmd, window, cancelled, countVars, failBuild, nf, toVisit, ticks, regVars>>

TooMany(nt) ==
  /\ ~(nt <= AllowedIPTimeouts /\ na < MinActionCount)
  /\ nt > AllowedIPTimeouts \/ RatioReached(nf, na)
CheckReturns == monitor' = "idle" /\ nf' = 0 /\ na' = 0 /\ real' = FALSE
LoadTimeouts ==
  /\ monitor = "na"
  /\ IF TooMany(numIPTimeouts)
     THEN monitor' = "cancelling" /\ failBuild' = TRUE /\ toVisit' = active
          /\ nf' = 0 /\ na' = 0 /\ UNCHANGED real
     ELSE CheckReturns /\ UNCHANGED <<failBuild, toVisit>>
  /\ UNCHANGED <<cmd, window, cancelled, countVars, ticks, regVars>>

(* activeActions.Range, under failBuildMu; a key that was deleted since is *)
(* not visited.                                                            *)
CancelNext ==
  /\ monitor = "cancelling"
  /\ \E a \in toVisit :
       /\ toVisit' = toVisit \ {a}
       /\ cancelled' = cancelled \union ({a} \intersect active)
  /\ UNCHANGED <<cmd, window, countVars, failBuild, monitor, nf, na, real, ticks, regVars>>
RangeEnds ==
  /\ monitor = "cancelling" /\ toVisit = {}
  /\ CheckReturns
  /\ UNCHANGED <<cmd, window, cancelled, countVars, failBuild, toVisit, ticks, regVars>>

RunCommand(a) ==
  \/ RejectInvalid(a) \/ CheckLimit(a) \/ Retry(a) \/ Store(a) \/ Count(a)
  \/ ShouldFailBuild(a) \/ ProcessInputs(a)
  \/ CountAction(a) \/ Delete(a) \/ Uncount(a)
MonitorFailBuildConditions == LoadFallbacks \/ LoadActions \/ LoadTimeouts \/ CancelNext \/ RangeEnds
Next ==
  \/ \E a \in Actions : RunCommand(a) \/ RunEnds(a) \/ FallbackEnds(a) \/ ClientCancels(a)
  \/ MonitorFailBuildConditions
  \/ Expire
Spec == Init /\ [][Next]_vars

-----------------------------------------------------------------------------
TypeOK ==
  /\ cmd \in [Actions -> {"new", "busy", "checked", "stored", "counted", "inputs", "remote",
                          "local", "fallback", "leaving", "logged", "deleted", "done"}]
  /\ active \subseteq Actions /\ toVisit \subseteq Actions /\ cancelled \subseteq Actions
  /\ numActive \in Int /\ numActions \in Nat /\ numFallbacks \in Nat /\ numIPTimeouts \in Nat
  /\ nf \in Nat /\ na \in Nat /\ ticks \in Nat
  /\ window \in BOOLEAN /\ failBuild \in BOOLEAN /\ crowded \in BOOLEAN /\ real \in BOOLEAN
  /\ monitor \in {"idle", "nf", "na", "cancelling"}

(* Once the build fails no action escapes: each one that runs has been     *)
(* cancelled, or the Range is about to.  An action is stored before it     *)
(* reads failBuild, and the monitor sets failBuild before it lists the     *)
(* stored actions (server.go:285, 523, 680).                               *)
NoActionEscapes ==
  failBuild => \A a \in At(Running) : a \in cancelled \/ (monitor = "cancelling" /\ a \in toVisit)

(* As long as commands pass the limit one at a time there are never more   *)
(* actions in flight than maxThreads: the excess is only what concurrent   *)
(* commands let in between the check and the count (server.go:513-525).    *)
LimitExceededOnlyByCrowd == ~crowded => numActive <= MaxThreads

(* A build that fails for its fallbacks really had that ratio of fallbacks *)
(* when the monitor loaded the actions: the counters are loaded one after  *)
(* the other, the fallbacks first, so that without a window what is        *)
(* computed never exceeds the real ratio (server.go:278-285).              *)
FallbackFailureJustified ==
  (~window /\ monitor = "cancelling" /\ numIPTimeouts <= AllowedIPTimeouts)
     => real
=============================================================================
