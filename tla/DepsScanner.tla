---------------------------- MODULE DepsScanner ----------------------------
(***************************************************************************)
(* The dependency scanner client: how reproxy starts, watches, restarts    *)
(* and stops the scandeps_server process while include scans use it        *)
(* (internal/pkg/cppdependencyscanner/depsscannerclient/,                  *)
(* internal/pkg/cppdependencyscanner/cppdepscanner.go).                    *)
(*                                                                         *)
(* The goroutines are the constructor New, which cppdepscanner.New calls   *)
(* up to twice, one ProcessInputs per request, and Close.  Each start of   *)
(* the service is a new generation of the process, whose exit is announced *)
(* once on the channel that startService made for it.                      *)
(***************************************************************************)
EXTENDS Naturals, FiniteSets

CONSTANTS
  Requests,  \* calls of ProcessInputs
  MaxGen     \* bound: how often the service process can be started

ASSUME DepsScannerAssumption ==
  MaxGen \in Nat /\ Requests \intersect {"New", "Close", "nobody"} = {}

Agents == Requests \union {"New", "Close"}
Gens   == 1 .. MaxGen

VARIABLES
  managed,      \* depsscanner_address is exec://: reproxy owns the service
  proc,         \* state of each generation of the process
  killed,       \* generations whose command context is cancelled
  cur,          \* generation that ds.ch and ds.terminate belong to, 0 if none
  client,       \* ds.client is set
  holder,       \* the request that holds ds.m, or "nobody"
  restarts,     \* ds.serviceRestarted, as the number of verified restarts
  tries,        \* constructor calls begun
  abandoned,    \* history: generations of a constructor call that failed
  initCanceled, \* ds.ctx is cancelled: start-up failed or was interrupted
  detached,     \* requests whose RunCommand is cancelled and has returned
  sentTo,       \* generation that was current when a request was sent
  askedAt,      \* t of restartService, as a number of verified restarts
  waitOn,       \* channel an agent in stopService receives from
  pc            \* control state of each agent

procVars == <<proc, killed, abandoned>>
dsVars   == <<managed, cur, client, holder, restarts, tries, initCanceled>>
reqVars  == <<detached, sentTo, askedAt, waitOn>>
vars     == <<procVars, dsVars, reqVars, pc>>

Running == {g \in Gens : proc[g] \in {"starting", "ready", "hung", "stopping"}}
Ended   == {"done", "failed", "gaveUp", "dead"}

TypeOK ==
  /\ managed \in BOOLEAN /\ client \in BOOLEAN /\ initCanceled \in BOOLEAN
  /\ proc \in [Gens -> {"none", "starting", "ready", "hung", "stopping", "exited", "reaped"}]
  /\ killed \subseteq Gens /\ abandoned \subseteq Gens
  /\ cur \in 0 .. MaxGen
  /\ holder \in Requests \union {"nobody"}
  /\ restarts \in 0 .. MaxGen
  /\ tries \in 1 .. 2
  /\ detached \subseteq Requests
  /\ sentTo \in [Requests -> 0 .. MaxGen]
  /\ askedAt \in [Requests -> 0 .. MaxGen]
  /\ waitOn \in [Agents -> 0 .. MaxGen]
  /\ pc \in [Agents -> {"idle", "start", "connect", "rpc", "lock", "check", "stopCheck",
                        "shutdown", "wait1", "wait2", "verify", "closing", "closingErr"}
                       \union Ended]

Init ==
  /\ managed \in BOOLEAN
  /\ proc = [g \in Gens |-> "none"] /\ killed = {} /\ abandoned = {}
  /\ cur = 0 /\ client = FALSE /\ holder = "nobody" /\ restarts = 0 /\ tries = 1
  /\ initCanceled = FALSE /\ detached = {}
  /\ sentTo = [r \in Requests |-> 0] /\ askedAt = [r \in Requests |-> 0]
  /\ waitOn = [a \in Agents |-> 0]
  /\ pc = [a \in Agents |-> IF a # "New" THEN "idle" ELSE IF managed THEN "start" ELSE "connect"]

At(a, s) == pc[a] = s
Goto(a, s) == pc' = [pc EXCEPT ![a] = s]

(* ProcessInputs returns; its local state is gone.                         *)
Return(r) ==
  /\ Goto(r, "done")
  /\ detached' = detached \ {r}
  /\ sentTo'  = [sentTo EXCEPT ![r] = 0]
  /\ askedAt' = [askedAt EXCEPT ![r] = 0]
  /\ waitOn'  = [waitOn EXCEPT ![r] = 0]

(* A method call on the nil ds.client panics, and reproxy is gone.         *)
Crash == pc' = [a \in Agents |-> "dead"]

-----------------------------------------------------------------------------
(* The service process, external.                                          *)

ProcReady(g) ==
  /\ proc[g] = "starting"
  /\ proc' = [proc EXCEPT ![g] = "ready"]
  /\ UNCHANGED <<killed, abandoned, dsVars, reqVars, pc>>

ProcHangs(g) ==
  /\ proc[g] \in {"ready", "stopping"}
  /\ proc' = [proc EXCEPT ![g] = "hung"]
  /\ UNCHANGED <<killed, abandoned, dsVars, reqVars, pc>>

(* It exits when it was told to, when it is killed, or by a crash; the     *)
(* goroutine of ExecuteInBackground then offers the result on the channel. *)
ProcExits(g) ==
  /\ g \in Running
  /\ proc' = [proc EXCEPT ![g] = "exited"]
  /\ UNCHANGED <<killed, abandoned, dsVars, reqVars, pc>>

(* Mutant: the exit is announced by closing the channel, to all receivers. *)
ExitBroadcast == {g \in Gens : proc[g] \in {"exited", "reaped"}}

(* The exits that are still offered on their channels, to one receiver.    *)
ExitOffered == {g \in Gens : proc[g] = "exited"}

-----------------------------------------------------------------------------
(* startService and the constructor                                        *)

(* ExecuteInBackground started the command, on a channel of its own.       *)
Launch(g) ==
  /\ g \in Gens
  /\ ~ initCanceled
  /\ proc[g] = "none"
  /\ \A h \in Gens : h < g => proc[h] # "none"
  /\ proc' = [proc EXCEPT ![g] = "starting"]
  /\ cur' = g
  /\ UNCHANGED <<killed, abandoned>>

(* The environment cannot be read or the command does not start: nobody    *)
(* will ever send on ds.ch.                                                *)
LaunchFails == cur' = 0 /\ UNCHANGED procVars

(* New returns an error; cppdepscanner.New tries once more, with a new     *)
(* DepsScannerClient.                                                      *)
AttemptFails ==
  /\ abandoned' = abandoned \union ({cur} \ {0})
  /\ cur' = 0
  /\ tries' = 2
  /\ Goto("New", IF tries = 2 THEN "failed" ELSE IF managed THEN "start" ELSE "connect")

NewStarts ==
  /\ At("New", "start")
  /\ \/ \E g \in Gens : Launch(g) /\ Goto("New", "connect") /\ UNCHANGED tries
     \/ AttemptFails /\ UNCHANGED <<proc, killed>>
  /\ UNCHANGED <<managed, client, holder, restarts, initCanceled, reqVars>>

(* The select of New: connect succeeds, fails, the service ends first, or  *)
(* connTimeout passes.                                                     *)
Connected ==
  /\ At("New", "connect")
  /\ ~ initCanceled
  /\ managed => proc[cur] = "ready"
  /\ client' = TRUE
  /\ Goto("New", "done")
  /\ UNCHANGED <<procVars, managed, cur, holder, restarts, tries, initCanceled, reqVars>>

ConnectFails ==
  /\ At("New", "connect")
  /\ AttemptFails
  /\ UNCHANGED <<proc, killed, managed, client, holder, restarts, initCanceled, reqVars>>

DiedDuringStartup ==
  /\ At("New", "connect")
  /\ cur \in ExitOffered
  /\ proc' = [proc EXCEPT ![cur] = "reaped"]
  /\ AttemptFails
  /\ UNCHANGED <<killed, managed, client, holder, restarts, initCanceled, reqVars>>

ConnectTimesOut ==
  /\ At("New", "connect")
  /\ IF managed
     THEN Goto("New", "stopCheck") /\ UNCHANGED <<abandoned, cur, tries>>
     ELSE AttemptFails
  /\ UNCHANGED <<proc, killed, managed, client, holder, restarts, initCanceled, reqVars>>

(* Start-up fails elsewhere or is interrupted, before any request: the     *)
(* context of every command started under it is cancelled.                 *)
CancelInit ==
  /\ \A r \in Requests : At(r, "idle")
  /\ ~ initCanceled
  /\ initCanceled' = TRUE
  /\ killed' = Running \union killed
  /\ UNCHANGED <<proc, abandoned, managed, cur, client, holder, restarts, tries, reqVars, pc>>

-----------------------------------------------------------------------------
(* stopService, called by New, by Close, and by a request that holds ds.m  *)

(* Mutant: a return path without Unlock.                                   *)
UnlockForgotten == UNCHANGED holder

Unlock == holder' = "nobody"

(* What the caller does when stopService has returned.                     *)
AfterStopped(a) ==
  \/ a = "New"   /\ AttemptFails /\ UNCHANGED <<holder, reqVars>>
  \/ a = "Close" /\ Goto(a, "closing") /\ UNCHANGED <<abandoned, cur, tries, holder, reqVars>>
  \/ a \in Requests /\ Goto(a, "start") /\ UNCHANGED <<abandoned, cur, tries, holder, reqVars>>

(* Mutant: the error of stopService is ignored.                            *)
GiveUpIgnored(a) == AfterStopped(a)

AfterGiveUp(a) ==
  \/ a = "New"   /\ AttemptFails /\ UNCHANGED <<holder, reqVars>>
  \/ a = "Close" /\ Goto(a, "closingErr") /\ UNCHANGED <<abandoned, cur, tries, holder, reqVars>>
  \/ a \in Requests /\ Unlock /\ Return(a) /\ UNCHANGED <<abandoned, cur, tries>>

Terminate == killed' = killed \union ({cur} \ {0})

AskToStop(a) ==
  /\ At(a, "stopCheck")
  /\ IF client
     THEN Goto(a, "shutdown") /\ UNCHANGED <<killed, waitOn>>
     ELSE Terminate /\ waitOn' = [waitOn EXCEPT ![a] = cur] /\ Goto(a, "wait1")
  /\ UNCHANGED <<proc, abandoned, dsVars, detached, sentTo, askedAt>>

(* The Shutdown rpc: a service that answers will stop; otherwise the rpc   *)
(* fails, which is only logged.                                            *)
Shutdown(a) ==
  /\ At(a, "shutdown")
  /\ IF client
     THEN /\ proc' = [g \in Gens |-> IF g = cur /\ proc[g] = "ready" THEN "stopping" ELSE proc[g]]
          /\ waitOn' = [waitOn EXCEPT ![a] = cur]
          /\ Goto(a, "wait1")
     ELSE Crash /\ UNCHANGED <<proc, waitOn>>
  /\ UNCHANGED <<killed, abandoned, dsVars, detached, sentTo, askedAt>>

Stopped(a) ==
  /\ pc[a] \in {"wait1", "wait2"}
  /\ waitOn[a] \in ExitOffered
  /\ proc' = [proc EXCEPT ![waitOn[a]] = "reaped"]
  /\ AfterStopped(a)
  /\ UNCHANGED <<killed, managed, client, restarts, initCanceled>>

(* Mutant: the loop goes on waiting.                                       *)
HardKillRepeated(a) ==
  /\ At(a, "wait1")
  /\ Terminate
  /\ waitOn' = [waitOn EXCEPT ![a] = cur]
  /\ UNCHANGED <<proc, abandoned, dsVars, detached, sentTo, askedAt, pc>>

(* The first timeout kills whatever ds.terminate now belongs to, and the   *)
(* loop receives from what ds.ch now is.                                   *)
HardKill(a) ==
  /\ At(a, "wait1")
  /\ Terminate
  /\ waitOn' = [waitOn EXCEPT ![a] = cur]
  /\ Goto(a, "wait2")
  /\ UNCHANGED <<proc, abandoned, dsVars, detached, sentTo, askedAt>>

StopTimesOut(a) ==
  /\ At(a, "wait2")
  /\ AfterGiveUp(a)
  /\ UNCHANGED <<proc, killed, managed, client, restarts, initCanceled>>

-----------------------------------------------------------------------------
(* ProcessInputs                                                           *)

Call(r) ==
  /\ At(r, "idle")
  /\ At("New", "done") /\ ~ initCanceled
  /\ IF client
     THEN Goto(r, "rpc") /\ sentTo' = [sentTo EXCEPT ![r] = cur]
     ELSE Crash /\ UNCHANGED sentTo
  /\ UNCHANGED <<procVars, dsVars, detached, askedAt, waitOn>>

(* Any answer, and any error but Unavailable, goes back to the caller.     *)
Answered(r) ==
  /\ At(r, "rpc")
  /\ managed => sentTo[r] \in {g \in Gens : proc[g] \in {"ready", "stopping"}}
  /\ Return(r)
  /\ UNCHANGED <<procVars, dsVars>>

(* The caller asks for a restart, which a service of others does not get.  *)
AskRestart(r) ==
  IF managed
  THEN /\ Goto(r, "lock")
       /\ askedAt' = [askedAt EXCEPT ![r] = restarts]
       /\ sentTo' = [sentTo EXCEPT ![r] = 0]
       /\ UNCHANGED <<detached, waitOn>>
  ELSE Return(r)

(* Unavailable: the service is gone, or does not listen yet.               *)
Unavailable(r) ==
  /\ At(r, "rpc")
  /\ managed => sentTo[r] \notin {g \in Running : proc[g] # "starting"}
  /\ IF r \in detached THEN Return(r) ELSE AskRestart(r)
  /\ UNCHANGED <<procVars, dsVars>>

(* The deadline of the scan passes.  The select may see the context first, *)
(* or the rpc's own DeadlineExceeded, which is not worth a restart.        *)
ScanTimesOut(r) ==
  /\ At(r, "rpc")
  /\ r \notin detached
  /\ AskRestart(r) \/ Return(r)
  /\ UNCHANGED <<procVars, dsVars>>

(* The action is cancelled; its RunCommand does not wait for the scan.     *)
Cancel(r) ==
  /\ pc[r] \notin Ended
  /\ r \notin detached
  /\ At("New", "done")
  /\ detached' = detached \union {r}
  /\ UNCHANGED <<procVars, dsVars, sentTo, askedAt, waitOn, pc>>

Canceled(r) ==
  /\ At(r, "rpc")
  /\ r \in detached
  /\ Return(r)
  /\ UNCHANGED <<procVars, dsVars>>

-----------------------------------------------------------------------------
(* restartService                                                          *)

Lock(r) ==
  /\ At(r, "lock")
  /\ holder = "nobody"
  /\ holder' = r
  /\ Goto(r, "check")
  /\ UNCHANGED <<procVars, managed, cur, client, restarts, tries, initCanceled, reqVars>>

(* Mutant: no look at serviceRestarted under the lock.                     *)
NeverRestarted(r) == FALSE

(* t.Before(ds.serviceRestarted): restarted while this one waited for ds.m *)
RestartedSince(r) == askedAt[r] < restarts

CheckRestarted(r) ==
  /\ At(r, "check")
  /\ IF RestartedSince(r)
     THEN Unlock /\ Return(r)
     ELSE Goto(r, "stopCheck") /\ UNCHANGED <<holder, reqVars>>
  /\ UNCHANGED <<procVars, managed, cur, client, restarts, tries, initCanceled>>

Restart(r) ==
  /\ At(r, "start")
  /\ \/ \E g \in Gens : Launch(g) /\ Goto(r, "verify") /\ UNCHANGED <<holder, reqVars>>
     \/ LaunchFails /\ Unlock /\ Return(r)
  /\ UNCHANGED <<managed, client, restarts, tries, initCanceled>>

(* verifyService asks for the capabilities up to ten times.                *)
Verified(r) ==
  /\ At(r, "verify")
  /\ client
  /\ proc[cur] = "ready"
  /\ restarts' = restarts + 1
  /\ Unlock
  /\ Return(r)
  /\ UNCHANGED <<procVars, managed, cur, client, tries, initCanceled>>

VerifyGivesUp(r) ==
  /\ At(r, "verify")
  /\ IF client THEN Unlock /\ Return(r) ELSE Crash /\ UNCHANGED <<holder, reqVars>>
  /\ UNCHANGED <<procVars, managed, cur, client, restarts, tries, initCanceled>>

-----------------------------------------------------------------------------
(* Close, a cleanup function of the server: every RunCommand has returned. *)

CloseBegins ==
  /\ At("Close", "idle")
  /\ At("New", "done")
  /\ \A r \in Requests : pc[r] \in {"idle", "done"} \/ r \in detached
  /\ Goto("Close", IF managed THEN "stopCheck" ELSE "closing")
  /\ UNCHANGED <<procVars, dsVars, reqVars>>

CloseEnds ==
  /\ pc["Close"] \in {"closing", "closingErr"}
  /\ client' = FALSE
  /\ Goto("Close", IF At("Close", "closing") THEN "done" ELSE "gaveUp")
  /\ UNCHANGED <<procVars, managed, cur, holder, restarts, tries, initCanceled, reqVars>>

-----------------------------------------------------------------------------
Stop(a) == AskToStop(a) \/ Shutdown(a) \/ Stopped(a) \/ HardKill(a) \/ StopTimesOut(a)

New == NewStarts \/ Connected \/ ConnectFails \/ DiedDuringStartup \/ ConnectTimesOut \/ Stop("New")

Close == CloseEnds \/ Stop("Close")

Request(r) ==
  \/ Answered(r) \/ Unavailable(r) \/ ScanTimesOut(r) \/ Canceled(r)
  \/ Lock(r) \/ CheckRestarted(r) \/ Stop(r)
  \/ Restart(r) \/ Verified(r) \/ VerifyGivesUp(r)

Next ==
  \/ \E g \in Gens : ProcReady(g) \/ ProcHangs(g) \/ ProcExits(g)
  \/ New \/ CancelInit
  \/ \E r \in Requests : Call(r) \/ Cancel(r) \/ Request(r)
  \/ CloseBegins \/ Close

Spec == Init /\ [][Next]_vars

(* Every goroutine keeps running and every timer fires: each rpc ends, at  *)
(* the latest at the deadline that ip_timeout sets.  Nothing is assumed    *)
(* of the service process, nor of the calls.                               *)
FairSpec ==
  /\ Spec
  /\ WF_vars(New) /\ WF_vars(Close)
  /\ \A r \in Requests : WF_vars(Request(r))

-----------------------------------------------------------------------------
(* Properties                                                              *)

(* restartService starts a service only after stopService has received the *)
(* exit of the previous one: apart from what a failed constructor call     *)
(* left behind, at most the current generation of the process runs, and    *)
(* two generations never share the address and the cache directory.        *)
NoStrayService == TypeOK /\ Running \ abandoned \subseteq {cur}

(* Close races with the restart of a cancelled request, which takes no     *)
(* notice of it.  When the stopService of Close has returned without an    *)
(* error no service that reproxy uses is running, and none is started by a *)
(* request that is still in restartService.                                *)
ClosedMeansStopped == At("Close", "done") => Running \subseteq abandoned

(* Requests that fail together share a restart: whoever stops or starts    *)
(* the service under ds.m asked for it after the last verified restart.    *)
WaitersShareRestart ==
  \A r \in Requests :
    pc[r] \in {"stopCheck", "shutdown", "wait1", "wait2", "start", "verify"} =>
      holder = r /\ askedAt[r] = restarts

(* A service that crashes, hangs, ignores Shutdown or never gets ready     *)
(* holds up nobody for ever: every scan that was sent ends (or reproxy     *)
(* does), though restarts are serialized by ds.m, the constructor gives up *)
(* after its second attempt, and Close returns.                            *)
CallersEnd ==
  /\ \A r \in Requests : At(r, "rpc") ~> pc[r] \in Ended
  /\ <>(pc["New"] \in Ended)
  /\ At("Close", "stopCheck") ~> pc["Close"] \in Ended
=============================================================================
