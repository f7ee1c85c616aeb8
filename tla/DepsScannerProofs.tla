-------------------------- MODULE DepsScannerProofs --------------------------
(***************************************************************************)
(* Proofs about DepsScanner: for every number of requests and of starts of *)
(* the service, requests share restarts, no two generations of the service *)
(* run side by side, and a successful Close leaves none behind.            *)
(*                                                                         *)
(* stopService is called without a lock by New and by Close, and under     *)
(* ds.m by requests.  What keeps them apart is that the exit of a process  *)
(* is received once: the invariant says which generation can still have an *)
(* exit to be received, and who waits for it.                              *)
(***************************************************************************)
EXTENDS DepsScanner, TLAPS

Stopping == {"stopCheck", "shutdown", "wait1", "wait2", "start", "verify"}
Critical == Stopping \union {"check"}

(* The generations whose exit nobody waits for any more.                   *)
Gone(g) == proc[g] \in {"none", "reaped"} \/ g \in abandoned
AllGone == \A g \in Gens : Gone(g)

(* Requests and Close come after the constructor.                          *)
PhaseInv ==
  /\ pc["New"] # "done" =>
       /\ \A r \in Requests : pc[r] \in {"idle", "dead"}
       /\ pc["Close"] \in {"idle", "dead"}
  /\ pc["New"] \in {"start", "connect", "stopCheck", "shutdown", "wait1", "wait2",
                    "done", "failed", "dead"}
  /\ pc["Close"] \in {"idle", "stopCheck", "shutdown", "wait1", "wait2",
                      "closing", "closingErr", "done", "gaveUp", "dead"}

(* A service of others is never started or stopped.                        *)
UnmanagedInv ==
  ~managed =>
    /\ cur = 0 /\ \A g \in Gens : proc[g] = "none"
    /\ \A r \in Requests : pc[r] \in {"idle", "rpc", "done", "dead"}
    /\ pc["New"] \in {"connect", "done", "failed", "dead"}
    /\ pc["Close"] \in {"idle", "closing", "done", "dead"}

(* ds.m, and what t.Before(ds.serviceRestarted) tells its holder.          *)
LockInv ==
  \A r \in Requests :
    /\ pc[r] \in Critical => holder = r
    /\ pc[r] \in Critical \union {"lock"} => askedAt[r] <= restarts
    /\ pc[r] \in Stopping => askedAt[r] = restarts

(* Generations are numbered in the order of their starts, and every        *)
(* verified restart has one of its own.                                    *)
CountInv ==
  /\ \A g, h \in Gens : h < g /\ proc[g] # "none" => proc[h] # "none"
  /\ restarts # 0 => proc[restarts] # "none"
  /\ \A r \in Requests : pc[r] = "verify" =>
       restarts + 1 \in Gens /\ proc[restarts + 1] # "none"

(* Who waits for which exit, and what is left to exit.                     *)
GenInv ==
  /\ cur \notin abandoned /\ (cur # 0 => proc[cur] # "none")
  /\ \A g \in abandoned : proc[g] # "none"
  /\ \A g \in Gens : Gone(g) \/ g = cur
  /\ \A a \in Requests \union {"New"} : pc[a] \in {"wait1", "wait2"} => waitOn[a] = cur
  /\ pc["Close"] \in {"wait1", "wait2"} => waitOn["Close"] \notin abandoned
  /\ pc["New"] = "start" => cur = 0
  /\ \A r \in Requests : pc[r] = "start" => AllGone
  /\ pc["Close"] \in {"closing", "done"} =>
       AllGone /\ \A r \in Requests : pc[r] # "start"

ScannerInv == TypeOK /\ PhaseInv /\ UnmanagedInv /\ LockInv /\ CountInv /\ GenInv

-----------------------------------------------------------------------------
(* The steps, by who takes them.  stopService has three callers.           *)

NewStep == NewStarts \/ Connected \/ ConnectFails \/ DiedDuringStartup \/ ConnectTimesOut
RpcStep(r) == Call(r) \/ Cancel(r) \/ Answered(r) \/ Unavailable(r) \/ ScanTimesOut(r) \/ Canceled(r)
RestartStep(r) == Lock(r) \/ CheckRestarted(r) \/ Restart(r) \/ Verified(r) \/ VerifyGivesUp(r)
OtherStep == CancelInit \/ CloseBegins \/ CloseEnds \/ UNCHANGED vars

(* Every step is one of these.                                             *)
LEMMA StepCases ==
  ASSUME [Next]_vars
  PROVE  \/ \E g \in Gens : ProcReady(g) \/ ProcHangs(g) \/ ProcExits(g)
         \/ NewStep \/ OtherStep
         \/ \E a \in Agents : Stop(a)
         \/ \E r \in Requests : RpcStep(r) \/ RestartStep(r)
BY DEF Next, New, Close, Request, NewStep, RpcStep, RestartStep, OtherStep, Agents

(* Neither "New" nor "Close" is a request.                                 *)
LEMMA AgentsApart ==
  /\ "New" \notin Requests /\ "Close" \notin Requests
  /\ "New" \in Agents /\ "Close" \in Agents /\ Requests \subseteq Agents
  /\ MaxGen \in Nat /\ Gens = 1 .. MaxGen
  /\ \A a \in Agents : a \in Requests \/ a = "New" \/ a = "Close"
BY DepsScannerAssumption DEF Agents, Gens

Place == {"idle", "start", "connect", "rpc", "lock", "check", "stopCheck",
          "shutdown", "wait1", "wait2", "verify", "closing", "closingErr"} \union Ended

(* A scan that returns leaves well-typed local state.                      *)
LEMMA ReturnTypes ==
  ASSUME TypeOK, NEW r \in Requests, Return(r)
  PROVE  /\ pc' \in [Agents -> Place] /\ detached' \subseteq Requests
         /\ sentTo' \in [Requests -> 0 .. MaxGen] /\ askedAt' \in [Requests -> 0 .. MaxGen]
         /\ waitOn' \in [Agents -> 0 .. MaxGen]
<1>1. 0 \in 0 .. MaxGen
  BY AgentsApart
<1>2. pc \in [Agents -> Place]
  BY DEF TypeOK, Place
<1> QED BY <1>1, <1>2 DEF TypeOK, Return, Goto, Place, Ended

(* So does a failed call of the constructor.                               *)
LEMMA AttemptTypes ==
  ASSUME TypeOK, AttemptFails
  PROVE  /\ pc' \in [Agents -> Place] /\ abandoned' \subseteq Gens
         /\ cur' \in 0 .. MaxGen /\ tries' \in 1 .. 2
<1>1. 0 \in 0 .. MaxGen /\ {cur} \ {0} \subseteq Gens
  BY AgentsApart DEF TypeOK
<1>2. pc \in [Agents -> Place]
  BY DEF TypeOK, Place
<1>3. pc' \in [Agents -> Place]
  BY <1>2 DEF AttemptFails, Goto, Place, Ended
<1> QED BY <1>1, <1>3 DEF TypeOK, AttemptFails

(* The types, given that verified restarts are among the starts.           *)
LEMMA TypeStep ==
  ASSUME TypeOK, CountInv, [Next]_vars
  PROVE  TypeOK'
<1> USE DEF TypeOK, procVars, dsVars, reqVars, Place
<1>0. /\ MaxGen \in Nat /\ Gens \subseteq 0 .. MaxGen
      /\ {cur} \ {0} \subseteq Gens
  BY AgentsApart
<1>1. ASSUME NEW g \in Gens, ProcReady(g) \/ ProcHangs(g) \/ ProcExits(g)
      PROVE  TypeOK'
  BY <1>1 DEF ProcReady, ProcHangs, ProcExits
<1>2. CASE NewStep
  <2>1. CASE NewStarts
    <3>1. ASSUME NEW g \in Gens, Launch(g), Goto("New", "connect"), UNCHANGED tries PROVE TypeOK'
      BY <1>0, <2>1, <3>1 DEF NewStarts, Launch, Goto
    <3>2. CASE AttemptFails /\ UNCHANGED <<proc, killed>>
      BY <2>1, <3>2, AttemptTypes DEF NewStarts
    <3> QED BY <2>1, <3>1, <3>2 DEF NewStarts
  <2>2. CASE Connected
    BY <2>2 DEF Connected, Goto, Ended
  <2>3. CASE ConnectFails
    BY <2>3, AttemptTypes DEF ConnectFails
  <2>4. CASE DiedDuringStartup
    BY <2>4, AttemptTypes DEF DiedDuringStartup
  <2>5. CASE ConnectTimesOut
    <3>1. pc' \in [Agents -> Place] /\ abandoned' \subseteq Gens /\ cur' \in 0 .. MaxGen /\ tries' \in 1 .. 2
      BY <2>5, AttemptTypes DEF ConnectTimesOut, Goto
    <3> QED BY <2>5, <3>1 DEF ConnectTimesOut
  <2> QED BY <1>2, <2>1, <2>2, <2>3, <2>4, <2>5 DEF NewStep
<1>3. CASE OtherStep
  BY <1>3 DEF OtherStep, CancelInit, CloseBegins, CloseEnds, Goto, Running, Ended, vars
<1>4. ASSUME NEW a \in Agents, Stop(a) PROVE TypeOK'
  <2>1. CASE AskToStop(a)
    <3>1. /\ pc' \in [Agents -> Place] /\ killed' \subseteq Gens
          /\ waitOn' \in [Agents -> 0 .. MaxGen]
      BY <1>0, <2>1 DEF AskToStop, Terminate, Goto
    <3> QED BY <2>1, <3>1 DEF AskToStop
  <2>2. CASE Shutdown(a)
    BY <2>2 DEF Shutdown, Goto, Crash, Ended
  <2>3. CASE Stopped(a)
    <3>1. proc' \in [Gens -> {"none", "starting", "ready", "hung", "stopping", "exited", "reaped"}]
      BY <2>3 DEF Stopped
    <3>2. /\ pc' \in [Agents -> Place] /\ abandoned' \subseteq Gens
          /\ cur' \in 0 .. MaxGen /\ tries' \in 1 .. 2 /\ UNCHANGED <<holder, reqVars>>
      BY <2>3, AttemptTypes DEF Stopped, AfterStopped, Goto
    <3> QED BY <2>3, <3>1, <3>2 DEF Stopped
  <2>4. CASE HardKill(a)
    BY <1>0, <2>4 DEF HardKill, Terminate, Goto
  <2>5. CASE StopTimesOut(a)
    <3>1. CASE a = "New" /\ AttemptFails /\ UNCHANGED <<holder, reqVars>>
      BY <2>5, <3>1, AttemptTypes DEF StopTimesOut
    <3>2. CASE a = "Close" /\ Goto(a, "closingErr") /\ UNCHANGED <<abandoned, cur, tries, holder, reqVars>>
      BY <2>5, <3>2 DEF StopTimesOut, Goto
    <3>3. CASE a \in Requests /\ Unlock /\ Return(a) /\ UNCHANGED <<abandoned, cur, tries>>
      BY <2>5, <3>3, ReturnTypes DEF StopTimesOut, Unlock
    <3> QED BY <2>5, <3>1, <3>2, <3>3 DEF StopTimesOut, AfterGiveUp
  <2> QED BY <1>4, <2>1, <2>2, <2>3, <2>4, <2>5 DEF Stop
<1>5. ASSUME NEW r \in Requests, RpcStep(r) PROVE TypeOK'
  <2>1. CASE Call(r)
    BY <2>1 DEF Call, Goto, Crash, Ended
  <2>2. CASE Cancel(r)
    BY <2>2 DEF Cancel
  <2>3. CASE Answered(r) \/ Canceled(r)
    BY <2>3, ReturnTypes DEF Answered, Canceled
  <2>4. CASE Unavailable(r) \/ ScanTimesOut(r)
    <3>1. Return(r) \/ AskRestart(r)
      BY <2>4 DEF Unavailable, ScanTimesOut
    <3>2. CASE Return(r)
      BY <2>4, <3>2, ReturnTypes DEF Unavailable, ScanTimesOut
    <3>3. CASE AskRestart(r) /\ managed
      <4>1. UNCHANGED <<procVars, dsVars>>
        BY <2>4 DEF Unavailable, ScanTimesOut
      <4>2. pc' \in [Agents -> Place] /\ UNCHANGED <<detached, waitOn>>
        BY <3>3 DEF AskRestart, Goto
      <4>3. sentTo' \in [Requests -> 0 .. MaxGen] /\ askedAt' \in [Requests -> 0 .. MaxGen]
        BY <1>0, <3>3 DEF AskRestart
      <4> QED BY <4>1, <4>2, <4>3
    <3>4. AskRestart(r) /\ ~managed => Return(r)
      BY DEF AskRestart
    <3> QED BY <3>1, <3>2, <3>3, <3>4
  <2> QED BY <1>5, <2>1, <2>2, <2>3, <2>4 DEF RpcStep
<1>6. ASSUME NEW r \in Requests, RestartStep(r) PROVE TypeOK'
  <2>1. CASE Lock(r)
    BY <2>1 DEF Lock, Goto
  <2>2. CASE CheckRestarted(r)
    <3>1. CASE Unlock /\ Return(r)
      BY <2>2, <3>1, ReturnTypes DEF CheckRestarted, Unlock
    <3>2. CASE Goto(r, "stopCheck") /\ UNCHANGED <<holder, reqVars>>
      BY <2>2, <3>2 DEF CheckRestarted, Goto
    <3> QED BY <2>2, <3>1, <3>2 DEF CheckRestarted
  <2>3. CASE Restart(r)
    <3>1. ASSUME NEW g \in Gens, Launch(g), Goto(r, "verify"), UNCHANGED <<holder, reqVars>>
          PROVE  TypeOK'
      BY <1>0, <2>3, <3>1 DEF Restart, Launch, Goto
    <3>2. CASE LaunchFails /\ Unlock /\ Return(r)
      BY <1>0, <2>3, <3>2, ReturnTypes DEF Restart, LaunchFails, Unlock
    <3> QED BY <2>3, <3>1, <3>2 DEF Restart
  <2>4. CASE Verified(r)
    <3>1. restarts + 1 \in 0 .. MaxGen
      BY <1>0, <2>4 DEF Verified, At, CountInv
    <3> QED BY <2>4, <3>1, ReturnTypes DEF Verified, Unlock
  <2>5. CASE VerifyGivesUp(r)
    <3>1. CASE Unlock /\ Return(r)
      BY <2>5, <3>1, ReturnTypes DEF VerifyGivesUp, Unlock
    <3>2. CASE Crash /\ UNCHANGED <<holder, reqVars>>
      BY <2>5, <3>2 DEF VerifyGivesUp, Crash, Ended
    <3> QED BY <2>5, <3>1, <3>2 DEF VerifyGivesUp
  <2> QED BY <1>6, <2>1, <2>2, <2>3, <2>4, <2>5 DEF RestartStep
<1> QED BY <1>1, <1>2, <1>3, <1>4, <1>5, <1>6, StepCases

-----------------------------------------------------------------------------
(* Who is where.                                                           *)

(* What a step of stopService does to the control states: its caller moves *)
(* on or, if ds.client is nil, everybody is dead.                          *)
LEMMA StopMoves ==
  ASSUME TypeOK, NEW a \in Agents, Stop(a)
  PROVE  /\ pc[a] \in {"stopCheck", "shutdown", "wait1", "wait2"}
         /\ \/ pc' = [b \in Agents |-> "dead"]
            \/ /\ \A b \in Agents \ {a} : pc'[b] = pc[b]
               /\ pc'[a] \in {"shutdown", "wait1", "wait2"}
            \/ /\ pc[a] \in {"wait1", "wait2"}
               /\ \A b \in Agents \ {a} : pc'[b] = pc[b]
               /\ a = "New" => pc'[a] \in IF managed THEN {"start", "failed"} ELSE {"connect", "failed"}
               /\ a = "Close" => pc'[a] \in {"closing", "closingErr"}
               /\ a \in Requests => pc'[a] \in {"start", "done"}
<1> USE AgentsApart DEF TypeOK, Goto, At
<1>1. CASE AskToStop(a) \/ HardKill(a)
  BY <1>1 DEF AskToStop, HardKill
<1>2. CASE Shutdown(a)
  BY <1>2 DEF Shutdown, Crash
<1>3. CASE Stopped(a)
  BY <1>3 DEF Stopped, AfterStopped, AttemptFails
<1>4. CASE StopTimesOut(a)
  BY <1>4 DEF StopTimesOut, AfterGiveUp, AttemptFails, Return
<1> QED BY <1>1, <1>2, <1>3, <1>4, Stop(a) DEF Stop

(* What the steps of a request do to them.                                 *)
LEMMA RequestMoves ==
  ASSUME TypeOK, NEW r \in Requests, RpcStep(r) \/ RestartStep(r)
  PROVE  \/ pc' = [b \in Agents |-> "dead"]
         \/ UNCHANGED pc
         \/ /\ pc[r] # "idle" \/ pc["New"] = "done"
            /\ \A b \in Agents \ {r} : pc'[b] = pc[b]
            /\ \/ pc[r] = "idle" /\ pc'[r] = "rpc"
               \/ pc[r] = "rpc" /\ pc'[r] = "lock" /\ managed
               \/ pc[r] = "lock" /\ pc'[r] = "check" /\ holder = "nobody" /\ holder' = r
               \/ pc[r] = "check" /\ pc'[r] = "stopCheck" /\ holder' = holder
               \/ pc[r] = "start" /\ pc'[r] = "verify" /\ holder' = holder
               \/ pc[r] \in {"rpc", "check", "start", "verify"} /\ pc'[r] = "done"
<1> USE AgentsApart DEF TypeOK, Goto, At
<1>1. CASE Call(r) \/ Cancel(r)
  BY <1>1 DEF Call, Cancel, Crash
<1>2. CASE Answered(r) \/ Unavailable(r) \/ ScanTimesOut(r) \/ Canceled(r)
  BY <1>2 DEF Answered, Unavailable, ScanTimesOut, Canceled, AskRestart, Return
<1>3. CASE Lock(r) \/ CheckRestarted(r)
  BY <1>3 DEF Lock, CheckRestarted, Return
<1>4. CASE Restart(r)
  BY <1>4 DEF Restart, Return
<1>5. CASE Verified(r) \/ VerifyGivesUp(r)
  BY <1>5 DEF Verified, VerifyGivesUp, Return, Crash
<1> QED BY <1>1, <1>2, <1>3, <1>4, <1>5, RpcStep(r) \/ RestartStep(r) DEF RpcStep, RestartStep

(* What the other steps do to them.                                        *)
LEMMA NewMoves ==
  ASSUME TypeOK, NewStep
  PROVE  /\ pc["New"] \in {"start", "connect"}
         /\ \A b \in Agents \ {"New"} : pc'[b] = pc[b]
         /\ \/ pc["New"] = "connect" /\ pc'["New"] = "done"
            \/ pc["New"] = "connect" /\ pc'["New"] = "stopCheck" /\ managed
            \/ pc["New"] = "start" /\ pc'["New"] = "connect"
            \/ pc'["New"] \in IF managed THEN {"start", "failed"} ELSE {"connect", "failed"}
<1> USE AgentsApart DEF TypeOK, Goto, At
<1>1. CASE NewStarts
  BY <1>1 DEF NewStarts, AttemptFails
<1>2. CASE Connected \/ ConnectFails
  BY <1>2 DEF Connected, ConnectFails, AttemptFails
<1>3. CASE DiedDuringStartup \/ ConnectTimesOut
  BY <1>3 DEF DiedDuringStartup, ConnectTimesOut, AttemptFails
<1> QED BY <1>1, <1>2, <1>3, NewStep DEF NewStep

(* Requests and Close wait for the constructor, and each goroutine stays   *)
(* in its own functions.                                                   *)
LEMMA PhaseStep ==
  ASSUME TypeOK, PhaseInv, [Next]_vars
  PROVE  PhaseInv'
<1> USE AgentsApart DEF PhaseInv
<1>1. ASSUME NEW g \in Gens, ProcReady(g) \/ ProcHangs(g) \/ ProcExits(g)
      PROVE  PhaseInv'
  BY <1>1 DEF ProcReady, ProcHangs, ProcExits
<1>2. CASE NewStep
  BY <1>2, NewMoves
<1>3. CASE OtherStep
  BY <1>3 DEF OtherStep, CancelInit, CloseBegins, CloseEnds, Goto, At, vars, TypeOK
<1>4. ASSUME NEW a \in Agents, Stop(a) PROVE PhaseInv'
  BY <1>4, StopMoves
<1>5. ASSUME NEW r \in Requests, RpcStep(r) \/ RestartStep(r) PROVE PhaseInv'
  BY <1>5, RequestMoves
<1> QED BY <1>1, <1>2, <1>3, <1>4, <1>5, StepCases

(* With a service of others, nothing is ever started or stopped.           *)
LEMMA UnmanagedStep ==
  ASSUME TypeOK, PhaseInv, UnmanagedInv, [Next]_vars
  PROVE  UnmanagedInv'
<1> USE AgentsApart DEF UnmanagedInv
<1>1. ASSUME NEW g \in Gens, ProcReady(g) \/ ProcHangs(g) \/ ProcExits(g)
      PROVE  UnmanagedInv'
  BY <1>1 DEF ProcReady, ProcHangs, ProcExits, Running, dsVars
<1>2. CASE NewStep
  <2>1. UNCHANGED managed
    BY <1>2 DEF NewStep, NewStarts, Connected, ConnectFails, DiedDuringStartup, ConnectTimesOut
  <2>2. ~managed => cur' = 0 /\ UNCHANGED proc
    BY <1>2 DEF NewStep, NewStarts, Connected, ConnectFails, DiedDuringStartup, ConnectTimesOut,
                AttemptFails, ExitOffered, At, procVars
  <2> QED BY <1>2, <2>1, <2>2, NewMoves
<1>3. CASE OtherStep
  BY <1>3 DEF OtherStep, CancelInit, CloseBegins, CloseEnds, Goto, At, vars, procVars, dsVars,
     TypeOK
<1>4. ASSUME NEW a \in Agents, Stop(a) PROVE UnmanagedInv'
  <2>1. UNCHANGED managed
    BY <1>4 DEF Stop, AskToStop, Shutdown, Stopped, HardKill, StopTimesOut, dsVars
  <2> QED BY <1>4, <2>1, StopMoves
<1>5. ASSUME NEW r \in Requests, RpcStep(r) PROVE UnmanagedInv'
  <2>1. UNCHANGED <<procVars, dsVars>>
    BY <1>5 DEF RpcStep, Call, Cancel, Answered, Unavailable, ScanTimesOut, Canceled
  <2> QED BY <1>5, <2>1, RequestMoves DEF procVars, dsVars
<1>6. ASSUME NEW r \in Requests, RestartStep(r) PROVE UnmanagedInv'
  BY <1>6 DEF RestartStep, Lock, CheckRestarted, Restart, Verified, VerifyGivesUp, At
<1> QED BY <1>1, <1>2, <1>3, <1>4, <1>5, <1>6, StepCases

-----------------------------------------------------------------------------
(* ds.m and the restarts.                                                  *)

(* Only the holder of ds.m is between Lock and Unlock, and a verified      *)
(* restart is seen by everybody who asked before it.                       *)
LEMMA LockStep ==
  ASSUME TypeOK, PhaseInv, LockInv, [Next]_vars
  PROVE  LockInv'
<1> USE AgentsApart DEF LockInv, Critical, Stopping
<1>0. /\ restarts \in Nat /\ askedAt \in [Requests -> 0 .. MaxGen]
      /\ pc \in [Agents -> Place]
  BY DEF TypeOK, Place
<1>1. ASSUME NEW g \in Gens, ProcReady(g) \/ ProcHangs(g) \/ ProcExits(g)
      PROVE  LockInv'
  BY <1>1 DEF ProcReady, ProcHangs, ProcExits, dsVars, reqVars
<1>2. CASE NewStep
  <2>1. UNCHANGED <<holder, restarts, askedAt>>
    BY <1>2 DEF NewStep, NewStarts, Connected, ConnectFails, DiedDuringStartup, ConnectTimesOut,
       reqVars
  <2> QED BY <1>2, <2>1, NewMoves
<1>3. CASE OtherStep
  <2>1. UNCHANGED <<holder, restarts, askedAt>>
    BY <1>3 DEF OtherStep, CancelInit, CloseBegins, CloseEnds, vars, dsVars, reqVars
  <2>2. \A r \in Requests : pc'[r] = pc[r]
    BY <1>0, <1>3 DEF OtherStep, CancelInit, CloseBegins, CloseEnds, Goto, vars
  <2> QED BY <2>1, <2>2
<1>4. ASSUME NEW a \in Agents, Stop(a) PROVE LockInv'
  <2>1. UNCHANGED restarts
    BY <1>4 DEF Stop, AskToStop, Shutdown, Stopped, HardKill, StopTimesOut, dsVars
  <2>2. CASE UNCHANGED <<holder, askedAt>>
    <3>1. a \in Requests => pc[a] \in Stopping
      BY <1>4, StopMoves
    <3> QED BY <1>4, <2>1, <2>2, <3>1, StopMoves
  <2>3. CASE a \in Requests /\ Unlock /\ Return(a)
    <3>1. holder = a
      BY <1>4, <2>3, StopMoves
    <3>2. \A r \in Requests \ {a} : pc'[r] = pc[r] /\ askedAt'[r] = askedAt[r]
      BY <1>0, <2>3 DEF Return, Goto
    <3>3. pc'[a] = "done"
      BY <1>0, <2>3 DEF Return, Goto
    <3> QED BY <2>1, <3>1, <3>2, <3>3
  <2> QED BY <1>4, <2>2, <2>3 DEF Stop, AskToStop, Shutdown, Stopped, HardKill, StopTimesOut,
                                AfterStopped, AfterGiveUp, dsVars, reqVars
<1>5. ASSUME NEW r \in Requests, RpcStep(r) PROVE LockInv'
  <2>1. UNCHANGED <<holder, restarts>>
    BY <1>5 DEF RpcStep, Call, Cancel, Answered, Unavailable, ScanTimesOut, Canceled, dsVars
  <2>2. CASE Call(r) \/ Cancel(r)
    BY <1>0, <2>1, <2>2 DEF Call, Cancel, Goto, Crash
  <2>3. CASE Return(r)
    <3>1. \A q \in Requests \ {r} : pc'[q] = pc[q] /\ askedAt'[q] = askedAt[q]
      BY <1>0, <2>3 DEF Return, Goto
    <3>2. pc'[r] = "done"
      BY <1>0, <2>3 DEF Return, Goto
    <3> QED BY <2>1, <3>1, <3>2
  <2>4. CASE AskRestart(r)
    <3>1. managed => /\ \A q \in Requests \ {r} : pc'[q] = pc[q] /\ askedAt'[q] = askedAt[q]
                     /\ pc'[r] = "lock" /\ askedAt'[r] = restarts
      BY <1>0, <2>4 DEF AskRestart, Goto
    <3>2. ~managed => Return(r)
      BY <2>4 DEF AskRestart
    <3> QED BY <1>0, <2>1, <2>3, <3>1, <3>2
  <2> QED BY <1>5, <2>2, <2>3, <2>4
          DEF RpcStep, Answered, Unavailable, ScanTimesOut, Canceled
<1>6. ASSUME NEW r \in Requests, RestartStep(r) PROVE LockInv'
  <2>1. CASE Return(r) /\ pc[r] \in Critical /\ restarts' \in {restarts, restarts + 1}
    <3>1. \A q \in Requests \ {r} : pc'[q] = pc[q] /\ askedAt'[q] = askedAt[q]
      BY <1>0, <2>1 DEF Return, Goto
    <3>2. pc'[r] = "done"
      BY <1>0, <2>1 DEF Return, Goto
    <3>3. \A q \in Requests \ {r} : pc[q] \notin Critical
      BY <2>1
    <3> QED BY <1>0, <2>1, <3>1, <3>2, <3>3
  <2>2. CASE Lock(r)
    <3>1. \A q \in Requests : pc[q] \notin Critical
      BY <2>2, DepsScannerAssumption DEF Lock
    <3> QED BY <1>0, <2>2, <3>1 DEF Lock, Goto, At, reqVars
  <2>3. CASE CheckRestarted(r)
    <3>1. CASE RestartedSince(r)
      BY <2>1, <2>3, <3>1 DEF CheckRestarted, At
    <3>2. CASE ~RestartedSince(r)
      BY <1>0, <2>3, <3>2 DEF CheckRestarted, RestartedSince, Goto, At, reqVars
    <3> QED BY <3>1, <3>2
  <2>4. CASE Restart(r)
    <3>1. CASE Goto(r, "verify") /\ UNCHANGED <<holder, reqVars>>
      BY <1>0, <2>4, <3>1 DEF Restart, Goto, At, reqVars
    <3> QED BY <2>1, <2>4, <3>1 DEF Restart, At
  <2>5. CASE Verified(r)
    BY <2>1, <2>5 DEF Verified, At
  <2>6. CASE VerifyGivesUp(r)
    <3>1. CASE Crash
      BY <3>1 DEF Crash
    <3> QED BY <2>1, <2>6, <3>1 DEF VerifyGivesUp, At
  <2> QED BY <1>6, <2>2, <2>3, <2>4, <2>5, <2>6 DEF RestartStep
<1> QED BY <1>1, <1>2, <1>3, <1>4, <1>5, <1>6, StepCases

-----------------------------------------------------------------------------
(* Generations of the process.                                             *)

(* A start takes the next number.                                          *)
LEMMA LaunchEffect ==
  ASSUME TypeOK, CountInv, NEW g \in Gens, Launch(g)
  PROVE  /\ \A h \in Gens : proc'[h] = IF h = g THEN "starting" ELSE proc[h]
         /\ cur' = g /\ proc[g] = "none" /\ UNCHANGED abandoned
         /\ \A h, k \in Gens : h < k /\ proc'[k] # "none" => proc'[h] # "none"
         /\ restarts # 0 => proc'[restarts] # "none"
         /\ restarts + 1 \in Gens /\ proc'[restarts + 1] # "none"
<1>1. /\ MaxGen \in Nat /\ Gens = 1 .. MaxGen /\ restarts \in 0 .. MaxGen
      /\ proc \in [Gens -> {"none", "starting", "ready", "hung", "stopping", "exited", "reaped"}]
  BY AgentsApart DEF TypeOK
<1>2. /\ \A h \in Gens : proc'[h] = IF h = g THEN "starting" ELSE proc[h]
      /\ cur' = g /\ proc[g] = "none" /\ UNCHANGED abandoned
      /\ \A h \in Gens : h < g => proc[h] # "none"
  BY <1>1 DEF Launch
<1>3. \A k \in Gens : g < k => proc[k] = "none"
  BY <1>2 DEF CountInv
<1>4. restarts < g
  <2>1. CASE restarts = 0
    BY <1>1, <2>1
  <2>2. CASE restarts # 0
    <3>1. restarts \in Gens /\ proc[restarts] # "none"
      BY <1>1, <2>2 DEF CountInv
    <3>2. ~(g < restarts) /\ g # restarts
      BY <1>2, <1>3, <3>1
    <3> QED BY <1>1, <3>1, <3>2
  <2> QED BY <2>1, <2>2
<1>5. restarts + 1 \in Gens /\ (restarts + 1 < g \/ restarts + 1 = g)
  BY <1>1, <1>4
<1>6. proc'[restarts + 1] # "none" /\ (restarts # 0 => proc'[restarts] # "none")
  BY <1>1, <1>2, <1>4, <1>5
<1>7. ASSUME NEW h \in Gens, NEW k \in Gens, h < k, proc'[k] # "none" PROVE proc'[h] # "none"
  <2>1. k < g \/ k = g \/ g < k
    BY <1>1
  <2>2. ~(g < k)
    BY <1>1, <1>2, <1>3, <1>7
  <2>3. h < g
    BY <1>1, <1>7, <2>1, <2>2
  <2> QED BY <1>1, <1>2, <2>3
<1> QED BY <1>2, <1>5, <1>6, <1>7

(* All other steps leave unstarted generations unstarted, and started ones *)
(* started.                                                                *)
LEMMA NoLaunch ==
  ASSUME TypeOK, CountInv, UNCHANGED restarts,
         \A g \in Gens : proc'[g] = "none" <=> proc[g] = "none",
         \A q \in Requests : pc'[q] = "verify" => pc[q] = "verify"
  PROVE  CountInv'
BY AgentsApart DEF CountInv, TypeOK

(* What stopService does to the processes: it has the current one stop, or *)
(* receives the exit it waited for.                                        *)
LEMMA StopProcs ==
  ASSUME TypeOK, NEW a \in Agents, Stop(a)
  PROVE  /\ \A g \in Gens : \/ proc'[g] = proc[g]
                            \/ proc[g] = "ready" /\ proc'[g] = "stopping"
                            \/ proc[g] = "exited" /\ proc'[g] = "reaped" /\ Stopped(a) /\ g = waitOn[a]
         /\ Stopped(a) => waitOn[a] \in Gens /\ proc[waitOn[a]] = "exited" /\ proc'[waitOn[a]] = "reaped"
<1> USE DEF TypeOK
<1>1. CASE AskToStop(a) \/ HardKill(a) \/ StopTimesOut(a)
  BY <1>1 DEF AskToStop, HardKill, StopTimesOut, Stopped, At, AfterGiveUp, ExitOffered
<1>2. CASE Shutdown(a)
  BY <1>2 DEF Shutdown, Stopped, At
<1>3. CASE Stopped(a)
  BY <1>3 DEF Stopped, ExitOffered
<1> QED BY <1>1, <1>2, <1>3, Stop(a) DEF Stop

(* Verified restarts stay among the starts.                                *)
LEMMA CountStep ==
  ASSUME TypeOK, PhaseInv, LockInv, CountInv, [Next]_vars
  PROVE  CountInv'
<1> USE AgentsApart
<1>0. proc \in [Gens -> {"none", "starting", "ready", "hung", "stopping", "exited", "reaped"}]
  BY DEF TypeOK
<1>1. ASSUME NEW g \in Gens, ProcReady(g) \/ ProcHangs(g) \/ ProcExits(g)
      PROVE  CountInv'
  BY <1>0, <1>1, NoLaunch DEF ProcReady, ProcHangs, ProcExits, Running, dsVars
<1>2. CASE NewStep
  <2>1. UNCHANGED restarts /\ \A q \in Requests : pc'[q] = pc[q]
    BY <1>2, NewMoves DEF NewStep, NewStarts, Connected, ConnectFails, DiedDuringStartup,
                          ConnectTimesOut
  <2>2. ASSUME NEW g \in Gens, Launch(g) PROVE CountInv'
    <3>1. \A q \in Requests : pc'[q] # "verify"
      BY <1>2, <2>1, NewMoves DEF PhaseInv
    <3> QED BY <2>1, <2>2, <3>1, LaunchEffect DEF CountInv
  <2>3. CASE \A g \in Gens : proc'[g] = "none" <=> proc[g] = "none"
    BY <2>1, <2>3, NoLaunch
  <2> QED BY <1>0, <1>2, <2>2, <2>3
          DEF NewStep, NewStarts, Connected, ConnectFails, DiedDuringStartup, ConnectTimesOut,
              ExitOffered, procVars
<1>3. CASE OtherStep
  <2>1. UNCHANGED <<restarts, proc>>
    BY <1>3 DEF OtherStep, CancelInit, CloseBegins, CloseEnds, vars, procVars, dsVars
  <2>2. \A r \in Requests : pc'[r] = pc[r]
    BY <1>3 DEF OtherStep, CancelInit, CloseBegins, CloseEnds, Goto, vars, TypeOK
  <2> QED BY <2>1, <2>2, NoLaunch
<1>4. ASSUME NEW a \in Agents, Stop(a) PROVE CountInv'
  <2>1. UNCHANGED restarts
    BY <1>4 DEF Stop, AskToStop, Shutdown, Stopped, HardKill, StopTimesOut, dsVars
  <2>2. \A q \in Requests : pc'[q] = "verify" => pc[q] = "verify"
    BY <1>4, StopMoves
  <2>3. \A g \in Gens : proc'[g] = "none" <=> proc[g] = "none"
    BY <1>4, StopProcs
  <2> QED BY <2>1, <2>2, <2>3, NoLaunch
<1>5. ASSUME NEW r \in Requests, RpcStep(r) PROVE CountInv'
  <2>1. UNCHANGED <<procVars, dsVars>>
    BY <1>5 DEF RpcStep, Call, Cancel, Answered, Unavailable, ScanTimesOut, Canceled
  <2>2. \A q \in Requests : pc'[q] = "verify" => pc[q] = "verify"
    BY <1>5 DEF RpcStep, Call, Cancel, Answered, Unavailable, ScanTimesOut, Canceled, AskRestart,
                Return, Goto, Crash, TypeOK
  <2> QED BY <2>1, <2>2, NoLaunch DEF procVars, dsVars
<1>6. ASSUME NEW r \in Requests, RestartStep(r) PROVE CountInv'
  <2>1. CASE Lock(r) \/ CheckRestarted(r) \/ VerifyGivesUp(r)
    <3>1. UNCHANGED <<proc, restarts>>
      BY <2>1 DEF Lock, CheckRestarted, VerifyGivesUp, procVars
    <3>2. \A q \in Requests : pc'[q] = "verify" => pc[q] = "verify"
      BY <2>1 DEF Lock, CheckRestarted, VerifyGivesUp, Return, Goto, Crash, TypeOK
    <3> QED BY <3>1, <3>2, NoLaunch
  <2>2. CASE Restart(r)
    <3>1. ASSUME NEW g \in Gens, Launch(g) PROVE CountInv'
      BY <2>2, <3>1, LaunchEffect DEF Restart, CountInv
    <3>2. CASE LaunchFails /\ Return(r)
      <4>1. \A q \in Requests : pc'[q] = "verify" => pc[q] = "verify"
        BY <3>2 DEF Return, Goto, TypeOK
      <4> QED BY <2>2, <3>2, <4>1, NoLaunch DEF Restart, LaunchFails, procVars
    <3> QED BY <2>2, <3>1, <3>2 DEF Restart
  <2>3. CASE Verified(r)
    <3>1. /\ restarts' = restarts + 1 /\ UNCHANGED proc
          /\ restarts + 1 \in Gens /\ proc[restarts + 1] # "none"
      BY <2>3 DEF Verified, At, CountInv, procVars
    <3>2. \A q \in Requests : pc'[q] # "verify"
      BY <2>3 DEF Verified, Return, Goto, At, TypeOK, LockInv, Critical, Stopping
    <3> QED BY <3>1, <3>2 DEF CountInv
  <2> QED BY <1>6, <2>1, <2>2, <2>3 DEF RestartStep
<1> QED BY <1>1, <1>2, <1>3, <1>4, <1>5, <1>6, StepCases

Waits == {"wait1", "wait2"}

(* As long as nothing is started or given up, it is enough to look at who  *)
(* begins to wait, to start, or to close.                                  *)
LEMMA GenKept ==
  ASSUME TypeOK, GenInv, UNCHANGED <<cur, abandoned>>,
         \A g \in Gens : proc'[g] = "none" <=> proc[g] = "none",
         \A g \in Gens : proc[g] = "reaped" => proc'[g] = "reaped",
         \A a \in Requests \union {"New"} :
           pc'[a] \in Waits => waitOn'[a] = cur,
         pc'["Close"] \in Waits => waitOn'["Close"] \notin abandoned,
         pc'["New"] = "start" => pc["New"] = "start",
         \A r \in Requests : pc'[r] = "start" => pc[r] = "start",
         pc'["Close"] \in {"closing", "done"} => pc["Close"] \in {"closing", "done"}
  PROVE  GenInv'
<1>1. \A g \in Gens : Gone(g) => Gone(g)'
  BY DEF Gone
<1>2. AllGone => AllGone'
  BY <1>1 DEF AllGone
<1>3. abandoned \subseteq Gens /\ (cur # 0 => cur \in Gens)
  BY AgentsApart DEF TypeOK
<1> HIDE DEF AllGone
<1> QED BY <1>1, <1>2, <1>3 DEF GenInv, Waits

(* A failed call of the constructor leaves its process behind.             *)
LEMMA GenAttempt ==
  ASSUME TypeOK, PhaseInv, GenInv, AttemptFails, pc["New"] \notin {"done"},
         \A g \in Gens : proc'[g] = proc[g] \/ (g = cur /\ proc'[g] = "reaped")
  PROVE  GenInv'
<1> USE AgentsApart
<1>0. abandoned \subseteq Gens /\ (cur # 0 => cur \in Gens)
  BY DEF TypeOK
<1>1. /\ \A b \in Agents \ {"New"} : pc'[b] = pc[b]
      /\ pc'["New"] \in {"start", "connect", "failed"}
  BY DEF AttemptFails, Goto, TypeOK
<1>2. /\ \A r \in Requests : pc'[r] \in {"idle", "dead"}
      /\ pc'["Close"] \in {"idle", "dead"}
  BY <1>1 DEF PhaseInv
<1>3. cur' = 0 /\ abandoned' = abandoned \union ({cur} \ {0})
  BY DEF AttemptFails
<1>4. \A g \in Gens : Gone(g)'
  BY <1>0, <1>3 DEF GenInv, Gone
<1>5. 0 \notin abandoned' /\ \A g \in abandoned' : proc'[g] # "none"
  BY <1>0, <1>3 DEF GenInv
<1> QED BY <1>1, <1>2, <1>3, <1>4, <1>5 DEF GenInv

(* A start when everything is gone makes its generation the only one.      *)
LEMMA GenLaunch ==
  ASSUME TypeOK, CountInv, GenInv, NEW g \in Gens, Launch(g), AllGone,
         \A r \in Requests : pc'[r] \notin Waits \union {"start"},
         pc'["New"] \notin Waits \union {"start"}, UNCHANGED waitOn,
         pc'["Close"] = pc["Close"], pc["Close"] \notin {"closing", "done"}
  PROVE  GenInv'
<1>1. /\ \A h \in Gens : proc'[h] = IF h = g THEN "starting" ELSE proc[h]
      /\ cur' = g /\ proc[g] = "none" /\ UNCHANGED abandoned
  BY LaunchEffect
<1>2. abandoned \subseteq Gens /\ g # 0 /\ g \notin abandoned
  BY <1>1, AgentsApart DEF TypeOK, GenInv
<1>3. \A h \in Gens : Gone(h)' \/ h = g
  BY <1>1 DEF AllGone, Gone
<1> QED BY <1>1, <1>2, <1>3 DEF GenInv, Waits

(* No step starts a generation before the exit of the last one has been    *)
(* received, and Close is told of no exit while a request starts one.      *)
LEMMA GenStep ==
  ASSUME TypeOK, PhaseInv, UnmanagedInv, LockInv, CountInv, GenInv, [Next]_vars
  PROVE  GenInv'
<1> USE AgentsApart
<1>0. /\ proc \in [Gens -> {"none", "starting", "ready", "hung", "stopping", "exited", "reaped"}]
      /\ pc \in [Agents -> Place] /\ waitOn \in [Agents -> 0 .. MaxGen]
  BY DEF TypeOK, Place
<1>1. ASSUME NEW g \in Gens, ProcReady(g) \/ ProcHangs(g) \/ ProcExits(g)
      PROVE  GenInv'
  <2>1. UNCHANGED <<cur, abandoned, waitOn, pc>>
    BY <1>1 DEF ProcReady, ProcHangs, ProcExits, dsVars, reqVars
  <2>2. \A h \in Gens : proc'[h] = proc[h] \/ (proc[h] \notin {"none", "reaped"} /\ proc'[h] \notin {"none", "reaped"})
    BY <1>0, <1>1 DEF ProcReady, ProcHangs, ProcExits, Running
  <2> QED BY <2>1, <2>2, GenKept DEF GenInv, Waits
<1>2. CASE NewStep
  <2>0. /\ pc["New"] \in {"start", "connect"}
        /\ \A r \in Requests : pc'[r] = pc[r] /\ pc[r] \in {"idle", "dead"}
        /\ pc'["Close"] = pc["Close"] /\ pc["Close"] \in {"idle", "dead"}
    BY <1>2, NewMoves DEF PhaseInv
  <2>1. CASE NewStarts
    <3>1. ASSUME NEW g \in Gens, Launch(g), Goto("New", "connect") PROVE GenInv'
      <4>1. AllGone
        BY <2>1 DEF NewStarts, At, GenInv, AllGone
      <4>2. pc'["New"] = "connect" /\ UNCHANGED waitOn
        BY <1>0, <2>1, <3>1 DEF Goto, NewStarts, reqVars
      <4> QED BY <2>0, <3>1, <4>1, <4>2, GenLaunch DEF Waits
    <3>2. CASE AttemptFails /\ UNCHANGED <<proc, killed>>
      BY <2>0, <3>2, GenAttempt
    <3> QED BY <2>1, <3>1, <3>2 DEF NewStarts
  <2>2. CASE Connected
    <3>1. pc'["New"] = "done" /\ UNCHANGED <<cur, abandoned, proc, waitOn>>
      BY <1>0, <2>2 DEF Connected, Goto, procVars, reqVars
    <3> QED BY <2>0, <3>1, GenKept DEF Waits
  <2>3. CASE ConnectFails
    BY <2>0, <2>3, GenAttempt DEF ConnectFails
  <2>4. CASE DiedDuringStartup
    <3>1. \A g \in Gens : proc'[g] = proc[g] \/ (g = cur /\ proc'[g] = "reaped")
      BY <1>0, <2>4 DEF DiedDuringStartup
    <3> QED BY <2>0, <2>4, <3>1, GenAttempt DEF DiedDuringStartup
  <2>5. CASE ConnectTimesOut
    <3>1. CASE ~managed
      BY <2>0, <2>5, <3>1, GenAttempt DEF ConnectTimesOut
    <3>2. CASE managed
      <4>1. pc'["New"] = "stopCheck" /\ UNCHANGED <<cur, abandoned, proc, waitOn>>
        BY <1>0, <2>5, <3>2 DEF ConnectTimesOut, Goto, reqVars
      <4> QED BY <2>0, <4>1, GenKept DEF Waits
    <3> QED BY <3>1, <3>2
  <2> QED BY <1>2, <2>1, <2>2, <2>3, <2>4, <2>5 DEF NewStep
<1>3. CASE OtherStep
  <2>1. UNCHANGED <<cur, abandoned, proc, waitOn>>
    BY <1>3 DEF OtherStep, CancelInit, CloseBegins, CloseEnds, vars, procVars, dsVars, reqVars
  <2>2. \A b \in Requests \union {"New"} : pc'[b] = pc[b]
    BY <1>0, <1>3 DEF OtherStep, CancelInit, CloseBegins, CloseEnds, Goto, vars
  <2>3. CASE CloseBegins /\ ~managed
    <3>1. pc'["Close"] = "closing"
      BY <1>0, <2>3 DEF CloseBegins, Goto
    <3>2. AllGone' /\ \A r \in Requests : pc'[r] # "start"
      BY <2>1, <2>2, <2>3 DEF UnmanagedInv, AllGone, Gone
    <3> QED BY <2>1, <2>2, <3>1, <3>2 DEF GenInv, Gone
  <2>4. CASE ~(CloseBegins /\ ~managed)
    <3>1. /\ pc'["Close"] \in Waits => pc["Close"] \in Waits
          /\ pc'["Close"] \in {"closing", "done"} => pc["Close"] \in {"closing", "done"}
      BY <1>0, <1>3, <2>4 DEF OtherStep, CancelInit, CloseBegins, CloseEnds, Goto, At, vars, Waits
    <3> QED BY <2>1, <2>2, <3>1, GenKept DEF GenInv, Waits
  <2> QED BY <2>3, <2>4
<1>4. ASSUME NEW a \in Agents, Stop(a) PROVE GenInv'
  <2>1. CASE AskToStop(a) \/ HardKill(a) \/ Shutdown(a)
    <3>1. UNCHANGED <<cur, abandoned>>
      BY <2>1 DEF AskToStop, HardKill, Shutdown, dsVars
    <3>2. \A g \in Gens : proc'[g] = proc[g] \/ (proc[g] = "ready" /\ proc'[g] = "stopping")
      BY <1>0, <2>1 DEF AskToStop, HardKill, Shutdown
    <3>3. \A b \in Agents \ {a} : waitOn'[b] = waitOn[b] /\ pc'[b] \in {pc[b], "dead"}
      BY <1>0, <2>1 DEF AskToStop, HardKill, Shutdown, Goto, Crash
    <3>4. pc'[a] \in {"shutdown", "dead"} \/ (pc'[a] \in Waits /\ waitOn'[a] = cur)
      BY <1>0, <2>1 DEF AskToStop, HardKill, Shutdown, Goto, Crash, Waits
    <3> QED BY <3>1, <3>2, <3>3, <3>4, GenKept DEF GenInv, Waits
  <2>2. CASE Stopped(a)
    <3>0. /\ pc[a] \in Waits /\ waitOn[a] \in Gens /\ proc[waitOn[a]] = "exited"
          /\ \A g \in Gens : proc'[g] = IF g = waitOn[a] THEN "reaped" ELSE proc[g]
      BY <1>0, <2>2 DEF Stopped, ExitOffered, Waits
    <3>1. CASE a = "New" /\ AttemptFails /\ UNCHANGED <<holder, reqVars>>
      <4>1. waitOn[a] = cur
        BY <3>0, <3>1 DEF GenInv, Waits
      <4> QED BY <3>0, <3>1, <4>1, GenAttempt DEF Waits
    <3>2. CASE a # "New" /\ Goto(a, IF a = "Close" THEN "closing" ELSE "start")
               /\ UNCHANGED <<abandoned, cur, tries, holder, reqVars>>
      <4>1. waitOn[a] \notin abandoned
        BY <3>0, <3>2 DEF GenInv, Waits
      <4>2. waitOn[a] = cur
        BY <3>0, <4>1 DEF GenInv, Gone
      <4>3. AllGone'
        BY <3>0, <3>2, <4>2 DEF AllGone, Gone, GenInv
      <4>4. ~AllGone
        BY <3>0, <4>1 DEF AllGone, Gone
      <4>5. \A b \in Agents : pc'[b] = IF b = a THEN IF a = "Close" THEN "closing" ELSE "start" ELSE pc[b]
        BY <1>0, <3>2 DEF Goto
      <4>6. \A g \in Gens : Gone(g)' \/ g = cur
        BY <4>3 DEF AllGone
      <4>7. \A r \in Requests : pc[r] # "start"
        BY <4>4 DEF GenInv
      <4>8. pc["Close"] \notin {"closing", "done"}
        BY <4>4 DEF GenInv
      <4>9. pc'["Close"] = "closing" => \A r \in Requests : pc'[r] # "start"
        BY <4>5, <4>7, <4>8
      <4>10. /\ cur \notin abandoned /\ cur # 0 /\ proc'[cur] # "none"
             /\ \A g \in abandoned : proc'[g] # "none"
        BY <3>0, <4>2 DEF GenInv, TypeOK
      <4>11. pc'["Close"] # "done" /\ (pc'["New"] = "start" => cur = 0)
        BY <3>2, <4>5, <4>8 DEF GenInv
      <4>12. /\ \A b \in Requests \union {"New"} : pc'[b] \in Waits => waitOn[b] = cur
             /\ pc'["Close"] \in Waits => waitOn["Close"] \notin abandoned
        BY <4>5 DEF GenInv, Waits
      <4> QED BY <3>2, <4>3, <4>6, <4>9, <4>10, <4>11, <4>12 DEF GenInv, Waits, reqVars
    <3> QED BY <2>2, <3>1, <3>2 DEF Stopped, AfterStopped
  <2>3. CASE StopTimesOut(a)
    <3>1. UNCHANGED proc /\ pc[a] \in Waits
      BY <2>3 DEF StopTimesOut, At, Waits
    <3>2. CASE a = "New" /\ AttemptFails /\ UNCHANGED <<holder, reqVars>>
      BY <3>1, <3>2, GenAttempt DEF Waits
    <3>3. CASE a # "New" /\ UNCHANGED <<abandoned, cur>> /\ pc' = [pc EXCEPT ![a] = IF a = "Close" THEN "closingErr" ELSE "done"]
               /\ \A b \in Agents \ {a} : waitOn'[b] = waitOn[b]
      <4>1. \A b \in Agents : pc'[b] = IF b = a THEN IF a = "Close" THEN "closingErr" ELSE "done" ELSE pc[b]
        BY <1>0, <3>3
      <4> QED BY <3>1, <3>3, <4>1, GenKept DEF GenInv, Waits
    <3> QED BY <1>0, <2>3, <3>2, <3>3
            DEF StopTimesOut, AfterGiveUp, Goto, Return, reqVars
  <2> QED BY <1>4, <2>1, <2>2, <2>3 DEF Stop
<1>5. ASSUME NEW r \in Requests, RpcStep(r) PROVE GenInv'
  <2>1. UNCHANGED <<procVars, dsVars>>
    BY <1>5 DEF RpcStep, Call, Cancel, Answered, Unavailable, ScanTimesOut, Canceled
  <2>2. \A b \in Agents : waitOn'[b] = waitOn[b] \/ (b = r /\ pc'[b] = "done")
    BY <1>0, <1>5 DEF RpcStep, Call, Cancel, Answered, Unavailable, ScanTimesOut, Canceled,
                      AskRestart, Return, Goto
  <2>3. \A b \in Agents : pc'[b] \in {pc[b], "dead"} \/ (b = r /\ pc'[b] \in {"rpc", "lock", "done"})
    BY <1>0, <1>5 DEF RpcStep, Call, Cancel, Answered, Unavailable, ScanTimesOut, Canceled,
                      AskRestart, Return, Goto, Crash
  <2> QED BY <2>1, <2>2, <2>3, GenKept DEF GenInv, Waits, procVars, dsVars
<1>6. ASSUME NEW r \in Requests, RestartStep(r) PROVE GenInv'
  <2>1. CASE /\ UNCHANGED <<proc, abandoned, cur>>
             /\ \A b \in Agents : waitOn'[b] = waitOn[b] \/ (b = r /\ pc'[b] = "done")
             /\ \A b \in Agents : pc'[b] \in {pc[b], "dead"}
                                   \/ (b = r /\ pc'[b] \in {"check", "stopCheck", "done"})
    BY <2>1, GenKept DEF GenInv, Waits
  <2>2. CASE Lock(r) \/ CheckRestarted(r)
    BY <1>0, <2>1, <2>2 DEF Lock, CheckRestarted, Return, Goto, procVars, reqVars
  <2>3. CASE Verified(r) \/ VerifyGivesUp(r)
    BY <1>0, <2>1, <2>3 DEF Verified, VerifyGivesUp, Return, Goto, Crash, procVars, reqVars
  <2>4. CASE Restart(r)
    <3>0. /\ pc[r] = "start" /\ AllGone /\ holder = r
          /\ \A q \in Requests \ {r} : pc[q] \notin Critical
          /\ pc["New"] = "done" /\ pc["Close"] \notin {"closing", "done"}
      BY <2>4 DEF Restart, At, GenInv, LockInv, Critical, Stopping, PhaseInv
    <3>1. ASSUME NEW g \in Gens, Launch(g), Goto(r, "verify"), UNCHANGED <<holder, reqVars>>
          PROVE  GenInv'
      <4>1. \A b \in Agents : pc'[b] = IF b = r THEN "verify" ELSE pc[b]
        BY <1>0, <3>1 DEF Goto
      <4> QED BY <3>0, <3>1, <4>1, GenLaunch DEF Waits, Critical, Stopping, reqVars
    <3>2. CASE LaunchFails /\ Unlock /\ Return(r)
      <4>1. /\ \A b \in Agents : pc'[b] = IF b = r THEN "done" ELSE pc[b]
            /\ \A b \in Agents \ {r} : waitOn'[b] = waitOn[b]
            /\ cur' = 0 /\ UNCHANGED <<proc, abandoned>>
        BY <1>0, <3>2 DEF LaunchFails, Return, Goto, procVars
      <4>2. AllGone' /\ \A g \in Gens : Gone(g)'
        BY <3>0, <4>1 DEF AllGone, Gone
      <4>3. 0 \notin abandoned
        BY DEF TypeOK
      <4>4. \A b \in Requests \union {"New"} : pc'[b] \notin Waits
        BY <3>0, <4>1 DEF Waits, Critical, Stopping
      <4> QED BY <3>0, <4>1, <4>2, <4>3, <4>4 DEF GenInv, Waits
    <3> QED BY <2>4, <3>1, <3>2 DEF Restart
  <2> QED BY <1>6, <2>2, <2>3, <2>4 DEF RestartStep
<1> QED BY <1>1, <1>2, <1>3, <1>4, <1>5, <1>6, StepCases

-----------------------------------------------------------------------------
(* The theorems.                                                           *)

(* Before New runs there is no service and no request.                     *)
LEMMA ScannerInit == Init => ScannerInv
<1> SUFFICES ASSUME Init PROVE ScannerInv
  OBVIOUS
<1> USE AgentsApart DEF Init
<1>1. TypeOK
  <2>1. pc \in [Agents -> Place]
    BY DEF Place
  <2>2. managed \in BOOLEAN /\ client \in BOOLEAN /\ initCanceled \in BOOLEAN
    BY Zenon
  <2> QED BY <2>1, <2>2 DEF TypeOK, Place
<1>2. /\ \A a \in Agents \ {"New"} : pc[a] = "idle"
      /\ pc["New"] = IF managed THEN "start" ELSE "connect"
  OBVIOUS
<1>3. PhaseInv /\ UnmanagedInv /\ LockInv /\ CountInv
  BY <1>2 DEF PhaseInv, UnmanagedInv, LockInv, CountInv, Critical, Stopping
<1>4. GenInv
  BY <1>2 DEF GenInv, Gone, AllGone
<1> QED BY <1>1, <1>3, <1>4 DEF ScannerInv

(* The invariant of New, ProcessInputs and Close (depsscannerclient.go).   *)
THEOREM ScannerInvariant == Spec => []ScannerInv
<1>1. ScannerInv /\ [Next]_vars => ScannerInv'
  BY TypeStep, PhaseStep, UnmanagedStep, LockStep, CountStep, GenStep DEF ScannerInv
<1> QED BY ScannerInit, <1>1, PTL DEF Spec

(* stopService returns before startService is called: apart from what a    *)
(* failed constructor call left behind, only the current generation runs.  *)
THEOREM OneServiceRuns == Spec => []NoStrayService
<1>1. ScannerInv => NoStrayService
  BY DEF ScannerInv, GenInv, Gone, NoStrayService, Running
<1> QED BY <1>1, ScannerInvariant, PTL

(* When Close has returned without an error the service is gone, whatever  *)
(* restart a cancelled request was in the middle of.                       *)
THEOREM CloseStopsService == Spec => []ClosedMeansStopped
<1>1. ScannerInv => ClosedMeansStopped
  BY DEF ScannerInv, GenInv, AllGone, Gone, ClosedMeansStopped, Running, At
<1> QED BY <1>1, ScannerInvariant, PTL

(* restartService stops or starts the service only for a request that      *)
(* asked after the last verified restart, one at a time.                   *)
THEOREM RestartsAreShared == Spec => []WaitersShareRestart
<1>1. ScannerInv => WaitersShareRestart
  BY DEF ScannerInv, LockInv, Critical, Stopping, WaitersShareRestart
<1> QED BY <1>1, ScannerInvariant, PTL
=============================================================================
