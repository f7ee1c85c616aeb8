------------------------------ MODULE Admission ------------------------------
(***************************************************************************)
(* The commands of FailEarly on the local resources of LocalResources:     *)
(* every local execution of an admitted action, the first one of LOCAL and *)
(* a fallback, is a LocalPool.Run under the context that the build failure *)
(* or the client cancels; the local runs of raced actions (Race) compete   *)
(* for the same resources, and are cancelled when the remote side wins.    *)
(***************************************************************************)
EXTENDS FailEarly, LocalResources

CONSTANT Racers  \* raced actions, beside the Actions of FailEarly
VARIABLE race    \* race[r]: "lost" once cCtx is cancelled, "over" when the local run has returned

ASSUME AdmissionAssumption == Callers = Actions \union Racers

allVars == <<vars, poolVars, race>>
AdmissionInit == Init /\ PoolInit /\ race = [r \in Racers |-> "on"]

(* LocalPool.Run while it holds or waits for resources.                    *)
PoolRun(a, stopped) ==
  GiveBackCPUs(a) \/ Release(a) \/ Acquire(a, stopped) \/ Wake(a, stopped)
PoolStep(a) ==
  /\ cmd[a] \in {"local", "fallback"}
  /\ PoolRun(a, a \in cancelled)
  /\ UNCHANGED <<vars, race>>
LocalRunReturns(a) ==
  /\ PoolReturn(a)
  /\ cmd[a] \in {"local", "fallback"}
  /\ RunEnds(a) \/ FallbackEnds(a)
  /\ UNCHANGED race
RemoteReturns(a) ==
  /\ cmd[a] = "remote"
  /\ RunEnds(a)
  /\ UNCHANGED <<poolVars, race>>
CommandStep(a) == RunCommand(a) /\ UNCHANGED <<poolVars, race>>

(* runLocalRace: the lock is taken under cCtx.                             *)
RacerStep(r) ==
  \/ race[r] # "over" /\ PoolRun(r, race[r] = "lost") /\ UNCHANGED <<vars, race>>
  \/ PoolReturn(r) /\ race' = [race EXCEPT ![r] = "over"] /\ UNCHANGED vars
RemoteWinsRace(r) ==
  /\ race[r] = "on" /\ stage[r] \in {"idle", "acquire", "wait", "granted"}
  /\ race' = [race EXCEPT ![r] = "lost"]
  /\ UNCHANGED <<vars, poolVars>>

MonitorStep(A) == A /\ UNCHANGED <<poolVars, race>>
AdmissionNext ==
  \/ \E a \in Actions : PoolStep(a) \/ LocalRunReturns(a) \/ RemoteReturns(a) \/ CommandStep(a)
  \/ \E r \in Racers : RacerStep(r) \/ RemoteWinsRace(r)
  \/ MonitorStep(MonitorFailBuildConditions)
  \/ MonitorStep(Expire)
  \/ \E a \in Actions : MonitorStep(ClientCancels(a))

(* The goroutine of each command and racer runs on: a remote execution     *)
(* ends (by the reclient timeout at the latest), a local command that runs *)
(* ends too, the client retries, and the monitor gives its lock back.      *)
AdmissionFairness ==
  /\ \A a \in Actions :
       WF_allVars(PoolStep(a) \/ LocalRunReturns(a) \/ RemoteReturns(a) \/ CommandStep(a))
  /\ \A r \in Racers : WF_allVars(RacerStep(r))
  /\ WF_allVars(MonitorStep(CancelNext \/ RangeEnds))
AdmissionSpec == AdmissionInit /\ [][AdmissionNext]_allVars /\ AdmissionFairness

-----------------------------------------------------------------------------
(* Every command ends: nobody waits for ever for resources, since the      *)
(* request of one who asks for more than the machine has is capped, and a  *)
(* waiter who is cancelled leaves the queue, or hands on what he was just  *)
(* granted (manager.go:66-77).                                             *)
EveryCommandEnds ==
  <>((\A a \in Actions : cmd[a] = "done") /\ (\A r \in Racers : race[r] = "over"))

=============================================================================
