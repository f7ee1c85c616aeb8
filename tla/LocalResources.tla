--------------------------- MODULE LocalResources ---------------------------
(***************************************************************************)
(* The local resource manager (internal/pkg/localresources/manager.go) and *)
(* LocalPool.Run (internal/pkg/reproxy/localexec.go): each local execution *)
(* takes CPUs and then memory from two weighted semaphores, and gives them *)
(* back.  A caller that waits can be cancelled at any time.                *)
(***************************************************************************)
EXTENDS Integers, Sequences, SequencesExt

CONSTANTS
  Callers,     \* the actions that may run locally
  Label,       \* Label[a]: the kind of action, from its labels
  Cpus, RAMMBs \* what NewManager is given

ASSUME PoolAssumption == IsFiniteSet(Callers) /\ Cpus \in Int /\ RAMMBs \in Int

Sems == {"cpu", "ram"}

(* The requirements of a kind of action.                                   *)
LblReqs(l) ==
  [cpu |-> IF l \in {"metalava", "javac", "r8", "d8"} THEN 8 ELSE 1,
   ram |-> IF l \in {"metalava", "clanglink"} THEN 8192
           ELSE IF l \in {"javac", "r8", "d8"} THEN 4096 ELSE 512]

AtLeastOne(n) == IF n > 1 THEN n ELSE 1
NewManager(cpus, ramMBs) == [cpu |-> AtLeastOne(cpus), ram |-> AtLeastOne(ramMBs)]
Total == NewManager(Cpus, RAMMBs)

(* What Lock asks of a semaphore: never more than there is.                *)
NotCapped(a, s) == LblReqs(Label[a])[s]
Capped(a, s) == IF NotCapped(a, s) > Total[s] THEN Total[s] ELSE NotCapped(a, s)
Req == [a \in Callers |-> [s \in Sems |-> Capped(a, s)]]

VARIABLES
  cur,     \* cur[s]: the tokens of semaphore s that are taken
  waiters, \* waiters[s]: the callers that queue for it, first come first served
  stage,   \* stage[a]: where the caller is in Lock, or in the function it returns
  at       \* at[a]: the semaphore it is at

poolVars == <<cur, waiters, stage, at>>

PoolInit ==
  /\ cur = [s \in Sems |-> 0]
  /\ waiters = [s \in Sems |-> <<>>]
  /\ stage = [a \in Callers |-> "idle"]
  /\ at = [a \in Callers |-> "cpu"]

(* The tokens of semaphore s that the callers in S ask for together.       *)
AllCallers == SetToSeq(Callers)
Sums(w) ==
  LET Sum[i \in 0..Len(w)] == IF i = 0 THEN 0 ELSE Sum[i - 1] + w[i] IN Sum
Weights(s, S) ==
  [i \in 1..Len(AllCallers) |-> IF AllCallers[i] \in S THEN Req[AllCallers[i]][s] ELSE 0]
Demand(s, S) == Sums(Weights(s, S))[Len(AllCallers)]

(* notifyWaiters: the longest prefix of the queue that the free tokens     *)
(* serve is granted; it stops at the first waiter that does not fit.       *)
First(q, k) == {q[i] : i \in 1..k}
Served(s, used, q) ==
  IF q = <<>> THEN 0 ELSE
  CHOOSE k \in 0..Len(q) :
    /\ Demand(s, First(q, k)) <= Total[s] - used
    /\ k < Len(q) => Demand(s, First(q, k + 1)) > Total[s] - used
NotifyWaiters(s, used, q, stages) ==
  LET k == Served(s, used, q)
  IN  /\ cur' = [cur EXCEPT ![s] = used + Demand(s, First(q, k))]
      /\ waiters' = [waiters EXCEPT ![s] = SubSeq(q, k + 1, Len(q))]
      /\ stage' = [a \in Callers |-> IF a \in First(q, k) THEN "granted" ELSE stages[a]]

(* A waiter leaves the queue.                                              *)
LeaveQueue(q, a) ==
  IF a \notin Range(q) THEN q ELSE RemoveAt(q, CHOOSE i \in DOMAIN q : q[i] = a)

Put(a, s, next) == NotifyWaiters(s, cur[s] - Req[a][s], waiters[s], [stage EXCEPT ![a] = next])

(* Acquire returned nil: on to the next semaphore, or the lock is held.    *)
Acquired(a) ==
  IF at[a] = "cpu" THEN stage' = [stage EXCEPT ![a] = "acquire"] /\ at' = [at EXCEPT ![a] = "ram"]
                   ELSE stage' = [stage EXCEPT ![a] = "held"] /\ UNCHANGED at

LockErrorLeaves(a) == "failed"

(* Acquire returned an error: the CPUs are given back if it was for RAM.   *)
LockError(a) == IF at[a] = "ram" THEN "undo" ELSE "failed"

(* Lock begins with the CPUs.                                              *)
Fits(a, s) == Total[s] - cur[s] >= Req[a][s] /\ waiters[s] = <<>>
Acquire(a, cancelled) ==
  /\ stage[a] \in {"idle", "acquire"}
  /\ LET s == at[a] IN
     \/ /\ cancelled
        /\ stage' = [stage EXCEPT ![a] = LockError(a)]
        /\ UNCHANGED <<cur, waiters, at>>
     \/ /\ ~cancelled /\ Fits(a, s)
        /\ cur' = [cur EXCEPT ![s] = @ + Req[a][s]]
        /\ Acquired(a)
        /\ UNCHANGED waiters
     \/ /\ ~cancelled /\ ~Fits(a, s)
        /\ waiters' = IF Req[a][s] > Total[s] THEN waiters ELSE [waiters EXCEPT ![s] = Append(@, a)]
        /\ stage' = [stage EXCEPT ![a] = "wait"]
        /\ UNCHANGED <<cur, at>>

(* A waiter wakes: it was granted its tokens, and keeps them unless it was *)
(* cancelled meanwhile, or it is cancelled while it waits.                 *)
Wake(a, cancelled) ==
  /\ LET s == at[a] IN
     \/ stage[a] = "granted" /\ ~cancelled /\ Acquired(a) /\ UNCHANGED <<cur, waiters>>
     \/ stage[a] = "granted" /\ cancelled /\ Put(a, s, LockError(a)) /\ UNCHANGED at
     \/ /\ stage[a] = "wait" /\ cancelled
        /\ NotifyWaiters(s, cur[s], LeaveQueue(waiters[s], a), [stage EXCEPT ![a] = LockError(a)])
        /\ UNCHANGED at

GiveBackCPUs(a) ==
  /\ stage[a] = "undo"
  /\ Put(a, "cpu", "failed")
  /\ UNCHANGED at

(* The function that Lock returns: the CPUs first, then the memory.        *)
Release(a) ==
  /\ \/ stage[a] = "held" /\ Put(a, "cpu", "release")
     \/ stage[a] = "release" /\ Put(a, "ram", "released")
  /\ UNCHANGED at

(* LocalPool.Run has returned to its caller.                               *)
PoolReturn(a) ==
  /\ stage[a] \in {"failed", "released"}
  /\ stage' = [stage EXCEPT ![a] = "idle"]
  /\ at' = [at EXCEPT ![a] = "cpu"]
  /\ UNCHANGED <<cur, waiters>>

-----------------------------------------------------------------------------
(* What a caller holds of a semaphore.                                     *)
Holds(a, s) ==
  \/ stage[a] = "held"
  \/ stage[a] = "granted" /\ at[a] = s
  \/ s = "cpu" /\ at[a] = "ram" /\ stage[a] \in {"acquire", "wait", "granted", "undo"}
  \/ s = "ram" /\ stage[a] = "release"

(* The tokens of each semaphore are exactly those of its holders and never *)
(* more than there are: whichever of the two acquisitions fails, whether   *)
(* the caller was queued or already granted, nothing is lost and nothing   *)
(* is given back twice (manager.go:71-81).                                 *)
TokensConserved ==
  \A s \in Sems :
    /\ cur[s] = Demand(s, {a \in Callers : Holds(a, s)})
    /\ cur[s] <= Total[s]
=============================================================================
