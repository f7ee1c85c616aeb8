--------------------------- MODULE FailEarlyProofs ---------------------------
(***************************************************************************)
(* Proofs about FailEarly, for any number of commands and any limits: no   *)
(* action escapes a failed build, a build fails for its fallbacks only     *)
(* when they really reached the ratio, and the limit is exceeded only by   *)
(* commands that pass it together.  Admission implements FailEarly, so all *)
(* of it holds of commands that queue for the local resources too, and the *)
(* tokens of these are conserved.                                          *)
(***************************************************************************)
EXTENDS Admission, FiniteSetTheorems, WellFoundedInduction, TLAPS

USE FailEarlyAssumption

(* The ratio grows with the fallbacks: if fewer already reach it, more do. *)
LEMMA RatioMonotone ==
  ASSUME NEW f \in Nat, NEW g \in Nat, NEW n \in Nat, f <= g, RatioReached(f, n)
  PROVE  RatioReached(g, n)
<1>1. f * RatioDen <= g * RatioDen
  <2>1. PICK d \in Nat : g = f + d
    <3>1. g - f \in Nat /\ g = f + (g - f)
      OBVIOUS
    <3> QED BY <3>1
  <2>2. g * RatioDen = f * RatioDen + d * RatioDen
    BY <2>1, SMTT(30)
  <2>3. d * RatioDen \in Nat /\ f * RatioDen \in Nat
    BY <2>1, SMTT(30)
  <2> QED BY <2>2, <2>3
<1>2. f * RatioDen \in Nat /\ g * RatioDen \in Nat /\ RatioNum * n \in Nat
  BY SMTT(30)
<1>3. f * RatioDen >= RatioNum * n
  BY DEF RatioReached
<1> DEFINE x == f * RatioDen
           y == g * RatioDen
           z == RatioNum * n
<1>4. x \in Nat /\ y \in Nat /\ z \in Nat /\ x <= y /\ x >= z
  BY <1>1, <1>2, <1>3
<1> HIDE DEF x, y, z
<1>5. y >= z
  BY <1>4
<1> QED BY <1>5 DEF y, z, RatioReached

(* Every initial state is of the types.                                    *)
LEMMA TypeInit == Init => TypeOK
<1> SUFFICES ASSUME Init PROVE TypeOK
  OBVIOUS
<1>1. window \in BOOLEAN /\ failBuild \in BOOLEAN /\ crowded \in BOOLEAN /\ real \in BOOLEAN
  BY Zenon DEF Init
<1>2. 0 \in Nat /\ 0 \in Int
  OBVIOUS
<1> QED BY <1>1, <1>2, Zenon DEF Init, TypeOK

(* Every step keeps them.                                                  *)
LEMMA TypeStep == TypeOK /\ [Next]_vars => TypeOK'
<1> SUFFICES ASSUME TypeOK, [Next]_vars PROVE TypeOK'
  OBVIOUS
<1> USE DEF TypeOK, Goto, monVars, countVars, regVars
<1>1. ASSUME NEW a \in Actions, RunCommand(a) PROVE TypeOK'
  <2>1. CASE RejectInvalid(a) \/ CheckLimit(a) \/ Retry(a) \/ ShouldFailBuild(a)
    BY <2>1 DEF RejectInvalid, CheckLimit, Retry, ShouldFailBuild
  <2>2. CASE Store(a) \/ Count(a)
    BY <2>2 DEF Store, Count
  <2>3. CASE ProcessInputs(a)
    BY <2>3 DEF ProcessInputs, AfterError
  <2>4. CASE CountAction(a)
    BY <2>4 DEF CountAction
  <2>5. CASE Delete(a) \/ Uncount(a)
    BY <2>5 DEF Delete, Uncount
  <2> QED BY <1>1, <2>1, <2>2, <2>3, <2>4, <2>5 DEF RunCommand
<1>2. ASSUME NEW a \in Actions, RunEnds(a) \/ FallbackEnds(a) \/ ClientCancels(a) PROVE TypeOK'
  <2>1. AfterRun(a) \subseteq {"leaving", "fallback"}
    BY DEF AfterRun
  <2> QED BY <1>2, <2>1 DEF RunEnds, FallbackEnds, ClientCancels
<1>3. CASE MonitorFailBuildConditions
  <2>1. RatioReached(numFallbacks, numActions) \in BOOLEAN
    BY DEF RatioReached
  <2>2. CASE LoadFallbacks
    BY <2>2 DEF LoadFallbacks
  <2>3. CASE LoadActions
    BY <2>1, <2>3 DEF LoadActions
  <2>4. CASE LoadTimeouts
    <3>1. failBuild' \in BOOLEAN /\ real' \in BOOLEAN
      BY <2>4, Zenon DEF LoadTimeouts, CheckReturns
    <3>2. monitor' \in {"idle", "cancelling"} /\ toVisit' \subseteq Actions /\ nf' \in Nat /\ na' \in Nat
      BY <2>4 DEF LoadTimeouts, CheckReturns
    <3>3. UNCHANGED <<cmd, window, cancelled, countVars, ticks, regVars>>
      BY <2>4 DEF LoadTimeouts
    <3> QED BY <3>1, <3>2, <3>3
  <2>5. CASE CancelNext
    BY <2>5 DEF CancelNext
  <2>6. CASE RangeEnds
    BY <2>6 DEF RangeEnds, CheckReturns
  <2> QED BY <1>3, <2>2, <2>3, <2>4, <2>5, <2>6 DEF MonitorFailBuildConditions
<1>4. CASE Expire
  BY <1>4 DEF Expire
<1>5. CASE UNCHANGED vars
  BY <1>5 DEF vars
<1> QED BY <1>1, <1>2, <1>3, <1>4, <1>5 DEF Next

(* Type correctness of the admission of commands and of the monitor.       *)
THEOREM TypeCorrect == Spec => []TypeOK
BY TypeInit, TypeStep, PTL DEF Spec

-----------------------------------------------------------------------------
(* What the switch rests on: an action that runs is stored, so that a      *)
(* Range that starts after failBuild is set reaches it.                    *)
Registered == \A a \in Actions : cmd[a] \in Running \union {"stored", "counted", "leaving", "logged"} => a \in active
EscapeInv == TypeOK /\ Registered /\ NoActionEscapes

(* Once the build fails no action runs that is not cancelled (or about to  *)
(* be), whatever the interleaving of RunCommand and the monitor, and for   *)
(* any number of commands.                                                 *)
THEOREM NoEscape == Spec => []NoActionEscapes
<1>1. Init => EscapeInv
  <2> SUFFICES ASSUME Init PROVE EscapeInv
    OBVIOUS
  <2>1. TypeOK
    BY TypeInit
  <2>2. Registered /\ NoActionEscapes
    BY DEF Init, Registered, Running, NoActionEscapes, At
  <2> QED BY <2>1, <2>2 DEF EscapeInv
<1>2. EscapeInv /\ [Next]_vars => EscapeInv'
  <2> SUFFICES ASSUME EscapeInv, [Next]_vars PROVE EscapeInv'
    OBVIOUS
  <2>1. TypeOK' /\ TypeOK
    BY TypeStep DEF EscapeInv
  <2> USE DEF EscapeInv, Registered, NoActionEscapes, At, Running, Goto, monVars, countVars, regVars
  <2>2. ASSUME NEW a \in Actions, RunCommand(a) PROVE (Registered /\ NoActionEscapes)'
    <3>1. CASE RejectInvalid(a) \/ CheckLimit(a) \/ Retry(a)
      BY <2>1, <3>1 DEF TypeOK, RejectInvalid, CheckLimit, Retry
    <3>2. CASE Store(a) \/ Count(a)
      BY <2>1, <3>2 DEF TypeOK, Store, Count
    <3>3. CASE ShouldFailBuild(a)
      BY <2>1, <3>3 DEF TypeOK, ShouldFailBuild
    <3>4. CASE ProcessInputs(a)
      BY <2>1, <3>4 DEF TypeOK, ProcessInputs, AfterError
    <3>5. CASE CountAction(a)
      BY <2>1, <3>5 DEF TypeOK, CountAction
    <3>6. CASE Delete(a) \/ Uncount(a)
      BY <2>1, <3>6 DEF TypeOK, Delete, Uncount
    <3> QED BY <2>2, <3>1, <3>2, <3>3, <3>4, <3>5, <3>6 DEF RunCommand
  <2>3. ASSUME NEW a \in Actions, RunEnds(a) \/ FallbackEnds(a) \/ ClientCancels(a)
        PROVE (Registered /\ NoActionEscapes)'
    <3>1. AfterRun(a) \subseteq {"leaving", "fallback"}
      BY DEF AfterRun
    <3>2. CASE RunEnds(a)
      BY <2>1, <3>1, <3>2 DEF TypeOK, RunEnds
    <3>3. CASE FallbackEnds(a)
      BY <2>1, <3>3 DEF TypeOK, FallbackEnds
    <3>4. CASE ClientCancels(a)
      BY <2>1, <3>4 DEF TypeOK, ClientCancels
    <3> QED BY <2>3, <3>2, <3>3, <3>4
  <2>4. CASE MonitorFailBuildConditions
    <3>1. CASE LoadFallbacks \/ LoadActions
      BY <2>1, <3>1 DEF TypeOK, LoadFallbacks, LoadActions
    <3>2. CASE LoadTimeouts
      BY <2>1, <3>2 DEF TypeOK, LoadTimeouts, CheckReturns
    <3>3. CASE CancelNext
      BY <2>1, <3>3 DEF TypeOK, CancelNext
    <3>4. CASE RangeEnds
      BY <2>1, <3>4 DEF TypeOK, RangeEnds, CheckReturns
    <3> QED BY <2>4, <3>1, <3>2, <3>3, <3>4 DEF MonitorFailBuildConditions
  <2>5. CASE Expire
    BY <2>1, <2>5 DEF TypeOK, Expire
  <2>6. CASE UNCHANGED vars
    BY <2>1, <2>6 DEF TypeOK, vars
  <2> QED BY <2>1, <2>2, <2>3, <2>4, <2>5, <2>6 DEF Next
<1>3. EscapeInv => NoActionEscapes
  BY DEF EscapeInv
<1> QED BY <1>1, <1>2, <1>3, PTL DEF Spec

-----------------------------------------------------------------------------
(* What the monitor has loaded: without a window the fallbacks only grow,  *)
(* so nf is at most what there is when na is loaded.                       *)
LoadedInOrder ==
  ~window =>
    /\ monitor = "nf" => nf <= numFallbacks
    /\ monitor = "na" => (RatioReached(nf, na) => real)
    /\ (monitor = "cancelling" /\ numIPTimeouts <= AllowedIPTimeouts) => real
RatioInv == TypeOK /\ LoadedInOrder

(* A build fails for its fallbacks only if at one moment the ratio was     *)
(* really reached: the order in which the counters are loaded matters.     *)
THEOREM FailureIsJustified == Spec => []FallbackFailureJustified
<1>1. Init => RatioInv
  BY TypeInit DEF Init, RatioInv, LoadedInOrder
<1>2. RatioInv /\ [Next]_vars => RatioInv'
  <2> SUFFICES ASSUME RatioInv, [Next]_vars PROVE RatioInv'
    OBVIOUS
  <2>1. TypeOK' /\ TypeOK /\ LoadedInOrder
    BY TypeStep DEF RatioInv
  <2>2. CASE UNCHANGED <<window, monitor, nf, na, real>> /\ numFallbacks' >= numFallbacks /\ numIPTimeouts' >= numIPTimeouts
    <3>1. nf <= numFallbacks => nf <= numFallbacks'
      BY <2>1, <2>2 DEF TypeOK
    <3>2. numIPTimeouts' <= AllowedIPTimeouts => numIPTimeouts <= AllowedIPTimeouts
      BY <2>1, <2>2 DEF TypeOK
    <3>3. RatioReached(nf, na)' = RatioReached(nf, na)
      BY <2>2 DEF RatioReached
    <3> QED BY <2>1, <2>2, <3>1, <3>2, <3>3 DEF LoadedInOrder, RatioInv
  <2>3. ASSUME NEW a \in Actions, RunCommand(a) \/ RunEnds(a) \/ FallbackEnds(a) \/ ClientCancels(a)
        PROVE  RatioInv'
    <3>1. UNCHANGED <<window, monitor, nf, na, real>>
      BY <2>3 DEF RunCommand, RejectInvalid, CheckLimit, Retry, Store, Count, ShouldFailBuild,
         ProcessInputs, RunEnds,
                  FallbackEnds, CountAction, Delete, Uncount, ClientCancels, monVars
    <3>2. numFallbacks' \in {numFallbacks, numFallbacks + 1} /\ numIPTimeouts' \in {numIPTimeouts, numIPTimeouts + 1}
      BY <2>3 DEF RunCommand, RejectInvalid, CheckLimit, Retry, Store, Count, ShouldFailBuild,
         ProcessInputs, RunEnds,
                  FallbackEnds, CountAction, Delete, Uncount, ClientCancels, countVars
    <3>3. numFallbacks' >= numFallbacks /\ numIPTimeouts' >= numIPTimeouts
      BY <2>1, <3>2 DEF TypeOK
    <3> QED BY <2>2, <3>1, <3>3
  <2>4. CASE LoadFallbacks
    BY <2>1, <2>4 DEF LoadFallbacks, RatioInv, LoadedInOrder, TypeOK, countVars
  <2>5. CASE LoadActions
    <3>1. ASSUME ~window, RatioReached(nf', na') PROVE RatioReached(numFallbacks, numActions)
      BY <2>1, <2>5, <3>1, RatioMonotone DEF LoadActions, LoadedInOrder, TypeOK
    <3>2. ASSUME ~window, RatioReached(nf', na') PROVE real'
      BY <2>5, <3>1, <3>2 DEF LoadActions
    <3>3. monitor' = "na" /\ window' = window
      BY <2>5 DEF LoadActions
    <3>4. RatioReached(nf, na)' = RatioReached(nf', na')
      BY DEF RatioReached
    <3> QED BY <2>1, <3>2, <3>3, <3>4 DEF RatioInv, LoadedInOrder
  <2>6. CASE LoadTimeouts
    <3>1. CASE TooMany(numIPTimeouts)
      <4>1. window' = window /\ monitor' = "cancelling" /\ real' = real /\ numIPTimeouts' = numIPTimeouts /\ monitor = "na"
        BY <2>6, <3>1 DEF LoadTimeouts, countVars
      <4>2. numIPTimeouts <= AllowedIPTimeouts => RatioReached(nf, na)
        BY <2>1, <3>1 DEF TooMany, TypeOK
      <4> QED BY <2>1, <4>1, <4>2 DEF RatioInv, LoadedInOrder
    <3>2. CASE ~TooMany(numIPTimeouts)
      <4>1. monitor' = "idle"
        BY <2>6, <3>2 DEF LoadTimeouts, CheckReturns
      <4> QED BY <2>1, <4>1 DEF RatioInv, LoadedInOrder
    <3> QED BY <3>1, <3>2
  <2>7. CASE CancelNext
    <3>1. UNCHANGED <<window, monitor, nf, na, real, numFallbacks, numIPTimeouts>>
      BY <2>7 DEF CancelNext, countVars
    <3> QED BY <2>1, <2>2, <3>1 DEF TypeOK
  <2>8. CASE RangeEnds
    BY <2>1, <2>8 DEF RangeEnds, CheckReturns, RatioInv, LoadedInOrder
  <2>9. CASE Expire
    BY <2>1, <2>9 DEF Expire, RatioInv, LoadedInOrder
  <2>10. CASE UNCHANGED vars
    <3>1. UNCHANGED <<window, monitor, nf, na, real, numFallbacks, numIPTimeouts>>
      BY <2>10 DEF vars, monVars, countVars
    <3> QED BY <2>1, <2>2, <3>1 DEF TypeOK
  <2> QED BY <2>3, <2>4, <2>5, <2>6, <2>7, <2>8, <2>9, <2>10 DEF Next, MonitorFailBuildConditions
<1>3. RatioInv => FallbackFailureJustified
  BY DEF RatioInv, LoadedInOrder, FallbackFailureJustified
<1> QED BY <1>1, <1>2, <1>3, PTL DEF Spec
-----------------------------------------------------------------------------
(* The commands that have passed the check of the limit and are not        *)
(* counted yet.  Without a crowd there is at most one, and there was room  *)
(* for it.                                                                 *)
RoomForChecked ==
  ~crowded =>
    /\ numActive <= MaxThreads
    /\ \A a \in At({"checked", "stored"}) : numActive < MaxThreads
    /\ \A a, b \in At({"checked", "stored"}) : a = b
LimitInv == TypeOK /\ RoomForChecked

(* Commands that pass the limit one at a time never exceed it.             *)
THEOREM LimitHolds == Spec => []LimitExceededOnlyByCrowd
<1>1. Init => LimitInv
  <2> SUFFICES ASSUME Init PROVE LimitInv
    OBVIOUS
  <2>1. RoomForChecked
    BY DEF Init, RoomForChecked, At
  <2> QED BY <2>1, TypeInit DEF LimitInv
<1>2. LimitInv /\ [Next]_vars => LimitInv'
  <2> SUFFICES ASSUME LimitInv, [Next]_vars PROVE LimitInv'
    OBVIOUS
  <2>1. TypeOK' /\ TypeOK /\ RoomForChecked
    BY TypeStep DEF LimitInv
  <2>2. CASE /\ UNCHANGED <<crowded, numActive>>
             /\ At({"checked", "stored"})' \subseteq At({"checked", "stored"})
    BY <2>1, <2>2 DEF RoomForChecked, LimitInv
  <2> USE DEF At, Goto, regVars
  <2>3. ASSUME NEW a \in Actions, RunCommand(a) PROVE LimitInv'
    <3>1. CASE RejectInvalid(a) \/ Retry(a) \/ ShouldFailBuild(a) \/ ProcessInputs(a)
                 \/ CountAction(a)
      <4>1. At({"checked", "stored"})' \subseteq At({"checked", "stored"}) /\ UNCHANGED <<crowded, numActive>>
        BY <2>1, <3>1 DEF TypeOK, RejectInvalid, Retry, ShouldFailBuild, ProcessInputs,
           AfterError, CountAction
      <4> QED BY <2>2, <4>1
    <3>2. CASE CheckLimit(a)
      BY <2>1, <3>2 DEF TypeOK, CheckLimit, Full, RoomForChecked, LimitInv
    <3>3. CASE Store(a) \/ Delete(a)
      <4>1. At({"checked", "stored"})' \subseteq At({"checked", "stored"}) /\ UNCHANGED <<crowded, numActive>>
        BY <2>1, <3>3 DEF TypeOK, Store, Delete
      <4> QED BY <2>2, <4>1
    <3>4. CASE Count(a)
      BY <2>1, <3>4 DEF TypeOK, Count, RoomForChecked, LimitInv
    <3>5. CASE Uncount(a)
      BY <2>1, <3>5 DEF TypeOK, Uncount, RoomForChecked, LimitInv
    <3> QED BY <2>3, <3>1, <3>2, <3>3, <3>4, <3>5 DEF RunCommand
  <2>4. ASSUME NEW a \in Actions, RunEnds(a) \/ FallbackEnds(a) \/ ClientCancels(a) PROVE LimitInv'
    <3>1. AfterRun(a) \subseteq {"leaving", "fallback"}
      BY DEF AfterRun
    <3>2. At({"checked", "stored"})' \subseteq At({"checked", "stored"}) /\ UNCHANGED <<crowded, numActive>>
      BY <2>1, <2>4, <3>1 DEF TypeOK, RunEnds, FallbackEnds, ClientCancels
    <3> QED BY <2>2, <3>2
  <2>5. CASE MonitorFailBuildConditions \/ Expire \/ UNCHANGED vars
    <3>1. UNCHANGED <<cmd, crowded, numActive>>
      BY <2>5 DEF MonitorFailBuildConditions, LoadFallbacks, LoadActions, LoadTimeouts,
         CancelNext, RangeEnds, Expire, vars
    <3> QED BY <2>2, <3>1
  <2> QED BY <2>3, <2>4, <2>5 DEF Next
<1>3. LimitInv => LimitExceededOnlyByCrowd
  BY DEF LimitInv, RoomForChecked, LimitExceededOnlyByCrowd
<1> QED BY <1>1, <1>2, <1>3, PTL DEF Spec

-----------------------------------------------------------------------------
(* numActiveActions and activeActions are kept apart, an atomic counter    *)
(* and a map that are changed one after the other: the map is ahead of the *)
(* counter when an action comes and when it goes.  The keys of the map are *)
(* the actions from Store to Delete, the counter is the number of those    *)
(* from Count to Uncount.                                                  *)
InFlight == At({"counted", "inputs", "remote", "local", "fallback", "leaving", "logged"})
Counted == InFlight \union At({"deleted"})
CountTrailsMap ==
  /\ active = InFlight \union At({"stored"})
  /\ IsFiniteSet(Counted) /\ numActive = Cardinality(Counted)
CountInv == TypeOK /\ CountTrailsMap

(* At every moment the map and the counter differ only by the commands     *)
(* that are between the two steps of their registration or of their        *)
(* removal: the limit is checked against a number that has not seen the    *)
(* stored ones and still has the deleted ones, that never goes below zero, *)
(* and of which a refused command leaves no trace (server.go:513-526).     *)
THEOREM CounterTrailsMap == Spec => []CountTrailsMap
<1>1. Init => CountInv
  <2> SUFFICES ASSUME Init PROVE CountInv
    OBVIOUS
  <2>1. CountTrailsMap
    BY FS_EmptySet DEF Init, CountTrailsMap, Counted, InFlight, At
  <2> QED BY <2>1, TypeInit DEF CountInv
<1>2. CountInv /\ [Next]_vars => CountInv'
  <2> SUFFICES ASSUME CountInv, [Next]_vars PROVE CountInv'
    OBVIOUS
  <2>1. TypeOK' /\ TypeOK /\ CountTrailsMap
    BY TypeStep DEF CountInv
  <2> DEFINE Map == InFlight \union At({"stored"})
  <2>2. CASE UNCHANGED <<active, numActive>> /\ Counted' = Counted /\ Map' = Map
    BY <2>1, <2>2 DEF CountTrailsMap, CountInv
  <2> USE DEF Goto, regVars
  <2>3. ASSUME NEW a \in Actions, RunCommand(a) PROVE CountInv'
    <3>1. CASE RejectInvalid(a) \/ CheckLimit(a) \/ Retry(a)
      <4>1. Counted' = Counted /\ Map' = Map /\ UNCHANGED <<active, numActive>>
        BY <2>1, <3>1 DEF TypeOK, RejectInvalid, CheckLimit, Retry, Counted, InFlight, At
      <4> QED BY <2>2, <4>1
    <3>2. CASE ShouldFailBuild(a) \/ ProcessInputs(a) \/ CountAction(a)
      <4>1. Counted' = Counted /\ Map' = Map /\ UNCHANGED <<active, numActive>>
        BY <2>1, <3>2 DEF TypeOK, ShouldFailBuild, ProcessInputs, AfterError, CountAction,
           Counted, InFlight, At
      <4> QED BY <2>2, <4>1
    <3>3. CASE Store(a)
      <4>1. Counted' = Counted /\ Map' = Map \union {a}
        BY <2>1, <3>3 DEF TypeOK, Store, Counted, InFlight, At
      <4>2. active' = active \union {a} /\ numActive' = numActive
        BY <3>3 DEF Store
      <4> QED BY <2>1, <4>1, <4>2 DEF CountTrailsMap, CountInv
    <3>4. CASE Delete(a)
      <4>1. Counted' = Counted /\ Map' = Map \ {a}
        BY <2>1, <3>4 DEF TypeOK, Delete, Counted, InFlight, At
      <4>2. active' = active \ {a} /\ numActive' = numActive
        BY <3>4 DEF Delete
      <4> QED BY <2>1, <4>1, <4>2 DEF CountTrailsMap, CountInv
    <3>5. CASE Count(a)
      <4>1. a \notin Counted /\ Counted' = Counted \union {a} /\ Map' = Map
        BY <2>1, <3>5 DEF TypeOK, Count, Counted, InFlight, At
      <4>2. IsFiniteSet(Counted \union {a}) /\ Cardinality(Counted \union {a}) = Cardinality(Counted) + 1
        BY <2>1, <4>1, FS_AddElement DEF CountTrailsMap
      <4>3. active' = active /\ numActive' = numActive + 1
        BY <3>5 DEF Count
      <4> QED BY <2>1, <4>1, <4>2, <4>3 DEF CountTrailsMap, CountInv
    <3>6. CASE Uncount(a)
      <4>1. a \in Counted /\ Counted' = Counted \ {a} /\ Map' = Map
        BY <2>1, <3>6 DEF TypeOK, Uncount, Counted, InFlight, At
      <4>2. IsFiniteSet(Counted \ {a}) /\ Cardinality(Counted \ {a}) = Cardinality(Counted) - 1
        BY <2>1, <4>1, FS_RemoveElement DEF CountTrailsMap
      <4>3. active' = active /\ numActive' = numActive - 1
        BY <3>6 DEF Uncount
      <4> QED BY <2>1, <4>1, <4>2, <4>3 DEF CountTrailsMap, CountInv
    <3> QED BY <2>3, <3>1, <3>2, <3>3, <3>4, <3>5, <3>6 DEF RunCommand
  <2>4. ASSUME NEW a \in Actions, RunEnds(a) \/ FallbackEnds(a) \/ ClientCancels(a) PROVE CountInv'
    <3>1. AfterRun(a) \subseteq {"leaving", "fallback"}
      BY DEF AfterRun
    <3>2. Counted' = Counted /\ Map' = Map /\ UNCHANGED <<active, numActive>>
      BY <2>1, <2>4, <3>1 DEF TypeOK, RunEnds, FallbackEnds, ClientCancels, Counted, InFlight, At
    <3> QED BY <2>2, <3>2
  <2>5. CASE MonitorFailBuildConditions \/ Expire \/ UNCHANGED vars
    <3>1. UNCHANGED <<cmd, active, numActive>>
      BY <2>5 DEF MonitorFailBuildConditions, LoadFallbacks, LoadActions, LoadTimeouts,
         CancelNext, RangeEnds, Expire, vars
    <3> QED BY <2>2, <3>1 DEF Counted, InFlight, At
  <2> QED BY <2>3, <2>4, <2>5 DEF Next
<1> QED BY <1>1, <1>2, PTL DEF Spec, CountInv

(***************************************************************************)
(* The composition with the local resources.                               *)
(***************************************************************************)
(* The commands that run on LocalPool are commands of FailEarly: to wait   *)
(* for resources, to hold and to release them, and a racer that competes   *)
(* for them, change nothing RunCommand or the monitor look at, and a       *)
(* command that has returned from LocalPool.Run takes its own next step    *)
(* (server.go:500-540, localpool.go Run).                                  *)
THEOREM AdmissionImplementsFailEarly == AdmissionSpec => Spec
<1>1. AdmissionInit => Init
  BY DEF AdmissionInit
<1>2. [AdmissionNext]_allVars => [Next]_vars
  <2> SUFFICES ASSUME [AdmissionNext]_allVars PROVE [Next]_vars
    OBVIOUS
  <2>1. ASSUME NEW a \in Actions, PoolStep(a) PROVE UNCHANGED vars
    BY <2>1 DEF PoolStep
  <2>2. ASSUME NEW a \in Actions, LocalRunReturns(a) PROVE Next
    BY <2>2 DEF LocalRunReturns, Next
  <2>3. ASSUME NEW a \in Actions, RemoteReturns(a) PROVE Next
    BY <2>3 DEF RemoteReturns, Next
  <2>4. ASSUME NEW a \in Actions, CommandStep(a) PROVE Next
    BY <2>4 DEF CommandStep, Next
  <2>5. ASSUME NEW r \in Racers, RacerStep(r) \/ RemoteWinsRace(r) PROVE UNCHANGED vars
    BY <2>5 DEF RacerStep, RemoteWinsRace
  <2>6. ASSUME MonitorStep(MonitorFailBuildConditions) \/ MonitorStep(Expire) PROVE Next
    BY <2>6 DEF MonitorStep, Next
  <2>7. ASSUME NEW a \in Actions, MonitorStep(ClientCancels(a)) PROVE Next
    BY <2>7 DEF MonitorStep, Next
  <2>8. CASE UNCHANGED allVars
    BY <2>8 DEF allVars
  <2> QED BY <2>1, <2>2, <2>3, <2>4, <2>5, <2>6, <2>7, <2>8 DEF AdmissionNext
<1> QED BY <1>1, <1>2, PTL DEF AdmissionSpec, Spec

(* So the guarantees of the failed build, of the limit and of its counter  *)
(* and of the ratio hold with every local run queued for CPUs and memory:  *)
(* no wait in the pool lets an action escape (server.go:285, 513-525).     *)
THEOREM AdmissionIsSafe ==
  AdmissionSpec => [](/\ NoActionEscapes /\ LimitExceededOnlyByCrowd
                      /\ FallbackFailureJustified /\ CountTrailsMap)
BY AdmissionImplementsFailEarly, NoEscape, LimitHolds, FailureIsJustified, CounterTrailsMap, PTL

-----------------------------------------------------------------------------
(* The tokens of the local resources.  They are a sum over the holders,    *)
(* which is a recursion; facts about it are proved by induction, and that  *)
(* rests on the least element of a set of numbers.                         *)

(* Every set of natural numbers that is not empty has a least element.     *)
LEMMA LeastNumber ==
  ASSUME NEW T, T \subseteq Nat, T # {}
  PROVE  \E n \in T : \A m \in T : n <= m
<1> DEFINE R == {ss \in Nat \X Nat : ss[1] < ss[2]}
<1>1. \A m \in Nat, n \in Nat : m < n => <<m, n>> \in R
  OBVIOUS
<1>2. IsWellFoundedOn(R, Nat)
  BY NatLessThanWellFounded DEF OpToRel
<1> HIDE DEF R
<1>3. PICK n \in T : \A m \in T : <<m, n>> \notin R
  BY <1>2, WFMin
<1>4. \A m \in T : ~(m < n)
  BY <1>1, <1>3
<1>. QED BY <1>3, <1>4

(* SetToSeq lists a finite set, each element once.                        *)
LEMMA SetListed ==
  ASSUME NEW S, IsFiniteSet(S)
  PROVE /\ SetToSeq(S) \in [1..Cardinality(S) -> S] /\ Cardinality(S) \in Nat
        /\ \A i, j \in 1..Cardinality(S) : SetToSeq(S)[i] = SetToSeq(S)[j] => i = j
        /\ \A a \in S : \E i \in 1..Cardinality(S) : SetToSeq(S)[i] = a
<1> DEFINE n == Cardinality(S)
           f == SetToSeq(S)
<1>1. n \in Nat /\ ExistsBijection(1..n, S)
  BY FS_CardinalityType
<1>2. \E g \in [1..n -> S] : IsInjective(g)
  BY <1>1 DEF ExistsBijection, Bijection, Injection, IsInjective
<1>3. f \in [1..n -> S] /\ IsInjective(f)
  BY <1>2 DEF SetToSeq
<1> HIDE DEF f
<1>4. f \in Injection(1..n, S)
  BY <1>3 DEF Injection, IsInjective
<1>5. Cardinality(1..n) = n
  BY <1>1, FS_Interval
<1>6. f \in Surjection(1..n, S)
  BY <1>4, <1>5, FS_Injection
<1>7. \A i, j \in 1..n : f[i] = f[j] => i = j
  BY <1>3 DEF IsInjective
<1>8. \A a \in S : \E i \in 1..n : f[i] = a
  BY <1>6 DEF Surjection
<1> QED BY <1>1, <1>3, <1>7, <1>8 DEF f

(* Induction, with a set in place of a predicate.                         *)
LEMMA InductionUpTo ==
  ASSUME NEW n \in Nat, NEW T \in SUBSET Nat, 0 \in T, \A i \in 1 .. n : i - 1 \in T => i \in T
  PROVE  \A i \in 0 .. n : i \in T
<1> SUFFICES ASSUME NEW j \in 0 .. n, j \notin T PROVE FALSE
  OBVIOUS
<1> DEFINE U == {i \in 0 .. n : i \notin T}
<1>1. PICK i \in U : \A m \in U : i <= m
  BY LeastNumber, U \subseteq Nat, U # {}
<1>2. i \in 1 .. n /\ i - 1 \notin U
  BY <1>1
<1> QED BY <1>1, <1>2

-----------------------------------------------------------------------------
(* The recursion of Sums has a solution: the partial sums.                 *)
LEMMA PartialSums ==
  ASSUME NEW n \in Nat, NEW w \in [1..n -> Nat], Len(w) = n
  PROVE  /\ Sums(w) \in [0..n -> Nat] /\ Sums(w)[0] = 0
         /\ \A i \in 1..n : Sums(w)[i] = Sums(w)[i - 1] + w[i]
<1> DEFINE Rec(f, k) == [i \in 0..k |-> IF i = 0 THEN 0 ELSE f[i - 1] + w[i]]
           T == {k \in Nat : \E f : f = Rec(f, k)}
<1>1. 0 \in T
  <2> DEFINE f == [i \in 0..0 |-> 0]
  <2>1. f = Rec(f, 0)
    OBVIOUS
  <2> QED BY <2>1
<1>2. ASSUME NEW k \in 1..n, k - 1 \in T PROVE k \in T
  <2>1. PICK f : f = Rec(f, k - 1)
    BY <1>2
  <2> DEFINE g == [i \in 0..k |-> IF i = k THEN f[k - 1] + w[k] ELSE f[i]]
  <2>2. ASSUME NEW i \in 0..k PROVE g[i] = IF i = 0 THEN 0 ELSE g[i - 1] + w[i]
    <3>1. CASE i = k
      BY <3>1
    <3>2. CASE i # k
      <4>1. i \in 0..(k - 1) /\ g[i] = f[i] /\ (i # 0 => g[i - 1] = f[i - 1])
        BY <3>2
      <4>2. f[i] = Rec(f, k - 1)[i]
        BY <2>1
      <4>3. f[i] = IF i = 0 THEN 0 ELSE f[i - 1] + w[i]
        BY <4>1, <4>2
      <4> QED BY <4>1, <4>3
    <3> QED BY <3>1, <3>2
  <2>3. g = Rec(g, k)
    BY <2>2
  <2> HIDE DEF g
  <2>4. \E h : h = Rec(h, k)
    BY <2>3
  <2> QED BY <2>4
<1>3. n \in T
  <2> HIDE DEF T
  <2>1. T \in SUBSET Nat
    BY DEF T
  <2>2. \A i \in 0..n : i \in T
    BY <1>1, <1>2, <2>1, InductionUpTo
  <2> QED BY <2>2
<1>4. \E f : f = Rec(f, n)
  BY <1>3
<1>5. Sums(w) = CHOOSE f : f = Rec(f, n)
  BY DEF Sums
<1> DEFINE f == Sums(w)
<1>6. f = Rec(f, n)
  BY <1>4, <1>5, Zenon
<1> HIDE DEF f
<1>7. f[0] = 0 /\ \A i \in 1..n : f[i] = f[i - 1] + w[i]
  BY <1>6
<1>8. \A i \in 0..n : f[i] \in Nat
  <2> DEFINE U == {i \in Nat : i <= n => f[i] \in Nat}
  <2>1. 0 \in U /\ U \in SUBSET Nat
    BY <1>7
  <2>2. \A i \in 1..n : i - 1 \in U => i \in U
    BY <1>7
  <2>3. \A i \in 0..n : i \in U
    <3> HIDE DEF U
    <3> QED BY <2>1, <2>2, InductionUpTo
  <2> QED BY <2>3
<1>9. f \in [0..n -> Nat]
  BY <1>6, <1>8
<1> QED BY <1>7, <1>9 DEF f

(* Sums of sequences that add up add up.                                   *)
LEMMA SumsAdd ==
  ASSUME NEW n \in Nat, NEW u \in [1..n -> Nat], NEW v \in [1..n -> Nat], NEW w \in [1..n -> Nat],
         Len(u) = n, Len(v) = n, Len(w) = n, \A i \in 1..n : w[i] = u[i] + v[i]
  PROVE  Sums(w)[n] = Sums(u)[n] + Sums(v)[n]
<1> DEFINE su == Sums(u)
           sv == Sums(v)
           sw == Sums(w)
           T == {i \in Nat : i <= n => sw[i] = su[i] + sv[i]}
<1>1. /\ su \in [0..n -> Nat] /\ su[0] = 0 /\ \A i \in 1..n : su[i] = su[i - 1] + u[i]
      /\ sv \in [0..n -> Nat] /\ sv[0] = 0 /\ \A i \in 1..n : sv[i] = sv[i - 1] + v[i]
      /\ sw \in [0..n -> Nat] /\ sw[0] = 0 /\ \A i \in 1..n : sw[i] = sw[i - 1] + w[i]
  BY PartialSums
<1> HIDE DEF su, sv, sw
<1>2. 0 \in T /\ T \in SUBSET Nat
  BY <1>1
<1>3. ASSUME NEW i \in 1..n, i - 1 \in T PROVE i \in T
  <2>1. sw[i - 1] = su[i - 1] + sv[i - 1] /\ i - 1 \in 0..n
    BY <1>3
  <2> QED BY <1>1, <2>1
<1>4. n \in T
  <2> HIDE DEF T
  <2>1. \A i \in 0..n : i \in T
    BY <1>2, <1>3, InductionUpTo
  <2> QED BY <2>1
<1> QED BY <1>4 DEF su, sv, sw

(* The sum of a sequence with one entry that is not 0.                     *)
LEMMA SumOfOne ==
  ASSUME NEW n \in Nat, NEW w \in [1..n -> Nat], Len(w) = n,
         NEW j \in 1..n, \A i \in 1..n : i # j => w[i] = 0
  PROVE  Sums(w)[n] = w[j]
<1> DEFINE f == Sums(w)
           T == {i \in Nat : i <= n => f[i] = IF i < j THEN 0 ELSE w[j]}
<1>1. f \in [0..n -> Nat] /\ f[0] = 0 /\ \A i \in 1..n : f[i] = f[i - 1] + w[i]
  BY PartialSums
<1> HIDE DEF f
<1>2. 0 \in T /\ T \in SUBSET Nat
  BY <1>1
<1>3. ASSUME NEW i \in 1..n, i - 1 \in T PROVE i \in T
  <2>1. f[i - 1] = (IF i - 1 < j THEN 0 ELSE w[j]) /\ f[i] = f[i - 1] + w[i]
    BY <1>1, <1>3
  <2>2. CASE i < j
    BY <1>1, <2>1, <2>2
  <2>3. CASE i = j
    BY <1>1, <2>1, <2>3
  <2>4. CASE i > j
    BY <1>1, <2>1, <2>4
  <2> QED BY <2>2, <2>3, <2>4
<1>4. n \in T
  <2> HIDE DEF T
  <2>1. \A i \in 0..n : i \in T
    BY <1>2, <1>3, InductionUpTo
  <2> QED BY <2>1
<1> QED BY <1>4 DEF f

-----------------------------------------------------------------------------
NumCallers == Cardinality(Callers)

(* AllCallers lists the callers.                                           *)
LEMMA CallersListed ==
  /\ NumCallers \in Nat /\ AllCallers \in [1..NumCallers -> Callers] /\ Len(AllCallers) = NumCallers
  /\ \A i, j \in 1..NumCallers : AllCallers[i] = AllCallers[j] => i = j
  /\ \A a \in Callers : \E i \in 1..NumCallers : AllCallers[i] = a
<1>1. /\ NumCallers \in Nat /\ AllCallers \in [1..NumCallers -> Callers]
      /\ \A i, j \in 1..NumCallers : AllCallers[i] = AllCallers[j] => i = j
      /\ \A a \in Callers : \E i \in 1..NumCallers : AllCallers[i] = a
  BY SetListed, PoolAssumption, Zenon DEF NumCallers, AllCallers
<1>2. Len(AllCallers) = NumCallers
  BY <1>1
<1> QED BY <1>1, <1>2

(* What a caller asks for is a number of tokens that the semaphore has.    *)
LEMMA CappedRequests ==
  ASSUME NEW a \in Callers, NEW s \in Sems
  PROVE  Total[s] \in Nat /\ Req[a][s] \in Nat /\ Req[a][s] <= Total[s]
<1>1. Total[s] \in Nat
  BY PoolAssumption DEF Total, NewManager, AtLeastOne, Sems
<1>2. NotCapped(a, s) \in Nat
  BY DEF NotCapped, LblReqs, Sems
<1>3. Req[a][s] = Capped(a, s)
  BY DEF Req
<1> QED BY <1>1, <1>2, <1>3 DEF Capped

(* Demand is a number, of the empty set 0, of one caller his request, and  *)
(* of sets that have nobody in common the sum.                             *)
LEMMA DemandOfSets ==
  ASSUME NEW s \in Sems
  PROVE  /\ \A S : Demand(s, S) \in Nat
         /\ Demand(s, {}) = 0
         /\ \A a \in Callers : Demand(s, {a}) = Req[a][s]
         /\ \A S, R : S \intersect R = {} => Demand(s, S \union R) = Demand(s, S) + Demand(s, R)
<1> DEFINE W(S) == Weights(s, S)
<1>1. ASSUME NEW S
      PROVE  /\ W(S) \in [1..NumCallers -> Nat] /\ Len(W(S)) = NumCallers
             /\ \A i \in 1..NumCallers : W(S)[i] = IF AllCallers[i] \in S THEN Req[AllCallers[i]][s] ELSE 0
  <2>1. \A i \in 1..NumCallers : Req[AllCallers[i]][s] \in Nat
    BY CallersListed, CappedRequests
  <2>2. W(S) = [i \in 1..NumCallers |-> IF AllCallers[i] \in S THEN Req[AllCallers[i]][s] ELSE 0]
    BY CallersListed DEF Weights
  <2>3. W(S) \in [1..NumCallers -> Nat]
    BY <2>1, <2>2
  <2>4. Len(W(S)) = NumCallers
    BY <2>3, CallersListed
  <2> QED BY <2>2, <2>3, <2>4
<1>2. \A S : Demand(s, S) = Sums(W(S))[NumCallers]
  BY CallersListed DEF Demand
<1> HIDE DEF W
<1>3. \A S : Demand(s, S) \in Nat
  <2> SUFFICES ASSUME NEW S PROVE Sums(W(S))[NumCallers] \in Nat
    BY <1>2
  <2>1. Sums(W(S)) \in [0..NumCallers -> Nat] /\ NumCallers \in 0..NumCallers
    BY <1>1, CallersListed, PartialSums
  <2> QED BY <2>1
<1>4. ASSUME NEW S, NEW R, S \intersect R = {}
      PROVE  Demand(s, S \union R) = Demand(s, S) + Demand(s, R)
  <2> DEFINE u == W(S)
             v == W(R)
             w == W(S \union R)
  <2>1. /\ u \in [1..NumCallers -> Nat] /\ v \in [1..NumCallers -> Nat] /\ w \in [1..NumCallers -> Nat]
        /\ Len(u) = NumCallers /\ Len(v) = NumCallers /\ Len(w) = NumCallers
    BY <1>1
  <2>2. ASSUME NEW i \in 1..NumCallers PROVE w[i] = u[i] + v[i]
    <3>1. Req[AllCallers[i]][s] \in Nat
      BY CallersListed, CappedRequests
    <3>2. /\ u[i] = IF AllCallers[i] \in S THEN Req[AllCallers[i]][s] ELSE 0
          /\ v[i] = IF AllCallers[i] \in R THEN Req[AllCallers[i]][s] ELSE 0
          /\ w[i] = IF AllCallers[i] \in S \union R THEN Req[AllCallers[i]][s] ELSE 0
      BY <1>1
    <3> HIDE DEF u, v, w
    <3> QED BY <1>4, <3>1, <3>2
  <2> HIDE DEF u, v, w
  <2>3. Sums(w)[NumCallers] = Sums(u)[NumCallers] + Sums(v)[NumCallers]
    <3>1. NumCallers \in Nat
      BY CallersListed
    <3>2. \A i \in 1..NumCallers : w[i] = u[i] + v[i]
      BY <2>2
    <3> QED BY <2>1, <3>1, <3>2, SumsAdd, Zenon
  <2> QED BY <1>2, <2>3 DEF u, v, w
<1>5. ASSUME NEW a \in Callers PROVE Demand(s, {a}) = Req[a][s]
  <2>1. PICK j \in 1..NumCallers : AllCallers[j] = a
    BY CallersListed
  <2> DEFINE w == W({a})
  <2>2. /\ w \in [1..NumCallers -> Nat] /\ Len(w) = NumCallers
        /\ \A i \in 1..NumCallers : w[i] = IF AllCallers[i] \in {a} THEN Req[AllCallers[i]][s] ELSE 0
    BY <1>1
  <2> HIDE DEF w
  <2>3. w[j] = Req[a][s] /\ \A i \in 1..NumCallers : i # j => w[i] = 0
    BY <2>1, <2>2, CallersListed
  <2>4. Sums(w)[NumCallers] = w[j]
    <3>1. NumCallers \in Nat
      BY CallersListed
    <3> QED BY <2>2, <2>3, <3>1, SumOfOne, Zenon
  <2> QED BY <1>2, <2>3, <2>4 DEF w
<1>6. Demand(s, {}) = 0
  <2>1. Demand(s, {} \union {}) = Demand(s, {}) + Demand(s, {})
    BY <1>4
  <2>2. {} \union {} = {}
    OBVIOUS
  <2>3. Demand(s, {}) = Demand(s, {}) + Demand(s, {})
    BY <2>1, <2>2
  <2> QED BY <1>3, <2>3
<1> QED BY <1>3, <1>4, <1>5, <1>6

-----------------------------------------------------------------------------
(* The pool.  c, w, g and p are values of cur, waiters, stage and at, also *)
(* at the moment inside a step when tokens have been given back and        *)
(* notifyWaiters is about to run.                                          *)
PoolStages == {"idle", "acquire", "wait", "granted", "held", "undo", "failed", "release", "released"}

(* Whether a caller at stage x for semaphore y holds tokens of s.          *)
Has(x, y, s) ==
  \/ x = "held"
  \/ x = "granted" /\ y = s
  \/ s = "cpu" /\ y = "ram" /\ x \in {"acquire", "wait", "granted", "undo"}
  \/ s = "ram" /\ x = "release"
Holders(g, p, s) == {a \in Callers : Has(g[a], p[a], s)}

PoolTypes(c, w, g, p) ==
  /\ c \in [Sems -> Nat] /\ w \in [Sems -> Seq(Callers)]
  /\ g \in [Callers -> PoolStages] /\ p \in [Callers -> Sems]

(* Lock takes the CPUs first.                                              *)
InOrder(x, y) ==
  (x = "idle" => y = "cpu") /\ (x \in {"acquire", "held", "undo", "release"} => y = "ram")

NoTwice(q) == \A i, j \in DOMAIN q : q[i] = q[j] => i = j

(* The queues hold whoever waits, once.                                    *)
Queued(w, g, p) ==
  \A s \in Sems : NoTwice(w[s]) /\ Range(w[s]) = {a \in Callers : g[a] = "wait" /\ p[a] = s}

Conserved(c, g, p) ==
  \A s \in Sems : c[s] = Demand(s, Holders(g, p, s)) /\ c[s] <= Total[s]

PoolOK(c, w, g, p) ==
  /\ PoolTypes(c, w, g, p)
  /\ \A a \in Callers : InOrder(g[a], p[a])
  /\ Queued(w, g, p)
  /\ Conserved(c, g, p)
PoolInv == PoolOK(cur, waiters, stage, at)

(* A queue without repetition, split where notifyWaiters stops.            *)
LEMMA SplitQueue ==
  ASSUME NEW q \in Seq(Callers), NoTwice(q), NEW k \in 0..Len(q)
  PROVE  /\ SubSeq(q, k + 1, Len(q)) \in Seq(Callers)
         /\ NoTwice(SubSeq(q, k + 1, Len(q)))
         /\ First(q, k) \subseteq Range(q)
         /\ Range(SubSeq(q, k + 1, Len(q))) = Range(q) \ First(q, k)
<1> DEFINE r == SubSeq(q, k + 1, Len(q))
<1>1. /\ r \in Seq(Callers) /\ Len(q) \in Nat /\ DOMAIN q = 1..Len(q)
      /\ DOMAIN r = 1..(Len(q) - k)
      /\ \A i \in 1..(Len(q) - k) : r[i] = q[k + i]
  OBVIOUS
<1> HIDE DEF r
<1>2. NoTwice(r)
  <2> SUFFICES ASSUME NEW i \in DOMAIN r, NEW j \in DOMAIN r, r[i] = r[j] PROVE i = j
    BY DEF NoTwice
  <2>1. k + i \in DOMAIN q /\ k + j \in DOMAIN q /\ q[k + i] = q[k + j]
    BY <1>1
  <2>2. k + i = k + j
    BY <2>1 DEF NoTwice
  <2> QED BY <1>1, <2>2
<1>3. First(q, k) \subseteq Range(q)
  BY <1>1 DEF First, Range
<1>4. ASSUME NEW i \in DOMAIN r PROVE r[i] \in Range(q) \ First(q, k)
  <2>1. k + i \in DOMAIN q /\ r[i] = q[k + i]
    BY <1>1
  <2>2. ASSUME NEW j \in 1..k PROVE q[j] # q[k + i]
    <3>1. j \in DOMAIN q /\ j # k + i
      BY <1>1
    <3> QED BY <2>1, <3>1 DEF NoTwice
  <2> QED BY <2>1, <2>2 DEF First, Range
<1>5. ASSUME NEW i \in DOMAIN q, q[i] \notin First(q, k) PROVE q[i] \in Range(r)
  <2>1. i \notin 1..k
    BY <1>5 DEF First
  <2>2. i - k \in DOMAIN r /\ k + (i - k) = i
    BY <1>1, <2>1
  <2>3. r[i - k] = q[i]
    BY <1>1, <2>2
  <2> QED BY <2>2, <2>3 DEF Range
<1>6. Range(r) = Range(q) \ First(q, k)
  BY <1>4, <1>5 DEF Range
<1> QED BY <1>1, <1>2, <1>3, <1>6 DEF r

(* A waiter that leaves leaves the others in order.                        *)
LEMMA LeftQueue ==
  ASSUME NEW q \in Seq(Callers), NoTwice(q), NEW a \in Range(q)
  PROVE  /\ LeaveQueue(q, a) \in Seq(Callers) /\ NoTwice(LeaveQueue(q, a))
         /\ Range(LeaveQueue(q, a)) = Range(q) \ {a}
<1> DEFINE n == Len(q)
           r == LeaveQueue(q, a)
<1>1. n \in Nat /\ DOMAIN q = 1..n
  OBVIOUS
<1>2. \E i \in DOMAIN q : q[i] = a
  BY DEF Range
<1>3. PICK j \in DOMAIN q : q[j] = a /\ r = RemoveAt(q, j)
  BY <1>2 DEF LeaveQueue
<1>4. /\ r \in Seq(Callers) /\ DOMAIN r = 1..(n - 1)
      /\ \A i \in 1..(n - 1) : r[i] = IF i < j THEN q[i] ELSE q[i + 1]
  <2> DEFINE u == SubSeq(q, 1, j - 1)
             v == SubSeq(q, j + 1, n)
  <2>1. /\ u \in Seq(Callers) /\ Len(u) = j - 1 /\ \A i \in 1..(j - 1) : u[i] = q[i]
        /\ v \in Seq(Callers) /\ Len(v) = n - j /\ \A i \in 1..(n - j) : v[i] = q[j + i]
    <3>1. j \in 1..n
      BY <1>1
    <3>2. u \in Seq(Callers) /\ Len(u) = j - 1 /\ \A i \in 1..(j - 1) : u[i] = q[i]
      BY <1>1, <3>1
    <3>3. v \in Seq(Callers) /\ Len(v) = n - j /\ \A i \in 1..(n - j) : v[i] = q[j + i]
      BY <1>1, <3>1
    <3> QED BY <3>2, <3>3
  <2>2. r = u \o v
    BY <1>3 DEF RemoveAt
  <2> HIDE DEF u, v, r
  <2>3. r \in Seq(Callers) /\ DOMAIN r = 1..(n - 1)
    <3> HIDE DEF n
    <3>1. r \in Seq(Callers)
      BY <2>1, <2>2
    <3>2. Len(r) = Len(u) + Len(v) /\ DOMAIN r = 1..Len(r)
      BY <2>1, <2>2, <3>1
    <3>3. Len(r) = n - 1
      BY <1>1, <2>1, <3>2
    <3> QED BY <3>1, <3>2, <3>3
  <2>4. ASSUME NEW i \in 1..(n - 1) PROVE r[i] = IF i < j THEN q[i] ELSE q[i + 1]
    <3>1. CASE i < j
      BY <1>1, <2>1, <2>2, <3>1
    <3>2. CASE i >= j
      <4>1. i - (j - 1) \in 1..(n - j) /\ j + (i - (j - 1)) = i + 1
        BY <1>1, <3>2
      <4>2. r[i] = v[i - (j - 1)]
        <5>1. i \in 1..(Len(u) + Len(v)) /\ ~(i <= Len(u)) /\ Len(u) = j - 1
          BY <1>1, <2>1, <3>2
        <5>2. r[i] = v[i - Len(u)]
          <6>1. u \in Seq(Callers) /\ v \in Seq(Callers)
            BY <2>1
          <6>2. (u \o v)[i] = IF i <= Len(u) THEN u[i] ELSE v[i - Len(u)]
            BY <5>1, <6>1, SMTT(30)
          <6> QED BY <2>2, <5>1, <6>2
        <5> QED BY <5>1, <5>2
      <4>3. v[i - (j - 1)] = q[j + (i - (j - 1))]
        BY <2>1, <4>1
      <4> QED BY <3>2, <4>1, <4>2, <4>3
    <3> QED BY <1>1, <3>1, <3>2
  <2> QED BY <2>3, <2>4
<1> HIDE DEF r
<1>5. NoTwice(r)
  <2> SUFFICES ASSUME NEW i \in DOMAIN r, NEW k \in DOMAIN r, r[i] = r[k] PROVE i = k
    BY DEF NoTwice
  <2> DEFINE pos(m) == IF m < j THEN m ELSE m + 1
  <2>1. pos(i) \in DOMAIN q /\ pos(k) \in DOMAIN q /\ r[i] = q[pos(i)] /\ r[k] = q[pos(k)]
    BY <1>1, <1>4
  <2>2. pos(i) = pos(k)
    BY <2>1 DEF NoTwice
  <2> QED BY <1>1, <1>4, <2>2
<1>6. ASSUME NEW i \in DOMAIN r PROVE r[i] \in Range(q) \ {a}
  <2>1. PICK m \in DOMAIN q : r[i] = q[m] /\ m # j
    <3>1. CASE i < j
      <4>1. i \in DOMAIN q /\ r[i] = q[i] /\ i # j
        BY <1>1, <1>4, <3>1
      <4> QED BY <4>1
    <3>2. CASE ~(i < j)
      <4>1. i + 1 \in DOMAIN q /\ r[i] = q[i + 1] /\ i + 1 # j
        BY <1>1, <1>4, <3>2
      <4> QED BY <4>1
    <3> QED BY <3>1, <3>2
  <2>2. q[m] # a
    BY <1>3, <2>1 DEF NoTwice
  <2> QED BY <2>1, <2>2 DEF Range
<1>7. ASSUME NEW i \in DOMAIN q, q[i] # a PROVE q[i] \in Range(r)
  <2>1. i # j
    BY <1>3, <1>7
  <2>2. PICK m \in DOMAIN r : r[m] = q[i]
    <3>1. CASE i < j
      <4>1. i \in DOMAIN r /\ r[i] = q[i]
        BY <1>1, <1>4, <3>1
      <4> QED BY <4>1
    <3>2. CASE i > j
      <4>1. i - 1 \in DOMAIN r /\ ~(i - 1 < j) /\ (i - 1) + 1 = i
        BY <1>1, <1>4, <3>2
      <4>2. r[i - 1] = q[i]
        BY <1>4, <4>1
      <4> QED BY <4>1, <4>2
    <3> QED BY <1>1, <2>1, <3>1, <3>2
  <2> QED BY <2>2 DEF Range
<1>8. Range(r) = Range(q) \ {a}
  BY <1>6, <1>7 DEF Range
<1> QED BY <1>4, <1>5, <1>8 DEF r

(* notifyWaiters finds where to stop, and what it grants fits.             *)
LEMMA ServedFits ==
  ASSUME NEW s \in Sems, NEW q \in Seq(Callers), NEW used \in Nat, used <= Total[s], Total[s] \in Nat
  PROVE  /\ Served(s, used, q) \in 0..Len(q)
         /\ Demand(s, First(q, Served(s, used, q))) <= Total[s] - used
<1> DEFINE D(k) == Demand(s, First(q, k))
           free == Total[s] - used
           n == Len(q)
           Stops(k) == D(k) <= free /\ (k < n => D(k + 1) > free)
           U == {k \in 0..n : k < n => D(k + 1) > free}
<1>1. n \in Nat /\ free \in Nat
  OBVIOUS
<1>2. \A k \in 0..n : D(k) \in Nat /\ D(k + 1) \in Nat
  BY DemandOfSets
<1>3. D(0) = 0
  <2>1. First(q, 0) = {}
    BY DEF First
  <2> QED BY <2>1, DemandOfSets
<1> HIDE DEF D, free, n
<1>4. U \subseteq Nat /\ n \in U
  BY <1>1
<1>5. PICK k \in U : \A m \in U : k <= m
  <2> HIDE DEF U
  <2>1. U # {}
    BY <1>4
  <2> QED BY <1>4, <2>1, LeastNumber
<1>6. D(k) <= free
  <2>1. CASE k = 0
    BY <1>1, <1>3, <2>1
  <2>2. CASE k # 0
    <3>1. k - 1 \in 0..n /\ k - 1 < n /\ (k - 1) + 1 = k /\ k - 1 \notin U
      BY <1>1, <1>5, <2>2
    <3>2. ~(D((k - 1) + 1) > free)
      BY <3>1
    <3>3. ~(D(k) > free)
      BY <3>1, <3>2
    <3>4. D(k) \in Nat
      BY <1>2, <1>5
    <3> QED BY <1>1, <3>3, <3>4
  <2> QED BY <2>1, <2>2
<1>7. \E m \in 0..n : Stops(m)
  BY <1>5, <1>6
<1>8. Served(s, used, q) = IF q = <<>> THEN 0 ELSE CHOOSE m \in 0..n : Stops(m)
  BY DEF Served, D, free, n
<1>9. CASE q = <<>>
  <2>1. Served(s, used, q) = 0 /\ 0 \in 0..n /\ D(0) <= free
    BY <1>1, <1>3, <1>8, <1>9
  <2> QED BY <2>1 DEF D, free, n
<1>10. CASE q # <<>>
  <2>1. Served(s, used, q) \in 0..n /\ Stops(Served(s, used, q))
    <3> HIDE DEF Stops
    <3> QED BY <1>7, <1>8, <1>10, Zenon
  <2> QED BY <2>1 DEF D, free, n
<1> QED BY <1>9, <1>10

(* A caller that joins the queue is in it once.                            *)
LEMMA Appended ==
  ASSUME NEW q \in Seq(Callers), NoTwice(q), NEW a \in Callers, a \notin Range(q)
  PROVE  NoTwice(Append(q, a)) /\ Range(Append(q, a)) = Range(q) \union {a}
<1>1. /\ Len(q) \in Nat /\ DOMAIN q = 1..Len(q) /\ DOMAIN Append(q, a) = 1..(Len(q) + 1)
      /\ \A i \in 1..Len(q) : Append(q, a)[i] = q[i]
      /\ Append(q, a)[Len(q) + 1] = a
  OBVIOUS
<1>2. \A i \in DOMAIN q : q[i] # a
  BY DEF Range
<1>3. NoTwice(Append(q, a))
  BY <1>1, <1>2 DEF NoTwice
<1>4. Range(Append(q, a)) = Range(q) \union {a}
  BY <1>1 DEF Range
<1> QED BY <1>3, <1>4

(* What changes when caller a goes from stage x0 for y0 to stage x for y:  *)
(* the tokens by what he takes and gives back, the queues by his coming    *)
(* and going.                                                              *)
Moves(c, w, x0, y0, a, x, y, c2, w2) ==
  \A s \in Sems :
    /\ c2[s] = c[s] + (IF Has(x, y, s) THEN Req[a][s] ELSE 0) - (IF Has(x0, y0, s) THEN Req[a][s] ELSE 0)
    /\ c2[s] <= Total[s]
    /\ NoTwice(w2[s])
    /\ Range(w2[s]) = (Range(w[s]) \ {a}) \union (IF x = "wait" /\ y = s THEN {a} ELSE {})

(* A caller may go from one stage to another.                              *)
LEMMA CallerMoves ==
  ASSUME NEW c, NEW w, NEW g, NEW p, PoolOK(c, w, g, p),
         NEW a \in Callers, NEW x \in PoolStages, NEW y \in Sems, InOrder(x, y),
         NEW c2 \in [Sems -> Int], NEW w2 \in [Sems -> Seq(Callers)],
         Moves(c, w, g[a], p[a], a, x, y, c2, w2)
  PROVE  PoolOK(c2, w2, [g EXCEPT ![a] = x], [p EXCEPT ![a] = y])
<1> DEFINE g2 == [g EXCEPT ![a] = x]
           p2 == [p EXCEPT ![a] = y]
<1>1. /\ PoolTypes(c, w, g, p) /\ \A b \in Callers : InOrder(g[b], p[b])
      /\ Queued(w, g, p) /\ Conserved(c, g, p)
  BY DEF PoolOK
<1>2. g2 \in [Callers -> PoolStages] /\ p2 \in [Callers -> Sems]
  BY <1>1 DEF PoolTypes
<1>3. g2[a] = x /\ p2[a] = y /\ \A b \in Callers \ {a} : g2[b] = g[b] /\ p2[b] = p[b]
  BY <1>1 DEF PoolTypes
<1> HIDE DEF g2, p2
<1>4. \A b \in Callers : InOrder(g2[b], p2[b])
  BY <1>1, <1>3
<1>5. Queued(w2, g2, p2)
  <2> SUFFICES ASSUME NEW s \in Sems
               PROVE  Range(w2[s]) = {b \in Callers : g2[b] = "wait" /\ p2[b] = s}
    BY DEF Queued, Moves
  <2>1. Range(w[s]) = {b \in Callers : g[b] = "wait" /\ p[b] = s}
    BY <1>1 DEF Queued
  <2>2. Range(w2[s]) = (Range(w[s]) \ {a}) \union (IF x = "wait" /\ y = s THEN {a} ELSE {})
    BY DEF Moves
  <2> QED BY <1>3, <2>1, <2>2
<1>6. ASSUME NEW s \in Sems PROVE c2[s] = Demand(s, Holders(g2, p2, s)) /\ c2[s] \in Nat
  <2> DEFINE B == Holders(g, p, s) \ {a}
             old == Has(g[a], p[a], s)
             new == Has(x, y, s)
  <2>1. /\ Holders(g, p, s) = IF old THEN B \union {a} ELSE B
        /\ Holders(g2, p2, s) = IF new THEN B \union {a} ELSE B
    BY <1>3 DEF Holders
  <2>2. B \intersect {a} = {}
    OBVIOUS
  <2> HIDE DEF B
  <2>3. Demand(s, B \union {a}) = Demand(s, B) + Req[a][s]
    <3>1. Demand(s, {a}) = Req[a][s]
      BY DemandOfSets
    <3>2. Demand(s, B \union {a}) = Demand(s, B) + Demand(s, {a})
      BY <2>2, DemandOfSets
    <3> QED BY <3>1, <3>2
  <2>4. Demand(s, B) \in Nat /\ Req[a][s] \in Nat
    BY DemandOfSets, CappedRequests
  <2>5. c[s] = Demand(s, Holders(g, p, s))
    BY <1>1 DEF Conserved
  <2>6. c2[s] = c[s] + (IF new THEN Req[a][s] ELSE 0) - (IF old THEN Req[a][s] ELSE 0)
    BY DEF Moves
  <2> HIDE DEF old, new
  <2>7. /\ Demand(s, Holders(g, p, s)) = Demand(s, B) + (IF old THEN Req[a][s] ELSE 0)
        /\ Demand(s, Holders(g2, p2, s)) = Demand(s, B) + (IF new THEN Req[a][s] ELSE 0)
    BY <2>1, <2>3, <2>4
  <2> QED BY <2>4, <2>5, <2>6, <2>7
<1>7. Conserved(c2, g2, p2) /\ PoolTypes(c2, w2, g2, p2)
  BY <1>2, <1>6 DEF Conserved, PoolTypes, Moves
<1> QED BY <1>4, <1>5, <1>7 DEF PoolOK, g2, p2

(* notifyWaiters grants what is free to the first in the queue.            *)
LEMMA WaitersNotified ==
  ASSUME NEW used, NEW q, NEW g, NEW s \in Sems, NotifyWaiters(s, used, q, g), at' = at,
         cur \in [Sems -> Nat], waiters \in [Sems -> Seq(Callers)],
         PoolOK([cur EXCEPT ![s] = used], [waiters EXCEPT ![s] = q], g, at)
  PROVE  PoolInv'
<1> DEFINE c == [cur EXCEPT ![s] = used]
           w == [waiters EXCEPT ![s] = q]
           k == Served(s, used, q)
           F == First(q, k)
<1>1. /\ PoolTypes(c, w, g, at) /\ \A b \in Callers : InOrder(g[b], at[b])
      /\ Queued(w, g, at) /\ Conserved(c, g, at)
  BY DEF PoolOK
<1>2. /\ c[s] = used /\ w[s] = q
      /\ \A t \in Sems \ {s} : c[t] = cur[t] /\ w[t] = waiters[t]
  OBVIOUS
<1>3. /\ cur' = [cur EXCEPT ![s] = used + Demand(s, F)]
      /\ waiters' = [waiters EXCEPT ![s] = SubSeq(q, k + 1, Len(q))]
      /\ stage' = [a \in Callers |-> IF a \in F THEN "granted" ELSE g[a]]
  BY DEF NotifyWaiters
<1> HIDE DEF c, w
<1>4. used \in Nat /\ q \in Seq(Callers) /\ used <= Total[s] /\ NoTwice(q)
  BY <1>1, <1>2 DEF PoolTypes, Queued, Conserved
<1>5. Total[s] \in Nat
  BY PoolAssumption DEF Total, NewManager, AtLeastOne, Sems
<1>6. k \in 0..Len(q) /\ Demand(s, F) <= Total[s] - used
  BY <1>4, <1>5, ServedFits
<1> HIDE DEF k
<1>7. /\ SubSeq(q, k + 1, Len(q)) \in Seq(Callers) /\ NoTwice(SubSeq(q, k + 1, Len(q)))
      /\ F \subseteq Range(q) /\ Range(SubSeq(q, k + 1, Len(q))) = Range(q) \ F
  BY <1>4, <1>6, SplitQueue
<1>8. Demand(s, F) \in Nat
  BY DemandOfSets
<1> HIDE DEF F
<1>9. /\ cur'[s] = used + Demand(s, F) /\ waiters'[s] = SubSeq(q, k + 1, Len(q))
      /\ \A t \in Sems \ {s} : cur'[t] = c[t] /\ waiters'[t] = w[t]
      /\ \A b \in Callers : stage'[b] = IF b \in F THEN "granted" ELSE g[b]
  BY <1>2, <1>3
<1>10. PoolTypes(cur, waiters, stage, at)'
  <2>1. cur' \in [Sems -> Nat]
    BY <1>3, <1>4, <1>8
  <2>2. waiters' \in [Sems -> Seq(Callers)]
    BY <1>3, <1>7
  <2>3. stage' \in [Callers -> PoolStages] /\ at' \in [Callers -> Sems]
    BY <1>1, <1>3 DEF PoolTypes, PoolStages
  <2> QED BY <2>1, <2>2, <2>3 DEF PoolTypes
<1>11. \A b \in F : b \in Callers /\ g[b] = "wait" /\ at[b] = s
  BY <1>1, <1>2, <1>7 DEF Queued
<1>12. \A b \in Callers : InOrder(stage[b], at[b])'
  BY <1>1, <1>9 DEF InOrder
<1>13. Queued(waiters, stage, at)'
  <2>1. ASSUME NEW t \in Sems
        PROVE  NoTwice(waiters'[t]) /\ Range(waiters'[t]) = {b \in Callers : stage'[b] = "wait" /\ at[b] = t}
    <3>1. NoTwice(w[t]) /\ Range(w[t]) = {b \in Callers : g[b] = "wait" /\ at[b] = t}
      BY <1>1 DEF Queued
    <3>2. CASE t = s
      <4>1. NoTwice(waiters'[s]) /\ Range(waiters'[s]) = Range(w[s]) \ F
        BY <1>2, <1>7, <1>9
      <4>2. {b \in Callers : stage'[b] = "wait" /\ at[b] = s}
              = {b \in Callers : g[b] = "wait" /\ at[b] = s} \ F
        BY <1>9
      <4> QED BY <3>1, <3>2, <4>1, <4>2
    <3>3. CASE t # s
      BY <1>9, <1>11, <3>1, <3>3
    <3> QED BY <3>2, <3>3
  <2> QED BY <2>1 DEF Queued
<1>14. Conserved(cur, stage, at)'
  <2>1. ASSUME NEW t \in Sems PROVE cur'[t] = Demand(t, Holders(stage', at, t)) /\ cur'[t] <= Total[t]
    <3>1. c[t] = Demand(t, Holders(g, at, t)) /\ c[t] <= Total[t]
      BY <1>1 DEF Conserved
    <3>2. CASE t = s
      <4>1. /\ Holders(stage', at, s) = Holders(g, at, s) \union F
            /\ Holders(g, at, s) \intersect F = {}
        BY <1>9, <1>11 DEF Holders, Has
      <4>2. Demand(s, Holders(g, at, s) \union F) = Demand(s, Holders(g, at, s)) + Demand(s, F)
        BY <4>1, DemandOfSets
      <4> QED BY <1>2, <1>4, <1>5, <1>6, <1>8, <1>9, <3>1, <3>2, <4>1, <4>2
    <3>3. CASE t # s
      <4>1. Holders(stage', at, t) = Holders(g, at, t)
        BY <1>9, <1>11, <3>3 DEF Holders, Has, Sems
      <4> QED BY <1>9, <3>1, <3>3, <4>1
    <3> QED BY <3>2, <3>3
  <2> QED BY <2>1 DEF Conserved
<1> QED BY <1>10, <1>12, <1>13, <1>14 DEF PoolInv, PoolOK

(* A step in which a caller only changes his stage and takes tokens.       *)
LEMMA CallerSteps ==
  ASSUME PoolInv, NEW a \in Callers, stage[a] # "wait",
         NEW x \in PoolStages \ {"wait"}, NEW y \in Sems, InOrder(x, y),
         stage' = [stage EXCEPT ![a] = x], at' = [at EXCEPT ![a] = y], waiters' = waiters,
         cur' \in [Sems -> Int],
         \A s \in Sems :
           /\ cur'[s] = cur[s] + (IF Has(x, y, s) THEN Req[a][s] ELSE 0)
                               - (IF Has(stage[a], at[a], s) THEN Req[a][s] ELSE 0)
           /\ cur'[s] <= Total[s]
  PROVE  PoolInv'
<1>1. waiters' \in [Sems -> Seq(Callers)]
  BY DEF PoolInv, PoolOK, PoolTypes
<1>2. ASSUME NEW s \in Sems
      PROVE  /\ NoTwice(waiters'[s])
             /\ Range(waiters'[s]) =
                  (Range(waiters[s]) \ {a}) \union (IF x = "wait" /\ y = s THEN {a} ELSE {})
  <2>1. NoTwice(waiters[s]) /\ Range(waiters[s]) = {b \in Callers : stage[b] = "wait" /\ at[b] = s}
    BY DEF PoolInv, PoolOK, Queued
  <2> QED BY <2>1
<1>3. Moves(cur, waiters, stage[a], at[a], a, x, y, cur', waiters')
  BY <1>2 DEF Moves
<1>4. PoolOK(cur, waiters, stage, at) /\ x \in PoolStages
  BY DEF PoolInv
<1>5. PoolOK(cur', waiters', [stage EXCEPT ![a] = x], [at EXCEPT ![a] = y])
  BY <1>1, <1>3, <1>4, CallerMoves, Zenon
<1> QED BY <1>5 DEF PoolInv

(* A step in which a caller gives back his tokens of s.                    *)
LEMMA CallerPuts ==
  ASSUME PoolInv, NEW a \in Callers, NEW s \in Sems, NEW x \in PoolStages \ {"wait"},
         InOrder(x, at[a]), stage[a] # "wait", Put(a, s, x), at' = at,
         Has(stage[a], at[a], s), ~Has(x, at[a], s),
         \A t \in Sems \ {s} : Has(stage[a], at[a], t) <=> Has(x, at[a], t)
  PROVE  PoolInv'
<1> DEFINE c == [cur EXCEPT ![s] = cur[s] - Req[a][s]]
           g == [stage EXCEPT ![a] = x]
<1>1. PoolTypes(cur, waiters, stage, at) /\ Queued(waiters, stage, at) /\ Conserved(cur, stage, at)
  BY DEF PoolInv, PoolOK
<1>2. \A t \in Sems : Req[a][t] \in Nat /\ Total[t] \in Nat
  BY CappedRequests
<1>3. c \in [Sems -> Int] /\ c[s] = cur[s] - Req[a][s] /\ \A t \in Sems \ {s} : c[t] = cur[t]
  BY <1>1, <1>2 DEF PoolTypes
<1>4. cur \in [Sems -> Nat] /\ \A t \in Sems : cur[t] \in Nat /\ cur[t] <= Total[t]
  BY <1>1 DEF PoolTypes, Conserved
<1>5. \A t \in Sems :
        /\ c[t] = cur[t] + (IF Has(x, at[a], t) THEN Req[a][t] ELSE 0)
                         - (IF Has(stage[a], at[a], t) THEN Req[a][t] ELSE 0)
        /\ c[t] <= Total[t]
  <2> HIDE DEF c
  <2> QED BY <1>2, <1>3, <1>4
<1>6. [at EXCEPT ![a] = at[a]] = at /\ at[a] \in Sems /\ waiters \in [Sems -> Seq(Callers)]
  BY <1>1 DEF PoolTypes
<1>7. \A t \in Sems :
        /\ NoTwice(waiters[t])
        /\ Range(waiters[t]) = (Range(waiters[t]) \ {a}) \union (IF x = "wait" /\ at[a] = t THEN {a} ELSE {})
  BY <1>1 DEF Queued
<1>8. PoolOK(c, waiters, g, [at EXCEPT ![a] = at[a]])
  <2> HIDE DEF c
  <2>1. PoolOK(cur, waiters, stage, at) /\ x \in PoolStages
    BY DEF PoolInv
  <2>2. Moves(cur, waiters, stage[a], at[a], a, x, at[a], c, waiters)
    BY <1>5, <1>7 DEF Moves
  <2> QED BY <1>3, <1>6, <2>1, <2>2, CallerMoves, Zenon
<1>9. [waiters EXCEPT ![s] = waiters[s]] = waiters
  BY <1>6
<1>10. PoolOK(c, [waiters EXCEPT ![s] = waiters[s]], g, at)
  BY <1>6, <1>8, <1>9
<1>11. NotifyWaiters(s, cur[s] - Req[a][s], waiters[s], g)
  BY DEF Put
<1> QED BY <1>4, <1>6, <1>10, <1>11, WaitersNotified

(* A step of one caller keeps the pool's invariant.                        *)
LEMMA PoolRunKeeps ==
  ASSUME PoolInv, NEW a \in Callers, NEW stopped \in BOOLEAN, PoolRun(a, stopped)
  PROVE  PoolInv'
<1>1. /\ PoolTypes(cur, waiters, stage, at) /\ InOrder(stage[a], at[a])
      /\ Queued(waiters, stage, at) /\ Conserved(cur, stage, at)
  BY DEF PoolInv, PoolOK
<1>2. /\ at[a] \in Sems /\ stage[a] \in PoolStages /\ [at EXCEPT ![a] = at[a]] = at
      /\ at \in [Callers -> Sems]
      /\ cur \in [Sems -> Nat] /\ cur \in [Sems -> Int] /\ waiters \in [Sems -> Seq(Callers)]
  BY <1>1 DEF PoolTypes
<1>3. \A s \in Sems : /\ Req[a][s] \in Nat /\ Total[s] \in Nat /\ Req[a][s] <= Total[s]
                      /\ cur[s] \in Nat /\ cur[s] <= Total[s]
  BY <1>1, CappedRequests DEF PoolTypes, Conserved
<1>4. /\ at[a] = "cpu" => LockError(a) = "failed"
      /\ at[a] = "ram" => LockError(a) = "undo"
  BY DEF LockError
<1>5. CASE GiveBackCPUs(a)
  BY <1>1, <1>2, <1>5, CallerPuts DEF GiveBackCPUs, InOrder, Has, PoolStages, Sems
<1>6. CASE Release(a)
  <2>1. CASE stage[a] = "held" /\ Put(a, "cpu", "release")
    BY <1>1, <1>2, <1>6, <2>1, CallerPuts DEF Release, InOrder, Has, PoolStages, Sems
  <2>2. CASE stage[a] = "release" /\ Put(a, "ram", "released")
    BY <1>1, <1>2, <1>6, <2>2, CallerPuts DEF Release, InOrder, Has, PoolStages, Sems
  <2> QED BY <1>6, <2>1, <2>2 DEF Release
<1>7. ASSUME NEW s \in Sems, at[a] = s, Acquired(a), waiters' = waiters, stage[a] # "wait",
             \/ stage[a] = "granted" /\ cur' = cur
             \/ /\ stage[a] \in {"idle", "acquire"} /\ cur' = [cur EXCEPT ![s] = cur[s] + Req[a][s]]
                /\ Total[s] - cur[s] >= Req[a][s]
      PROVE  PoolInv'
  <2> DEFINE x == IF s = "cpu" THEN "acquire" ELSE "held"
  <2>1. /\ stage' = [stage EXCEPT ![a] = x] /\ at' = [at EXCEPT ![a] = "ram"]
        /\ InOrder(x, "ram") /\ x \in PoolStages \ {"wait"}
    BY <1>2, <1>7 DEF Acquired, InOrder, PoolStages, Sems
  <2>2. /\ Has(x, "ram", s)
        /\ Has(stage[a], at[a], s) <=> stage[a] = "granted"
        /\ \A t \in Sems \ {s} : Has(x, "ram", t) <=> Has(stage[a], at[a], t)
    BY <1>1, <1>7 DEF Has, InOrder, Sems
  <2>3. cur' \in [Sems -> Int]
    BY <1>2, <1>3, <1>7
  <2>4. ASSUME NEW t \in Sems
        PROVE  /\ cur'[t] = cur[t] + (IF Has(x, "ram", t) THEN Req[a][t] ELSE 0)
                                   - (IF Has(stage[a], at[a], t) THEN Req[a][t] ELSE 0)
               /\ cur'[t] <= Total[t]
    <3> HIDE DEF x
    <3>1. CASE stage[a] = "granted" /\ cur' = cur
      <4>1. Has(x, "ram", t) <=> Has(stage[a], at[a], t)
        BY <2>2, <3>1
      <4> QED BY <1>3, <3>1, <4>1
    <3>2. CASE /\ stage[a] \in {"idle", "acquire"} /\ cur' = [cur EXCEPT ![s] = cur[s] + Req[a][s]]
               /\ Total[s] - cur[s] >= Req[a][s]
      <4>1. CASE t = s
        BY <1>2, <1>3, <2>2, <3>2, <4>1
      <4>2. CASE t # s
        BY <1>2, <1>3, <2>2, <3>2, <4>2
      <4> QED BY <4>1, <4>2
    <3> QED BY <1>7, <3>1, <3>2
  <2> HIDE DEF x
  <2> QED BY <1>7, <2>1, <2>3, <2>4, CallerSteps DEF Sems
<1>8. CASE Acquire(a, stopped)
  <2> DEFINE s == at[a]
  <2>1. CASE stopped /\ stage' = [stage EXCEPT ![a] = LockError(a)] /\ UNCHANGED <<cur, waiters, at>>
    <3> DEFINE x == LockError(a)
    <3>1. x \in PoolStages \ {"wait"} /\ InOrder(x, at[a]) /\ stage[a] # "wait"
      BY <1>1, <1>2, <1>4, <1>8 DEF Acquire, InOrder, PoolStages, Sems
    <3>2. \A t \in Sems : Has(x, at[a], t) <=> Has(stage[a], at[a], t)
      BY <1>1, <1>2, <1>4, <1>8 DEF Acquire, InOrder, Has, Sems
    <3> HIDE DEF x
    <3>3. \A t \in Sems : /\ cur'[t] = cur[t] + (IF Has(x, at[a], t) THEN Req[a][t] ELSE 0)
                                              - (IF Has(stage[a], at[a], t) THEN Req[a][t] ELSE 0)
                          /\ cur'[t] <= Total[t]
      BY <1>3, <2>1, <3>2
    <3>4. stage' = [stage EXCEPT ![a] = x] /\ at' = [at EXCEPT ![a] = at[a]]
      BY <1>2, <2>1 DEF x
    <3> QED BY <1>2, <2>1, <3>1, <3>3, <3>4, CallerSteps
  <2>2. CASE /\ ~stopped /\ Fits(a, s) /\ Acquired(a)
             /\ cur' = [cur EXCEPT ![s] = @ + Req[a][s]] /\ UNCHANGED waiters
    BY <1>2, <1>7, <1>8, <2>2 DEF Acquire, Fits
  <2>3. CASE /\ ~stopped /\ ~Fits(a, s)
             /\ waiters' = IF Req[a][s] > Total[s] THEN waiters ELSE [waiters EXCEPT ![s] = Append(@, a)]
             /\ stage' = [stage EXCEPT ![a] = "wait"] /\ UNCHANGED <<cur, at>>
    <3>1. waiters' = [waiters EXCEPT ![s] = Append(waiters[s], a)]
      BY <1>2, <1>3, <2>3
    <3>2. InOrder("wait", s) /\ "wait" \in PoolStages /\ stage[a] # "wait"
      BY <1>8 DEF Acquire, InOrder, PoolStages
    <3>3. \A t \in Sems : Has("wait", s, t) <=> Has(stage[a], at[a], t)
      BY <1>1, <1>2, <1>8 DEF Acquire, InOrder, Has, Sems
    <3>4. \A t \in Sems : /\ cur[t] = cur[t] + (IF Has("wait", s, t) THEN Req[a][t] ELSE 0)
                                             - (IF Has(stage[a], at[a], t) THEN Req[a][t] ELSE 0)
                          /\ cur[t] <= Total[t]
      BY <1>3, <3>3
    <3>5. waiters' \in [Sems -> Seq(Callers)]
      BY <1>2, <3>1
    <3>6. ASSUME NEW t \in Sems
          PROVE  /\ NoTwice(waiters'[t])
                 /\ Range(waiters'[t]) =
                      (Range(waiters[t]) \ {a}) \union (IF "wait" = "wait" /\ s = t THEN {a} ELSE {})
      <4>1. NoTwice(waiters[t]) /\ a \notin Range(waiters[t]) /\ waiters[t] \in Seq(Callers)
        BY <1>1, <1>2, <3>2 DEF Queued
      <4>2. CASE t = s
        <5>1. waiters'[t] = Append(waiters[t], a)
          BY <1>2, <3>1, <4>2
        <5>2. NoTwice(Append(waiters[t], a)) /\ Range(Append(waiters[t], a)) = Range(waiters[t]) \union {a}
          BY <4>1, Appended
        <5> QED BY <4>1, <4>2, <5>1, <5>2
      <4>3. CASE t # s
        BY <1>2, <3>1, <4>1, <4>3
      <4> QED BY <4>2, <4>3
    <3>7. PoolOK(cur, waiters', [stage EXCEPT ![a] = "wait"], [at EXCEPT ![a] = s])
      <4>1. PoolOK(cur, waiters, stage, at)
        BY DEF PoolInv
      <4>2. Moves(cur, waiters, stage[a], at[a], a, "wait", s, cur, waiters')
        BY <3>4, <3>6 DEF Moves
      <4> QED BY <1>2, <3>2, <3>5, <4>1, <4>2, CallerMoves, Zenon
    <3> QED BY <1>2, <2>3, <3>7 DEF PoolInv
  <2> QED BY <1>8, <2>1, <2>2, <2>3 DEF Acquire
<1>9. CASE Wake(a, stopped)
  <2> DEFINE s == at[a]
  <2>1. CASE stage[a] = "granted" /\ ~stopped /\ Acquired(a) /\ UNCHANGED <<cur, waiters>>
    BY <1>2, <1>7, <2>1
  <2>2. CASE stage[a] = "granted" /\ stopped /\ Put(a, s, LockError(a)) /\ UNCHANGED at
    <3>1. LockError(a) \in PoolStages \ {"wait"} /\ InOrder(LockError(a), at[a])
      BY <1>2, <1>4 DEF InOrder, PoolStages, Sems
    <3>2. /\ Has(stage[a], at[a], s) /\ ~Has(LockError(a), at[a], s)
          /\ \A t \in Sems \ {s} : Has(stage[a], at[a], t) <=> Has(LockError(a), at[a], t)
      BY <1>2, <1>4, <2>2 DEF Has, Sems
    <3> QED BY <1>2, <2>2, <3>1, <3>2, CallerPuts
  <2>3. CASE /\ stage[a] = "wait" /\ stopped
             /\ NotifyWaiters(s, cur[s], LeaveQueue(waiters[s], a), [stage EXCEPT ![a] = LockError(a)])
             /\ UNCHANGED at
    <3> DEFINE q == LeaveQueue(waiters[s], a)
               w == [waiters EXCEPT ![s] = q]
               x == LockError(a)
    <3>1. waiters[s] \in Seq(Callers) /\ NoTwice(waiters[s]) /\ a \in Range(waiters[s])
      BY <1>1, <1>2, <2>3 DEF Queued
    <3>2. q \in Seq(Callers) /\ NoTwice(q) /\ Range(q) = Range(waiters[s]) \ {a}
      BY <3>1, LeftQueue
    <3> HIDE DEF q
    <3>3. w \in [Sems -> Seq(Callers)] /\ w[s] = q /\ \A t \in Sems \ {s} : w[t] = waiters[t]
      BY <1>2, <3>2
    <3>4. x \in PoolStages \ {"wait"} /\ InOrder(x, s)
      BY <1>2, <1>4 DEF InOrder, PoolStages, Sems
    <3>5. \A t \in Sems : Has(x, s, t) <=> Has(stage[a], at[a], t)
      BY <1>2, <1>4, <2>3 DEF Has, Sems
    <3> HIDE DEF x, w
    <3>6. ASSUME NEW t \in Sems
          PROVE  /\ NoTwice(w[t])
                 /\ Range(w[t]) = (Range(waiters[t]) \ {a}) \union (IF x = "wait" /\ s = t THEN {a} ELSE {})
      <4>1. CASE t = s
        BY <3>2, <3>3, <3>4, <4>1
      <4>2. CASE t # s
        <5>1. NoTwice(waiters[t]) /\ a \notin Range(waiters[t])
          BY <1>1, <4>2 DEF Queued
        <5> QED BY <3>3, <3>4, <4>2, <5>1
      <4> QED BY <4>1, <4>2
    <3>7. \A t \in Sems : /\ cur[t] = cur[t] + (IF Has(x, s, t) THEN Req[a][t] ELSE 0)
                                             - (IF Has(stage[a], at[a], t) THEN Req[a][t] ELSE 0)
                          /\ cur[t] <= Total[t]
      BY <1>3, <3>5
    <3>8. PoolOK(cur, w, [stage EXCEPT ![a] = x], [at EXCEPT ![a] = s])
      <4>1. PoolOK(cur, waiters, stage, at) /\ x \in PoolStages
        BY <3>4 DEF PoolInv
      <4>2. Moves(cur, waiters, stage[a], at[a], a, x, s, cur, w)
        BY <3>6, <3>7 DEF Moves
      <4> QED BY <1>2, <3>3, <3>4, <4>1, <4>2, CallerMoves, Zenon
    <3>9. [cur EXCEPT ![s] = cur[s]] = cur
      BY <1>2
    <3>10. PoolOK([cur EXCEPT ![s] = cur[s]], [waiters EXCEPT ![s] = q], [stage EXCEPT ![a] = x], at)
      BY <1>2, <3>8, <3>9 DEF w
    <3>11. NotifyWaiters(s, cur[s], q, [stage EXCEPT ![a] = x]) /\ at' = at
      BY <2>3 DEF q, x
    <3> QED BY <1>2, <3>10, <3>11, WaitersNotified
  <2> QED BY <1>9, <2>1, <2>2, <2>3 DEF Wake
<1> QED BY <1>5, <1>6, <1>8, <1>9 DEF PoolRun

(* So does the return of LocalPool.Run.                                    *)
LEMMA PoolReturnKeeps ==
  ASSUME PoolInv, NEW a \in Callers, PoolReturn(a)
  PROVE  PoolInv'
<1>1. /\ PoolTypes(cur, waiters, stage, at) /\ Conserved(cur, stage, at)
  BY DEF PoolInv, PoolOK
<1>2. \A s \in Sems : Req[a][s] \in Nat /\ cur[s] \in Nat /\ cur[s] <= Total[s]
  BY <1>1, CappedRequests DEF PoolTypes, Conserved
<1>3. \A s \in Sems : ~Has("idle", "cpu", s) /\ ~Has(stage[a], at[a], s)
  BY DEF PoolReturn, Has
<1>4. \A s \in Sems : /\ cur'[s] = cur[s] + (IF Has("idle", "cpu", s) THEN Req[a][s] ELSE 0)
                                          - (IF Has(stage[a], at[a], s) THEN Req[a][s] ELSE 0)
                      /\ cur'[s] <= Total[s]
  BY <1>2, <1>3 DEF PoolReturn
<1>5. cur' \in [Sems -> Int]
  BY <1>1 DEF PoolReturn, PoolTypes
<1>6. "idle" \in PoolStages \ {"wait"} /\ "cpu" \in Sems /\ InOrder("idle", "cpu")
  BY DEF PoolStages, Sems, InOrder
<1>7. /\ stage' = [stage EXCEPT ![a] = "idle"] /\ at' = [at EXCEPT ![a] = "cpu"]
      /\ waiters' = waiters /\ stage[a] # "wait"
  BY DEF PoolReturn
<1> QED BY <1>4, <1>5, <1>6, <1>7, CallerSteps, Zenon

(* The tokens of both semaphores are those of their holders, for any       *)
(* commands, racers, labels and sizes of the machine (manager.go:62-84).   *)
THEOREM TokensAreConserved == AdmissionSpec => []TokensConserved
<1>1. AdmissionInit => PoolInv
  <2> SUFFICES ASSUME PoolInit PROVE PoolInv
    BY DEF AdmissionInit
  <2>1. PoolTypes(cur, waiters, stage, at) /\ \A a \in Callers : InOrder(stage[a], at[a])
    BY DEF PoolInit, PoolTypes, InOrder, PoolStages, Sems
  <2>2. Queued(waiters, stage, at)
    BY DEF PoolInit, Queued, NoTwice, Range
  <2>3. ASSUME NEW s \in Sems PROVE cur[s] = Demand(s, Holders(stage, at, s)) /\ cur[s] <= Total[s]
    <3>1. Holders(stage, at, s) = {}
      BY DEF PoolInit, Holders, Has
    <3>2. Total[s] \in Nat
      BY PoolAssumption DEF Total, NewManager, AtLeastOne, Sems
    <3>3. Demand(s, {}) = 0
      BY DemandOfSets
    <3>4. cur[s] = 0
      BY DEF PoolInit
    <3> QED BY <3>1, <3>2, <3>3, <3>4
  <2> QED BY <2>1, <2>2, <2>3 DEF PoolInv, PoolOK, Conserved
<1>2. PoolInv /\ [AdmissionNext]_allVars => PoolInv'
  <2> SUFFICES ASSUME PoolInv, [AdmissionNext]_allVars PROVE PoolInv'
    OBVIOUS
  <2>1. ASSUME UNCHANGED poolVars PROVE PoolInv'
    BY <2>1 DEF poolVars, PoolInv
  <2>2. Actions \subseteq Callers /\ Racers \subseteq Callers
    BY AdmissionAssumption
  <2>3. ASSUME NEW a \in Actions, PoolStep(a) \/ LocalRunReturns(a) \/ RemoteReturns(a) \/ CommandStep(a)
        PROVE  PoolInv'
    <3>1. (a \in cancelled) \in BOOLEAN
      OBVIOUS
    <3> QED BY <2>1, <2>2, <2>3, <3>1, PoolRunKeeps, PoolReturnKeeps
            DEF PoolStep, LocalRunReturns, RemoteReturns, CommandStep
  <2>4. ASSUME NEW r \in Racers, RacerStep(r) \/ RemoteWinsRace(r) PROVE PoolInv'
    <3>1. (race[r] = "lost") \in BOOLEAN
      OBVIOUS
    <3> QED BY <2>1, <2>2, <2>4, <3>1, PoolRunKeeps, PoolReturnKeeps DEF RacerStep, RemoteWinsRace
  <2>5. CASE UNCHANGED allVars
    BY <2>1, <2>5 DEF allVars
  <2> QED BY <2>1, <2>3, <2>4, <2>5 DEF AdmissionNext, MonitorStep
<1>3. PoolInv => TokensConserved
  <2>1. \A s \in Sems : Holders(stage, at, s) = {a \in Callers : Holds(a, s)}
    BY DEF Holders, Has, Holds
  <2> QED BY <2>1 DEF PoolInv, PoolOK, Conserved, TokensConserved
<1> QED BY <1>1, <1>2, <1>3, PTL DEF AdmissionSpec
==============================================================================
