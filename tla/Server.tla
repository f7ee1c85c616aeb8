------------------------------- MODULE Server -------------------------------
(***************************************************************************)
(* The life of a reproxy server: asynchronous start-up, admission of       *)
(* RunCommand rpcs, draining, shutdown and release of resources            *)
(* (internal/pkg/reproxy/server.go, cmd/reproxy/main.go).                  *)
(*                                                                         *)
(* The goroutines are the two initializers, one per RunCommand rpc with    *)
(* the goroutine that cancels it when the server drains, one per Shutdown  *)
(* rpc, the one that runs the body of DrainAndReleaseResources, the one    *)
(* that runs the cleanup functions, and main's signal loop.                *)
(***************************************************************************)
EXTENDS Naturals, FiniteSets

CONSTANTS
  Commands,   \* RunCommand rpcs
  Shutdowns,  \* Shutdown rpcs
  SigCnt      \* signals that stop the server: 1, or 3 with wait_for_shutdown_rpc

ASSUME ServerAssumption == SigCnt \in {1, 3}

(* What start-up creates: the input processor and the RE client.           *)
Resource == {"ip", "re"}

VARIABLES
  init,         \* control state of each initializer
  initCanceled, \* initCtx is cancelled (cancelInit, StartupCancelFn)
  resources,    \* s.InputProcessor and s.REClient: those that are set
  startErr,     \* s.startErr is set
  started,      \* s.started is closed
  cleanupFns,   \* s.cleanupFns
  toClean,      \* cleanup functions that the cleanup goroutine has yet to run
  cleaned,      \* how often each cleanup function has run
  cmd,          \* control state of each RunCommand
  ctxDone,      \* the contexts of RunCommand that are done
  drain,        \* s.drain is closed
  drainCalled,  \* somebody has called DrainAndReleaseResources
  rr,           \* progress of the body of rrOnce
  atDrain,      \* history: the commands admitted when drain was closed
  stats,        \* s.stats is populated and the Logger closed
  cleanupDone,  \* s.cleanupDone is closed
  shutdown,     \* control state of each Shutdown
  shutdownCmd,  \* s.shutdownCmd is closed, by the body of shutdownOnce
  sigs,         \* main: signals still needed to stop
  server        \* control state of main's signal loop

startVars == <<init, initCanceled, resources, startErr, started>>
cmdVars   == <<cmd, ctxDone>>
drainVars == <<drain, drainCalled, rr, atDrain, stats, cleanupDone>>
mainVars  == <<shutdown, shutdownCmd, sigs, server>>
vars == <<startVars, cleanupFns, toClean, cleaned, cmdVars, drainVars, mainVars>>

TypeOK ==
  /\ init \in [Resource -> {"creating", "created", "failed", "cancel", "done"}]
  /\ initCanceled \in BOOLEAN
  /\ resources \subseteq Resource
  /\ startErr \in BOOLEAN /\ started \in BOOLEAN
  /\ cleanupFns \subseteq Resource /\ toClean \subseteq Resource
  /\ cleaned \in [Resource -> Nat]
  /\ cmd \in [Commands -> {"idle", "check", "waitStarted", "add", "active", "answered"}]
  /\ ctxDone \subseteq Commands
  /\ drain \in BOOLEAN /\ drainCalled \in BOOLEAN
  /\ rr \in {"idle", "waitStarted", "waitGroup", "aggregate", "cleaning", "done"}
  /\ atDrain \subseteq Commands
  /\ stats \in BOOLEAN /\ cleanupDone \in BOOLEAN
  /\ shutdown \in [Shutdowns -> {"idle", "called", "inOnce", "answered"}]
  /\ shutdownCmd \in BOOLEAN
  /\ sigs \in 0 .. SigCnt
  /\ server \in {"serving", "stopping", "waitCleanup", "exited"}

(* With remote_disabled the RE client exists before the server runs.       *)
Init ==
  /\ init \in {f \in [Resource -> {"creating", "created"}] : f["ip"] = "creating"}
  /\ initCanceled = FALSE
  /\ resources = {} /\ startErr = FALSE /\ started = FALSE
  /\ cleanupFns = {} /\ toClean = {} /\ cleaned = [r \in Resource |-> 0]
  /\ cmd = [c \in Commands |-> "idle"] /\ ctxDone = {}
  /\ drain = FALSE /\ drainCalled = FALSE /\ rr = "idle" /\ atDrain = {}
  /\ stats = FALSE /\ cleanupDone = FALSE
  /\ shutdown = [s \in Shutdowns |-> "idle"] /\ shutdownCmd = FALSE
  /\ sigs = SigCnt /\ server = "serving"

-----------------------------------------------------------------------------
(* Start-up.                                                               *)

(* An initializer is at this point, and the process has not exited.        *)
At(r, pc) == init[r] = pc /\ server # "exited"

(* NewInputProcessor or NewClientFromFlags returns.                        *)
Created(r) ==
  /\ At(r, "creating")
  /\ init' = [init EXCEPT ![r] = "created"]
  /\ UNCHANGED <<initCanceled, resources, startErr, started, cleanupFns, toClean, cleaned,
                 cmdVars, drainVars, mainVars>>

CreationFails(r) ==
  /\ At(r, "creating")
  /\ init' = [init EXCEPT ![r] = "failed"]
  /\ UNCHANGED <<initCanceled, resources, startErr, started, cleanupFns, toClean, cleaned,
                 cmdVars, drainVars, mainVars>>

(* maybeUnblockStartup, with the error and resources the caller has just   *)
(* written.                                                                *)
MaybeUnblockStartup(err, res) == started' = (started \/ err \/ res = Resource)

(* After a start-up error a resource is released at once.                  *)
ReleaseAndRegister(r) ==
  /\ cleaned' = [cleaned EXCEPT ![r] = @ + 1]
  /\ resources' = resources \union {r}
  /\ cleanupFns' = cleanupFns \union {r}
  /\ UNCHANGED started
ReleaseAtOnce(r) ==
  /\ cleaned' = [cleaned EXCEPT ![r] = @ + 1]
  /\ UNCHANGED <<resources, cleanupFns, started>>

(* SetInputProcessor and SetREClient, under smu.                           *)
SetResource(r) ==
  /\ At(r, "created")
  /\ init' = [init EXCEPT ![r] = "done"]
  /\ IF startErr
     THEN ReleaseAtOnce(r)
     ELSE /\ resources' = resources \union {r}
          /\ cleanupFns' = cleanupFns \union {r}
          /\ MaybeUnblockStartup(FALSE, resources')
          /\ UNCHANGED cleaned
  /\ UNCHANGED <<initCanceled, startErr, toClean, cmdVars, drainVars, mainVars>>

(* SetStartupErr, under smu; only the first error counts.                  *)
SetStartupErr(r) ==
  /\ At(r, "failed")
  /\ init' = [init EXCEPT ![r] = "cancel"]
  /\ startErr' = TRUE
  /\ MaybeUnblockStartup(TRUE, resources)
  /\ UNCHANGED <<initCanceled, resources, cleanupFns, toClean, cleaned, cmdVars, drainVars, mainVars>>

CancelInit(r) ==
  /\ At(r, "cancel")
  /\ init' = [init EXCEPT ![r] = "done"]
  /\ initCanceled' = TRUE
  /\ UNCHANGED <<resources, startErr, started, cleanupFns, toClean, cleaned, cmdVars,
                 drainVars, mainVars>>

-----------------------------------------------------------------------------
(* RunCommand, from its arrival to the point where it is counted in        *)
(* wgShutdown, and its end.                                                *)

InFlight(c) == cmd[c] \notin {"idle", "answered"}
Admitted == {c \in Commands : cmd[c] = "active"}

(* withServerDrainCancel derives the context and starts the goroutine that *)
(* cancels it.                                                             *)
CommandArrives(c) ==
  /\ server = "serving"
  /\ cmd[c] = "idle"
  /\ cmd' = [cmd EXCEPT ![c] = "check"]
  /\ UNCHANGED <<startVars, cleanupFns, toClean, cleaned, ctxDone, drainVars, mainVars>>

(* That goroutine notices the drain, or the client gives up.               *)
CommandCtxDone(c) ==
  /\ InFlight(c)
  /\ c \notin ctxDone
  /\ ctxDone' = ctxDone \union {c}
  /\ UNCHANGED <<startVars, cleanupFns, toClean, cleaned, cmd, drainVars, mainVars>>

CancelOnDrain(c) == drain /\ CommandCtxDone(c)

(* "Short circuit if server is already shutting down".                     *)
CheckDrain(c) ==
  /\ cmd[c] = "check"
  /\ cmd' = [cmd EXCEPT ![c] = IF c \in ctxDone THEN "answered" ELSE "waitStarted"]
  /\ UNCHANGED <<startVars, cleanupFns, toClean, cleaned, ctxDone, drainVars, mainVars>>

WaitForStarted(c) ==
  /\ cmd[c] = "waitStarted"
  /\ \/ started /\ cmd' = [cmd EXCEPT ![c] = IF startErr THEN "answered" ELSE "add"]
     \/ c \in ctxDone /\ cmd' = [cmd EXCEPT ![c] = "answered"]
  /\ UNCHANGED <<startVars, cleanupFns, toClean, cleaned, ctxDone, drainVars, mainVars>>

AddToGroup(c) ==
  /\ cmd[c] = "add"
  /\ cmd' = [cmd EXCEPT ![c] = "active"]
  /\ UNCHANGED <<startVars, cleanupFns, toClean, cleaned, ctxDone, drainVars, mainVars>>

(* The action ends, also early because its context is done, and the rpc    *)
(* leaves wgShutdown.                                                      *)
CommandEnds(c) ==
  /\ cmd[c] = "active"
  /\ cmd' = [cmd EXCEPT ![c] = "answered"]
  /\ UNCHANGED <<startVars, cleanupFns, toClean, cleaned, ctxDone, drainVars, mainVars>>

-----------------------------------------------------------------------------
(* DrainAndReleaseResources.  rrOnce lets one caller run the body; the     *)
(* others wait for it to end.                                              *)

CloseDrain ==
  /\ drain' = TRUE
  /\ atDrain' = Admitted
  /\ rr' = "waitGroup"

(* The body starts: without a finished start-up it cancels start-up first. *)
DrainBegins ==
  /\ drainCalled
  /\ rr = "idle"
  /\ \/ started /\ CloseDrain /\ UNCHANGED initCanceled
     \/ ~started /\ rr' = "waitStarted" /\ initCanceled' = TRUE /\ UNCHANGED <<drain, atDrain>>
  /\ UNCHANGED <<init, resources, startErr, started, cleanupFns, toClean, cleaned, cmdVars,
                 drainCalled, stats, cleanupDone, mainVars>>

StartupOver ==
  /\ rr = "waitStarted"
  /\ started
  /\ CloseDrain
  /\ UNCHANGED <<startVars, cleanupFns, toClean, cleaned, cmdVars, drainCalled, stats,
                 cleanupDone, mainVars>>

GroupNotAwaited == TRUE
WgZero == Admitted = {}

(* wgShutdown.Wait returns.                                                *)
GroupEmpty ==
  /\ rr = "waitGroup"
  /\ WgZero
  /\ rr' = "aggregate"
  /\ UNCHANGED <<startVars, cleanupFns, toClean, cleaned, cmdVars, drain, drainCalled,
                 atDrain, stats, cleanupDone, mainVars>>

(* Logger.CloseAndAggregate; the cleanup functions run in a goroutine.     *)
CloseAndAggregate ==
  /\ rr = "aggregate"
  /\ rr' = "cleaning"
  /\ stats' = TRUE
  /\ toClean' = cleanupFns
  /\ UNCHANGED <<startVars, cleanupFns, cleaned, cmdVars, drain, drainCalled,
                 atDrain, cleanupDone, mainVars>>

RunCleanup(r) ==
  /\ rr = "cleaning"
  /\ r \in toClean
  /\ toClean' = toClean \ {r}
  /\ cleaned' = [cleaned EXCEPT ![r] = @ + 1]
  /\ UNCHANGED <<startVars, cleanupFns, cmdVars, drainVars, mainVars>>

CleanupEnds ==
  /\ rr = "cleaning"
  /\ toClean = {}
  /\ rr' = "done"
  /\ cleanupDone' = TRUE
  /\ UNCHANGED <<startVars, cleanupFns, toClean, cleaned, cmdVars, drain, drainCalled,
                 atDrain, stats, mainVars>>

-----------------------------------------------------------------------------
(* Shutdown.                                                               *)

ShutdownArrives(s) ==
  /\ server = "serving"
  /\ shutdown[s] = "idle"
  /\ shutdown' = [shutdown EXCEPT ![s] = "called"]
  /\ UNCHANGED <<startVars, cleanupFns, toClean, cleaned, cmdVars, drainVars, shutdownCmd,
                 sigs, server>>

(* The first caller runs the body of shutdownOnce.                         *)
ShutdownFirst(s) ==
  /\ shutdown[s] = "called"
  /\ ~shutdownCmd
  /\ shutdownCmd' = TRUE
  /\ drainCalled' = TRUE
  /\ shutdown' = [shutdown EXCEPT ![s] = "inOnce"]
  /\ UNCHANGED <<startVars, cleanupFns, toClean, cleaned, cmdVars, drain, rr, atDrain,
                 stats, cleanupDone, sigs, server>>

OnceEntered == rr # "idle"
OnceDoneMissed == rr = "cleaning"
OnceDone == rr \in {"cleaning", "done"}

(* DrainAndReleaseResources has returned to the first caller.              *)
ShutdownDrained(s) ==
  /\ shutdown[s] = "inOnce"
  /\ OnceDone
  /\ shutdown' = [shutdown EXCEPT ![s] = "answered"]
  /\ UNCHANGED <<startVars, cleanupFns, toClean, cleaned, cmdVars, drainVars, shutdownCmd,
                 sigs, server>>

(* Every other caller waits for the body of shutdownOnce to end.           *)
ShutdownOther(s) ==
  /\ shutdown[s] = "called"
  /\ shutdownCmd
  /\ \A t \in Shutdowns : shutdown[t] # "inOnce"
  /\ shutdown' = [shutdown EXCEPT ![s] = "answered"]
  /\ UNCHANGED <<startVars, cleanupFns, toClean, cleaned, cmdVars, drainVars, shutdownCmd,
                 sigs, server>>

-----------------------------------------------------------------------------
(* main's signal loop.                                                     *)

InSignalLoop == server = "serving" /\ sigs > 0

Signal ==
  /\ InSignalLoop
  /\ sigs' = sigs - 1
  /\ drainCalled' = TRUE
  /\ UNCHANGED <<startVars, cleanupFns, toClean, cleaned, cmdVars, drain, rr, atDrain,
                 stats, cleanupDone, shutdown, shutdownCmd, server>>

ShutdownNoticed ==
  /\ InSignalLoop
  /\ shutdownCmd
  /\ sigs' = 0
  /\ UNCHANGED <<startVars, cleanupFns, toClean, cleaned, cmdVars, drainVars, shutdown,
                 shutdownCmd, server>>

(* grpcServer.GracefulStop: no new rpc is accepted, the pending ones end.  *)
StopServing ==
  /\ server = "serving"
  /\ sigs = 0
  /\ server' = "stopping"
  /\ UNCHANGED <<startVars, cleanupFns, toClean, cleaned, cmdVars, drainVars, shutdown,
                 shutdownCmd, sigs>>

Stopped ==
  /\ server = "stopping"
  /\ \A c \in Commands : ~InFlight(c)
  /\ \A s \in Shutdowns : shutdown[s] \in {"idle", "answered"}
  /\ server' = "waitCleanup"
  /\ UNCHANGED <<startVars, cleanupFns, toClean, cleaned, cmdVars, drainVars, shutdown,
                 shutdownCmd, sigs>>

Exit ==
  /\ server = "waitCleanup"
  /\ cleanupDone
  /\ server' = "exited"
  /\ UNCHANGED <<startVars, cleanupFns, toClean, cleaned, cmdVars, drainVars, shutdown,
                 shutdownCmd, sigs>>

-----------------------------------------------------------------------------
InitStep(r) ==
  Created(r) \/ CreationFails(r) \/ SetResource(r) \/ SetStartupErr(r) \/ CancelInit(r)
CommandStep(c) == CheckDrain(c) \/ WaitForStarted(c) \/ AddToGroup(c)
DrainStep ==
  \/ DrainBegins \/ StartupOver \/ GroupEmpty \/ CloseAndAggregate
  \/ CleanupEnds \/ \E r \in Resource : RunCleanup(r)
ShutdownStep(s) == ShutdownFirst(s) \/ ShutdownDrained(s) \/ ShutdownOther(s)
MainStep == ShutdownNoticed \/ StopServing \/ Stopped \/ Exit

Next ==
  \/ DrainStep \/ MainStep \/ Signal
  \/ \E r \in Resource : InitStep(r)
  \/ \E c \in Commands : CommandArrives(c) \/ CommandCtxDone(c) \/ CommandStep(c) \/ CommandEnds(c)
  \/ \E s \in Shutdowns : ShutdownArrives(s) \/ ShutdownStep(s)

Spec == Init /\ [][Next]_vars

(* Goroutines are scheduled and initializers return.  An action whose      *)
(* context is done ends; one whose context is live may run for ever.       *)
FairSpec ==
  /\ Spec
  /\ \A r \in Resource : WF_vars(InitStep(r))
  /\ WF_vars(DrainStep)
  /\ WF_vars(MainStep)
  /\ \A c \in Commands :
       /\ WF_vars(CommandStep(c))
       /\ WF_vars(CancelOnDrain(c))
       /\ WF_vars(c \in ctxDone /\ CommandEnds(c))
  /\ \A s \in Shutdowns : WF_vars(ShutdownStep(s))

-----------------------------------------------------------------------------
(* Properties.                                                             *)

(* A command runs only after start-up has succeeded: both the input        *)
(* processor and the RE client are there, whatever the order in which the  *)
(* initializers end and fail.                                              *)
CommandsFindServerStarted ==
  Admitted # {} => started /\ ~startErr /\ resources = Resource

(* Every command admitted before the drain has ended before the Logger is  *)
(* closed and the statistics are aggregated.                               *)
DrainWaitsForCommands == stats => atDrain \intersect Admitted = {}

(* Every Shutdown is answered with the statistics, also one that arrives   *)
(* while a signal or another Shutdown is draining the server ("Ensure      *)
(* DrainAndReleaseResources has been called to guarentee that s.stats is   *)
(* populated", server.go:367).                                             *)
ShutdownReturnsStats == \A s \in Shutdowns : shutdown[s] = "answered" => stats

(* No resource is released twice, and none before the commands that the    *)
(* drain waited for have ended; when the cleanup is announced every        *)
(* resource that was handed to the server has been released.               *)
ResourcesReleasedOnce ==
  /\ \A r \in Resource : cleaned[r] <= 1
  /\ \A r \in resources : cleaned[r] = 1 => atDrain \intersect Admitted = {} /\ stats
  /\ cleanupDone => \A r \in resources : cleaned[r] = 1

(* "prevents future RunCommand rpcs" (server.go:331): no command is        *)
(* running when the Logger has been closed.                                *)
NoCommandAfterDrain == stats => Admitted = {}

(* A signal or a Shutdown makes the process exit in the end, whatever      *)
(* start-up and the commands are doing, and every rpc is answered: a       *)
(* command that waits for start-up is released by start-up, by its failure *)
(* or by the drain, and every admitted command ends once the server        *)
(* drains.                                                                 *)
DrainEnds ==
  /\ (shutdownCmd \/ sigs = 0) ~> (server = "exited")
  /\ \A c \in Commands : (cmd[c] \in {"check", "waitStarted"}) ~> (cmd[c] \in {"active", "answered"})
  /\ \A c \in Commands : (drain /\ cmd[c] = "active") ~> (cmd[c] = "answered")
  /\ \A s \in Shutdowns : (shutdown[s] = "called") ~> (shutdown[s] = "answered")
=============================================================================
