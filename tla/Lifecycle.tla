------------------------------ MODULE Lifecycle ------------------------------
(***************************************************************************)
(* rewrapper (cmd/rewrapper, internal/pkg/rewrapper) on the processes of   *)
(* Bootstrap, and reproxy's idle timeout (reproxy/timeout.go,              *)
(* interceptors.go).  A rewrapper sends its command to whichever reproxy   *)
(* has the address and retries while errors are temporary and the dial     *)
(* timeout has not passed.                                                 *)
(***************************************************************************)
EXTENDS Bootstrap

CONSTANTS
  Wrappers, \* runs of rewrapper
  Offline   \* those with --offline

VARIABLES
  wrap,   \* wrap[w]: control state of each rewrapper
  to,     \* to[w]: the reproxy that it talks to
  late,   \* late[w]: more than dial_timeout has passed
  ran,    \* ran[w]: exit codes of the runs of its command since the last request
  exit    \* exit[w]: what rewrapper exits with

wrapVars == <<wrap, to, late, ran, exit>>
allVars == <<bootstrapVars, wrapVars>>

LifeInit ==
  /\ BootInit
  /\ wrap = [w \in Wrappers |-> "new"] /\ to = [w \in Wrappers |-> None]
  /\ late = [w \in Wrappers |-> FALSE]
  /\ ran = [w \in Wrappers |-> {}] /\ exit = [w \in Wrappers |-> -1]

Exits(w, code) == wrap' = [wrap EXCEPT ![w] = "exited"] /\ exit' = [exit EXCEPT ![w] = code]

(* Flags that do not fit, no socket at the address, a working directory    *)
(* outside of the exec root.                                               *)
CannotRun(w) ==
  /\ wrap[w] = "new" /\ w \notin Offline
  /\ Exits(w, 1)
  /\ UNCHANGED <<bootstrapVars, to, late, ran>>

(* createRequest reads the lists of inputs and outputs and parses the      *)
(* virtual inputs, each of which needs a path and a digest.                *)
CreateRequest(w) ==
  /\ wrap[w] = "new" /\ w \notin Offline
  /\ \/ wrap' = [wrap EXCEPT ![w] = "retry"] /\ UNCHANGED exit
     \/ Exits(w, 1)
  /\ UNCHANGED <<bootstrapVars, to, late, ran>>

(* The command is run directly, if it can be started.  What Wait           *)
(* returns is not looked at: the error that is tested is that of Start.    *)
ExitCodeOffline(code) == 0
RunOffline(w) ==
  /\ wrap[w] = "new" /\ w \in Offline
  /\ \/ \E code \in {0, 1} :
          ran' = [ran EXCEPT ![w] = {code}] /\ Exits(w, ExitCodeOffline(code))
     \/ Exits(w, 1) /\ UNCHANGED ran
  /\ UNCHANGED <<bootstrapVars, to, late>>

(* One attempt: with the dial timeout past it is an error that is not      *)
(* retried; with nobody at the address the error is Unavailable.           *)
NeverTooLate(w) == FALSE
TooLate(w) == late[w]
Attempt(w) ==
  /\ wrap[w] = "retry"
  /\ \/ TooLate(w) /\ Exits(w, 1) /\ UNCHANGED <<to, ran>>
     \/ /\ ~TooLate(w) /\ ~Reachable
        /\ wrap' = [wrap EXCEPT ![w] = "retry"]
        /\ UNCHANGED <<to, ran, exit>>
     \/ /\ ~TooLate(w) /\ Reachable
        /\ wrap' = [wrap EXCEPT ![w] = "sent"]
        /\ to' = [to EXCEPT ![w] = addr]
        /\ ran' = [ran EXCEPT ![w] = {}]
        /\ UNCHANGED exit
  /\ UNCHANGED <<bootstrapVars, late>>
TimePasses(w) ==
  /\ wrap[w] \in {"sent", "retry"} /\ ~late[w]
  /\ late' = [late EXCEPT ![w] = TRUE]
  /\ UNCHANGED <<bootstrapVars, wrap, to, ran, exit>>

(* reproxy runs the command and answers; a reproxy that drains may cancel  *)
(* it, one that is gone has closed the connection: both errors are         *)
(* retried.  With --fail_on_mismatch a mismatch also fails the command.    *)
(* The RunCommand rpc has no deadline.                                     *)
Executes(w) ==
  /\ wrap[w] = "sent" /\ reproxy[to[w]] \in {"listening", "draining"}
  /\ \E code \in {0, 1} :
       ran' = [ran EXCEPT ![w] = {code}] /\ wrap' = [wrap EXCEPT ![w] = "ran"]
  /\ UNCHANGED <<bootstrapVars, to, late, exit>>
Answered(w) ==
  /\ wrap[w] = "ran" /\ Alive(to[w])
  /\ \E code \in ran[w] \union {1} : Exits(w, code)
  /\ UNCHANGED <<bootstrapVars, to, late, ran>>
Cancelled(w) ==
  /\ wrap[w] = "sent" /\ reproxy[to[w]] = "draining"
  /\ wrap' = [wrap EXCEPT ![w] = "retry"]
  /\ UNCHANGED <<bootstrapVars, to, late, ran, exit>>
ConnectionLost(w) ==
  /\ wrap[w] \in {"sent", "ran"} /\ ~Alive(to[w])
  /\ wrap' = [wrap EXCEPT ![w] = "retry"]
  /\ UNCHANGED <<bootstrapVars, to, late, ran, exit>>

(* reproxy answers the rpcs in flight before it exits.                     *)
Waits(w) == wrap[w] \in {"sent", "ran"}
HasRequest(p) ==
  \/ \E w \in Wrappers : Waits(w) /\ to[w] = p
  \/ pc = "events" /\ peer = p
ReproxyStep(p) ==
  /\ Listen(p) \/ Serve(p) \/ LogExit(p) \/ MainReturns(p) \/ (~HasRequest(p) /\ Drained(p))
  /\ UNCHANGED wrapVars

(* The interceptors note when the latest request came in, not when it      *)
(* ended; IdleTimeout interrupts the process when that is too long ago,    *)
(* which can also happen while a command runs.                             *)
IdleTimeout(p) ==
  /\ Interrupt(p)
  /\ UNCHANGED wrapVars

Wrapper(w) ==
  CannotRun(w) \/ CreateRequest(w) \/ RunOffline(w) \/ Attempt(w) \/ ConnectionLost(w)
Reply(w) == Executes(w) \/ Answered(w) \/ Cancelled(w)
BootStep(A) == A /\ UNCHANGED wrapVars
LifeNext ==
  \/ \E w \in Wrappers : Wrapper(w) \/ Reply(w) \/ TimePasses(w)
  \/ \E p \in Pids : ReproxyStep(p) \/ IdleTimeout(p) \/ BootStep(Crash(p))
  \/ \E o \in {"start", "shutdown", "async"} : BootStep(Begin(o))
  \/ BootStep(Main) \/ BootStep(EventsAnswered) \/ BootStep(Goroutines)

(* The goroutines of bootstrap and rewrapper run on and their timers fire. *)
(* Nothing is assumed of reproxy: it may hang in its start-up, with a      *)
(* request, or when it drains.                                             *)
LifeSpec ==
  /\ LifeInit /\ [][LifeNext]_allVars
  /\ WF_allVars(BootStep(Main)) /\ WF_allVars(BootStep(Goroutines))
  /\ \A w \in Wrappers : WF_allVars(Wrapper(w))
  /\ \A w \in Wrappers \ Offline : WF_allVars(TimePasses(w))

-----------------------------------------------------------------------------
(* bootstrap and rewrapper end, whatever reproxy does: it may crash, exit  *)
(* at once with code 0, never come up or hang while it drains.  A tool     *)
(* that does not end waits for the answer of a live reproxy to the one     *)
(* request that it is sending: RunCommand and AddProxyEvents have no       *)
(* deadline (bootstrap.go:67-100, 201-240; rewrapper.go:99-124).           *)
ToolsReturn ==
  /\ []<>(pc = "idle") \/ <>[](pc = "events" /\ Alive(peer))
  /\ \A w \in Wrappers \ Offline : <>(wrap[w] = "exited") \/ <>[](Waits(w) /\ Alive(to[w]))

(* rewrapper exits with code 0 only if its command did: the statements     *)
(* after a direct run take "exitErr.ExitCode()" for the exit code          *)
(* (cmd/rewrapper/main.go:141-143).                                        *)
SuccessIsReal == \A w \in Wrappers : exit[w] = 0 => 0 \in ran[w]
==============================================================================
