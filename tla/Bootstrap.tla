------------------------------ MODULE Bootstrap ------------------------------
(***************************************************************************)
(* The life of reproxy processes at one address: bootstrap starts them and *)
(* shuts them down (cmd/bootstrap, internal/pkg/bootstrap), the PID file   *)
(* of internal/pkg/reproxypid says which one it is, and reproxy deletes    *)
(* that file when it ends (cmd/reproxy/main.go).                           *)
(*                                                                         *)
(* One bootstrap runs at a time; inside it the goroutines that send the    *)
(* Shutdown rpc and that poll for the death of reproxy run on beside the   *)
(* main one.  A time limit may be reached at any moment.                   *)
(***************************************************************************)
EXTENDS Integers, FiniteSets

CONSTANTS
  Pids,     \* processes that can be started
  Unix,     \* the address is a Unix domain socket
  Fast,     \* --fast_log_collection
  MaxBoots  \* bound: runs of bootstrap

None == 0
ASSUME BootstrapAssumption ==
  None \notin Pids /\ Unix \in BOOLEAN /\ Fast \in BOOLEAN /\ MaxBoots \in Nat

VARIABLES
  reproxy,  \* reproxy[p]: the state of each reproxy process
  failed,   \* processes that ended with an exit code other than 0
  pidFile,  \* the PID file
  addr,     \* the process that a dial reaches
  boots,    \* runs of bootstrap begun
  op,       \* what bootstrap was asked to do: "start", "shutdown" or "async"
  pc,       \* control state of its main goroutine
  target,   \* pf.Pid
  new,      \* cmd.Process.Pid
  peer,     \* the process that startProxy is connected to
  poll,     \* control state of PollForDeath
  rpc,      \* control state of sendShutdownRPC
  rpcTo,    \* the process that it talks to
  done,     \* outcome of the last run of bootstrap
  expired   \* history: a shutdown gave up waiting

reproxyVars == <<reproxy, failed>>
shutVars == <<target, poll, rpc, rpcTo>>
bootVars == <<boots, op, pc, new, peer, done, expired>>
bootstrapVars == <<reproxyVars, pidFile, addr, shutVars, bootVars>>

Nothing == [op |-> "none", ok |-> FALSE, pid |-> None, stats |-> "none"]

BootInit ==
  /\ reproxy = [p \in Pids |-> "none"] /\ failed = {}
  /\ pidFile = None /\ addr = None
  /\ boots = 0 /\ op = "start" /\ pc = "idle" /\ new = None /\ peer = None
  /\ done = Nothing /\ expired = FALSE
  /\ target = None /\ poll = "off" /\ rpc = "off" /\ rpcTo = None

Alive(p) == reproxy[p] \notin {"none", "exited"}
Serving(p) == reproxy[p] = "listening"

-----------------------------------------------------------------------------
(* reproxy.  Listen on a Unix socket removes whatever is there; on TCP it  *)
(* fails if the address is in use.  Flags, credentials and files can be    *)
(* wrong before and after, and log.Exit runs no deferred function.  A dial *)
(* only succeeds once the process serves.                                  *)
Listen(p) ==
  /\ reproxy[p] = "starting"
  /\ Unix \/ addr = None
  /\ reproxy' = [reproxy EXCEPT ![p] = "bound"]
  /\ addr' = p
  /\ UNCHANGED <<failed, pidFile, shutVars, bootVars>>
LogExit(p) ==
  /\ reproxy[p] \in {"starting", "bound"}
  /\ reproxy' = [reproxy EXCEPT ![p] = "exited"]
  /\ failed' = failed \union {p}
  /\ addr' = IF addr = p THEN None ELSE addr
  /\ UNCHANGED <<pidFile, shutVars, bootVars>>
Serve(p) ==
  /\ reproxy[p] = "bound"
  /\ reproxy' = [reproxy EXCEPT ![p] = "listening"]
  /\ UNCHANGED <<failed, pidFile, addr, shutVars, bootVars>>
Reachable == addr # None /\ Serving(addr)

(* GracefulStop closes the listener, which unlinks a Unix socket, whoever  *)
(* is bound to it by now.  Interrupt is the signal that reproxy waits for: *)
(* with --wait_for_shutdown_rpc, that is the third.                        *)
Unbound(p) == IF Unix \/ addr = p THEN None ELSE addr
Interrupt(p) ==
  /\ Serving(p)
  /\ reproxy' = [reproxy EXCEPT ![p] = "draining"]
  /\ addr' = Unbound(p)
  /\ UNCHANGED <<failed, pidFile, shutVars, bootVars>>

(* The commands are drained, and a pending Shutdown rpc gets the stats.    *)
Drained(p) ==
  /\ reproxy[p] = "draining"
  /\ reproxy' = [reproxy EXCEPT ![p] = "cleanup"]
  /\ rpc' = IF rpc = "sent" /\ rpcTo = p THEN "stats" ELSE rpc
  /\ UNCHANGED <<failed, pidFile, addr, target, poll, rpcTo, bootVars>>

(* After the cleanup functions main returns, and the deferred function     *)
(* deletes the PID file of the address without looking whose PID it holds. *)
MainReturns(p) ==
  /\ reproxy[p] = "cleanup"
  /\ reproxy' = [reproxy EXCEPT ![p] = "exited"]
  /\ pidFile' = None
  /\ UNCHANGED <<failed, addr, shutVars, bootVars>>
Crash(p) ==
  /\ Alive(p)
  /\ reproxy' = [reproxy EXCEPT ![p] = "exited"] /\ failed' = failed \union {p}
  /\ addr' = IF addr = p THEN None ELSE addr
  /\ rpc' = IF rpc = "sent" /\ rpcTo = p THEN "off" ELSE rpc
  /\ UNCHANGED <<pidFile, target, poll, rpcTo, bootVars>>

-----------------------------------------------------------------------------
(* shutdownReproxy, which startProxy calls first.                          *)
Goto(from, to) == pc = from /\ pc' = to
Begin(o) ==
  /\ Goto("idle", "read")
  /\ boots < MaxBoots /\ boots' = boots + 1
  /\ o = "async" => Fast
  /\ op' = o /\ new' = None /\ done' = Nothing
  /\ UNCHANGED <<reproxyVars, pidFile, addr, shutVars, peer, expired>>

(* bootstrap ends, and its goroutines with it.  Stats that reproxy did not *)
(* return are read from the log files, if it has written any.              *)
End(ok, p, stats) ==
  /\ pc' = "idle"
  /\ done' = [op |-> op, ok |-> ok, pid |-> p, stats |-> stats]
  /\ poll' = "off" /\ rpc' = "off" /\ rpcTo' = None /\ target' = None
StatsSources(got) == IF Fast /\ got THEN {"rpc"} ELSE {"logs", "none"}
AfterShutdown(ok, got) ==
  IF op = "start" THEN pc' = "start" /\ UNCHANGED <<done, target, poll, rpc, rpcTo>>
  ELSE \E s \in StatsSources(got) : End(ok, target, s)

(* Credentials cannot be obtained: bootstrap exits at once.                *)
AuthFails ==
  /\ pc = "read"
  /\ End(FALSE, None, "none")
  /\ UNCHANGED <<reproxyVars, pidFile, addr, boots, op, new, peer, expired>>
ReadFile ==
  /\ pc = "read"
  /\ IF pidFile = None
     THEN AfterShutdown(FALSE, FALSE)
     ELSE pc' = "alive" /\ target' = pidFile /\ UNCHANGED <<done, poll, rpc, rpcTo>>
  /\ UNCHANGED <<reproxyVars, pidFile, addr, boots, op, new, peer, expired>>

ServesInstead(p) == Serving(p)
IsAlive(p) == Alive(p)
CheckAlive ==
  /\ pc = "alive"
  /\ IF IsAlive(target)
     THEN pc' = "select" /\ poll' = "check" /\ rpc' = "dial" /\ UNCHANGED <<pidFile, done, target, rpcTo>>
     ELSE pidFile' = None /\ AfterShutdown(FALSE, FALSE)
  /\ UNCHANGED <<reproxyVars, addr, boots, op, new, peer, expired>>

(* sendShutdownRPC, to whichever process has the address.                  *)
SendShutdown ==
  /\ rpc = "dial"
  /\ IF ~Reachable THEN rpc' = "off" /\ UNCHANGED <<reproxy, addr, rpcTo>>
     ELSE /\ rpc' = "sent" /\ rpcTo' = addr
          /\ reproxy' = [reproxy EXCEPT ![addr] = "draining"]
          /\ addr' = Unbound(addr)
  /\ UNCHANGED <<failed, pidFile, target, poll, bootVars>>

(* PollForDeath: it looks at the process, then deletes the file, then      *)
(* tells the main goroutine.  It stops at the earliest when its context is *)
(* cancelled, that is when shutdownReproxy has returned.                   *)
PollCheck ==
  /\ poll = "check"
  /\ \/ ~IsAlive(target) /\ poll' = "delete"
     \/ pc # "select" /\ poll' = "off"
  /\ UNCHANGED <<reproxyVars, pidFile, addr, target, rpc, rpcTo, bootVars>>
PollDelete ==
  /\ poll = "delete"
  /\ pidFile' = None
  /\ poll' = IF pc = "select" THEN "dead" ELSE "off"
  /\ UNCHANGED <<reproxyVars, addr, target, rpc, rpcTo, bootVars>>

EarlyStatsAlways == TRUE
EarlyStats == op = "async"
SelectStats ==
  /\ pc = "select" /\ rpc = "stats" /\ EarlyStats
  /\ AfterShutdown(TRUE, TRUE)
  /\ UNCHANGED <<reproxyVars, pidFile, addr, boots, op, new, peer, expired>>
SelectDead ==
  /\ pc = "select" /\ poll = "dead"
  /\ AfterShutdown(TRUE, rpc = "stats")
  /\ UNCHANGED <<reproxyVars, pidFile, addr, boots, op, new, peer, expired>>
SelectTimeout ==
  /\ pc = "select"
  /\ expired' = TRUE
  /\ AfterShutdown(FALSE, rpc = "stats")
  /\ UNCHANGED <<reproxyVars, pidFile, addr, boots, op, new, peer>>

-----------------------------------------------------------------------------
(* startProxy once the previous reproxy is shut down, or could not be.     *)
StartProc ==
  /\ pc = "start"
  /\ \/ \E p \in Pids : /\ reproxy[p] = "none" /\ \A q \in Pids : reproxy[q] = "none" => p <= q
                        /\ reproxy' = [reproxy EXCEPT ![p] = "starting"]
                        /\ new' = p /\ pc' = "write"
        /\ UNCHANGED <<done, target, poll, rpc, rpcTo>>
     \/ End(FALSE, None, "none") /\ UNCHANGED <<reproxy, new>>
  /\ UNCHANGED <<failed, pidFile, addr, boots, op, peer, expired>>
WriteFile ==
  /\ Goto("write", "wait")
  /\ pidFile' = new
  /\ UNCHANGED <<reproxyVars, addr, shutVars, boots, op, new, peer, done, expired>>

(* On an error startProxy kills the process that it started, whatever that *)
(* process is doing.  A file that could not be written may be cut.         *)
Kill ==
  /\ reproxy' = [reproxy EXCEPT ![new] = "exited"] /\ failed' = failed \union {new}
  /\ addr' = IF addr = new THEN None ELSE addr
  /\ End(FALSE, new, "none")
WriteFails ==
  /\ pc = "write"
  /\ Kill
  /\ pidFile' \in {pidFile, None}
  /\ UNCHANGED <<boots, op, new, peer, expired>>

(* The loop that waits: an exit code other than 0 ends it, a dial that     *)
(* connects, whoever answers, or the time.                                 *)
StartupError ==
  /\ pc = "wait" /\ new \in failed
  /\ End(FALSE, new, "none")
  /\ UNCHANGED <<reproxyVars, pidFile, addr, boots, op, new, peer, expired>>
DialSucceeds ==
  /\ Goto("wait", "events") /\ Reachable
  /\ peer' = addr
  /\ UNCHANGED <<reproxyVars, pidFile, addr, shutVars, boots, op, new, done, expired>>
StillWaiting == new \notin failed
WaitTimeout ==
  /\ pc = "wait" /\ StillWaiting
  /\ Kill
  /\ UNCHANGED <<pidFile, boots, op, new, peer, expired>>

(* The AddProxyEvents rpc, which has no deadline: it ends when reproxy     *)
(* answers or when the connection breaks; an error is a warning.           *)
ProxyStarted ==
  /\ End(TRUE, new, "none")
  /\ peer' = None
  /\ UNCHANGED <<reproxyVars, pidFile, addr, boots, op, new, expired>>
EventsAnswered == pc = "events" /\ Alive(peer) /\ ProxyStarted
EventsLost == pc = "events" /\ ~Alive(peer) /\ ProxyStarted

Main ==
  \/ AuthFails \/ ReadFile \/ CheckAlive \/ SelectStats \/ SelectDead \/ SelectTimeout
  \/ StartProc \/ WriteFile \/ WriteFails \/ StartupError \/ DialSucceeds \/ WaitTimeout \/ EventsLost
Goroutines == SendShutdown \/ PollCheck \/ PollDelete

-----------------------------------------------------------------------------
(* The PID file names the reproxy that a successful start left behind, for *)
(* as long as it serves, unless a shutdown gave up waiting: an earlier     *)
(* reproxy, or the poller of its death, deletes only its own file          *)
(* (bootstrap.go:66, 181; reproxypid.go:118; cmd/reproxy/main.go:182).     *)
PidFileNamesServingProxy ==
  (~expired /\ done.op = "start" /\ done.ok /\ Serving(done.pid)) => pidFile = done.pid

(* A shutdown without --async_reproxy_termination that reports success has *)
(* really ended the process, and removed its PID file                      *)
(* (bootstrap.go:50, 88).                                                  *)
ShutdownMeansDead ==
  (done.op = "shutdown" /\ done.ok) => (~Alive(done.pid) /\ pidFile # done.pid)
==============================================================================
