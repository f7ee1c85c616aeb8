----------------------------- MODULE RaceOutcome -----------------------------
(***************************************************************************)
(* What racing promises about one action: a single verdict, and outputs in *)
(* the exec root that belong to it.  The remote outputs and the outputs of *)
(* the local process are never mixed while the action's context is live,   *)
(* and once a success is reported nobody writes an output any more.        *)
(*                                                                         *)
(* The component that makes the promise is Race.tla.                       *)
(***************************************************************************)
CONSTANTS
  Outputs,   \* the outputs of the action
  Filtered   \* those the remote side does not deliver

VARIABLES
  verdict,     \* whose result is reported
  files,       \* who wrote each output
  interrupted  \* the action's context is done

outcomeVars == <<verdict, files, interrupted>>

NoneFrom(who) == \A o \in Outputs : files[o] # who

OutcomeInit ==
  /\ verdict = "undecided"
  /\ files = [o \in Outputs |-> "pre"]
  /\ interrupted = FALSE

Interrupt ==
  /\ interrupted' = TRUE
  /\ UNCHANGED <<verdict, files>>

(* A local process that nobody waits for any more may go on writing.       *)
WriteLocally(o) ==
  /\ \/ verdict = "undecided"
     \/ verdict = "error" /\ interrupted
  /\ NoneFrom("remote")
  /\ files' = [files EXCEPT ![o] = "local"]
  /\ UNCHANGED <<verdict, interrupted>>

PlaceRemotely(o) ==
  /\ verdict = "undecided"
  /\ NoneFrom("local") \/ interrupted
  /\ files' = [files EXCEPT ![o] = "remote"]
  /\ UNCHANGED <<verdict, interrupted>>

ReportRemote ==
  /\ verdict = "undecided"
  /\ \A o \in Outputs \ Filtered : files[o] = "remote"
  /\ verdict' = "remote"
  /\ UNCHANGED <<files, interrupted>>

(* A local result may still replace the error of an interrupted action.    *)
ReportLocal ==
  /\ \/ verdict = "undecided"
     \/ verdict = "error" /\ interrupted
  /\ NoneFrom("remote")
  /\ verdict' = "local"
  /\ UNCHANGED <<files, interrupted>>

ReportError ==
  /\ verdict = "undecided"
  /\ verdict' = "error"
  /\ \/ UNCHANGED files
     \/ \E o \in Outputs : files' = [files EXCEPT ![o] = "removed"]
  /\ UNCHANGED interrupted

OutcomeNext ==
  \/ Interrupt
  \/ ReportRemote \/ ReportLocal \/ ReportError
  \/ \E o \in Outputs : WriteLocally(o) \/ PlaceRemotely(o)

OutcomeSpec == OutcomeInit /\ [][OutcomeNext]_outcomeVars
=============================================================================
