----------------------------- MODULE MCExecution -----------------------------
(* The requests of the runs of Execution.                                  *)
EXTENDS Execution

(* Only LERC reads its options and validates cached results.               *)
LercOptions(r) == r.strategy = "LOCAL" \/ (r.lercAccept /\ r.lercCache /\ ~r.deps)

(* Every action without compare mode.                                      *)
SingleRequests == {r \in Request : LercOptions(r) /\ ~r.compare /\ r.local = 0 /\ r.remote = 0
                                  /\ ~r.wrapper /\ ~r.envVars
                                  /\ r.fault \in IF r.atomic THEN {"none", "move"} ELSE {"none"}}

(* Compare mode, with every split of the reruns and the faults that the    *)
(* request can meet.                                                       *)
CompareFaults(r) ==
  {"none", "flatten", "stash", "restore"}
  \union (IF r.strategy = "LOCAL" THEN {"lercDownload"} ELSE {})
  \union (IF r.atomic THEN {"move"} ELSE {})
CompareRequests ==
  {r \in Request : /\ LercOptions(r) /\ r.compare /\ Accepted(r) /\ r.fault \in CompareFaults(r)
                   /\ r.lercAccept /\ r.lercCache /\ r.download
                   /\ ~r.wrapper /\ ~r.envVars}

AllRequests == SingleRequests \union CompareRequests

(* Local execution with remote caching where a download may fail.          *)
LercRequests ==
  {r \in Request : /\ r.strategy = "LOCAL" /\ r.lercAccept /\ r.fault = "lercDownload"
                   /\ ~r.compare /\ ~r.wrapper /\ ~r.envVars}

(* Local execution of actions with a wrapper.                              *)
WrapperRequests ==
  {r \in Request : r.strategy = "LOCAL" /\ ~r.compare /\ ~r.remoteDisabled /\ r.wrapper /\ r.fault = "none"}
=============================================================================
