----------------------------- MODULE MCAdmission -----------------------------
(* A compilation, a link and a raced Java action on a machine with too few *)
(* CPUs for the latter and too little memory for the link.                 *)
EXTENDS Admission, TLC

MCStrategy == "cc" :> "FALLBACK" @@ "link" :> "LOCAL"
MCLabel == "cc" :> "cpp" @@ "javac" :> "javac" @@ "link" :> "clanglink"

(* Bounds: where counts expire, no client goes away and no remote side     *)
(* wins a race; neither is a step that the fairness asks for, and neither  *)
(* reads or writes a count.                                                *)
MCNext ==
  /\ AdmissionNext
  /\ window => /\ ~(\E a \in Leavers : ClientCancels(a))
               /\ ~(\E r \in Racers : RemoteWinsRace(r))
MCSpec == AdmissionInit /\ [][MCNext]_allVars /\ AdmissionFairness
==============================================================================
