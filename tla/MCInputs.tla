------------------------------ MODULE MCInputs ------------------------------
(***************************************************************************)
(* Two commands compete for one slot: a C++ compile of the LOCAL strategy  *)
(* that is built twice, with another machine in between, and one of        *)
(* another kind (tool stands for d8, javac and links, whose specs come     *)
(* from flags alone).  Two dependencies with two versions each, one of     *)
(* which deps files leave out; the first build starts with both in the     *)
(* first version, later ones with any tree.                                *)
(***************************************************************************)
EXTENDS Inputs, TLC

R(labels, s, shallow, d) ==
    [labels |-> IF shallow THEN ToMap(labels) @@ [shallow |-> "true"] ELSE ToMap(labels),
     strat |-> s, dfile |-> d]
MCRequests ==
    [c \in Cmds |->
       IF c = "a" THEN {R(ClangCppLabels, "LOCAL", l, TRUE) : l \in BOOLEAN}
       ELSE {R(k, "REMOTE", FALSE, FALSE) : k \in {ClangCppLabels, NaClLabels}}
            \cup {R(k, "RACING", FALSE, FALSE) :
                    k \in {ToolLabels, LLVMArLabels, R8Labels, TscLabels, L("compile", "", "", "")}}]
MCUnlisted == {{"h"}}
MCInit == Init /\ tree = [d \in Deps |-> 1]
MCSpec == MCInit /\ [][Next]_vars /\ Fairness
=============================================================================
