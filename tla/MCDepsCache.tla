---------------------------- MODULE MCDepsCache ----------------------------
(* Two commands on two files that may include each other.                  *)
EXTENDS DepsCache

(* "one" includes "two" if its content is "b"; "two" includes "one" if its *)
(* content is "b", which the old scanner overlooks in a source file.       *)
MCScan(v, c, t) ==
  CASE c = "c1" -> (IF t["one"] = "b" THEN {"two"} ELSE {})
                     \union (IF t["one"] = "b" /\ t["two"] = "b" THEN {"one"} ELSE {})
    [] c = "c2" -> IF t["two"] = "b" /\ v # "old" THEN {"one"} ELSE {}

MCSource == [c \in Commands |-> IF c = "c1" THEN "one" ELSE "two"]
=============================================================================
