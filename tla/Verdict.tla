------------------------------ MODULE Verdict -------------------------------
(***************************************************************************)
(* The verdict of compare mode (internal/pkg/reproxy/compare.go): what the *)
(* reruns of an action say about the determinism of each of its outputs,   *)
(* and which of them the mismatch rules then ignore                        *)
(* (internal/pkg/ignoremismatch).                                          *)
(*                                                                         *)
(* A rerun is [remote, ec, dgs]: where it ran, its exit code and the       *)
(* digests of the outputs it left, a function on those outputs.            *)
(***************************************************************************)
EXTENDS Naturals, Sequences, SequencesExt, FiniteSets

\* dedup, dedupExitCodes, for the values that some of n reruns have: the first
\* of equal ones stays.
Dedup(values, n) ==
    LET list[i \in 0..n] ==
          IF i = 0 THEN <<>>
          ELSE IF i \notin DOMAIN values \/ Contains(list[i - 1], values[i]) THEN list[i - 1]
          ELSE Append(list[i - 1], values[i])
    IN list[n]

Side(reruns, remote) == {i \in 1..Len(reruns) : reruns[i].remote = remote}
\* findMismatches: the different digests of fp that one side produced.
Digests(reruns, remote, fp) ==
    Dedup([i \in {j \in Side(reruns, remote) : fp \in DOMAIN reruns[j].dgs} |-> reruns[i].dgs[fp]],
          Len(reruns))
ExitCodes(reruns, remote) == Dedup([i \in Side(reruns, remote) |-> reruns[i].ec], Len(reruns))
Paths(reruns) == UNION {DOMAIN reruns[i].dgs : i \in 1..Len(reruns)}

-----------------------------------------------------------------------------
(* compareDigests and compareExitCodes are the same decision.              *)

Verdict(status, log) == [status |-> status, log |-> log]
\* Mutant: a pair of reruns is enough.
EnoughByTwo(numLocal, numRemote) == numLocal + numRemote >= 2
Enough(numLocal, numRemote) == numLocal + numRemote > 2
Compare(local, remote, numLocal, numRemote) ==
    LET enough == Enough(numLocal, numRemote)
        one == Len(local) = 1 /\ Len(remote) = 1
        same == one /\ local[1] = remote[1]
        differ == one /\ local[1] # remote[1] /\ enough
        oneSided == \/ Len(local) = 1 /\ numRemote = 0
                    \/ Len(remote) = 1 /\ numLocal = 0
    IN IF Len(local) > 1 \/ Len(remote) > 1
       THEN Verdict(IF Len(local) = 1 THEN "REMOTE_NON_DETERMINISTIC" ELSE "NON_DETERMINISTIC", TRUE)
       ELSE IF oneSided \/ same \/ differ THEN Verdict("DETERMINISTIC", differ)
       ELSE Verdict("UNKNOWN", TRUE)

\* compareAction: an output is reported if either comparison asks for it, and
\* the graver of the two results is its status.
Combine(dg, ec) ==
    IF "UNKNOWN" \in {dg, ec} THEN "UNKNOWN"
    ELSE IF "REMOTE_NON_DETERMINISTIC" \in {dg, ec} THEN "REMOTE_NON_DETERMINISTIC"
    ELSE IF "NON_DETERMINISTIC" \in {dg, ec} THEN "NON_DETERMINISTIC"
    ELSE "DETERMINISTIC"
CompareAction(reruns, numLocal, numRemote) ==
    LET ec == Compare(ExitCodes(reruns, FALSE), ExitCodes(reruns, TRUE), numLocal, numRemote)
        dg(fp) == Compare(Digests(reruns, FALSE, fp), Digests(reruns, TRUE, fp), numLocal, numRemote)
        reported == {fp \in Paths(reruns) : dg(fp).log \/ ec.log}
    IN [fp \in reported |-> [status |-> Combine(dg(fp).status, ec.status),
                             digests |-> dg(fp).log, exitCodes |-> ec.log]]

-----------------------------------------------------------------------------
(* Rules that ignore mismatches: kind "path" with the paths that the       *)
(* pattern matches, inverted or not; "bad" if the pattern does not compile *)
(* and "unknown" for a rule of another kind.                               *)

\* New: a configuration with an unknown rule is refused as a whole, and reproxy
\* goes on without one.
NewIgnorer(rules) == IF \E i \in 1..Len(rules) : rules[i].kind = "unknown" THEN <<>> ELSE rules
\* shouldIgnore: the first rule that says so; one that fails is passed over.
RuleIgnores(rule, fp) == rule.kind = "path" /\ rule.inverted # (fp \in rule.matches)
ShouldIgnore(rules, fp) == \E i \in 1..Len(rules) : RuleIgnores(rules[i], fp)
\* ProcessLogRecord: ignored mismatches are dropped and counted; the total, which
\* compareAction has set, still counts them.
ProcessLogRecord(mismatches, rules) ==
    LET ignored == {fp \in DOMAIN mismatches : ShouldIgnore(NewIgnorer(rules), fp)}
    IN [left |-> DOMAIN mismatches \ ignored, ignored |-> Cardinality(ignored),
        total |-> Cardinality(DOMAIN mismatches)]

-----------------------------------------------------------------------------
(* What the verdict promises, read off the reruns pair by pair.            *)

AgreeOn(reruns, fp, I, J) ==
    \A i \in I, j \in J : (fp \in DOMAIN reruns[i].dgs \cap DOMAIN reruns[j].dgs)
                             => reruns[i].dgs[fp] = reruns[j].dgs[fp]
AgreeInExit(reruns, I, J) == \A i \in I, j \in J : reruns[i].ec = reruns[j].ec
\* A side that was to rerun the action has an output to show.
Seen(reruns, fp, remote) == \E i \in Side(reruns, remote) : fp \in DOMAIN reruns[i].dgs

\* compareAction reports an output unless the reruns agree: every two that
\* left it left the same, no side that ran never left it, and all ended with
\* the same exit code.  It calls the action deterministic only if no side
\* disagrees with itself, non-deterministic only if the local side does or
\* shows nothing and the remote side does, and non-deterministic "only on RBE"
\* (log.proto:86) only if the remote side alone does; where the sides differ it
\* needs a third rerun to tell the two apart.  The exception is mixed: of the
\* digests and the exit codes, those that are unsteady on the remote side alone
\* decide, though the others are unsteady on the local side (compare.go:70).
VerdictFollows(reruns, numLocal, numRemote) ==
    LET L == Side(reruns, FALSE)
        R == Side(reruns, TRUE)
        All == L \cup R
        result == CompareAction(reruns, numLocal, numRemote)
        asked(fp) == (numLocal > 0 => Seen(reruns, fp, FALSE)) /\ (numRemote > 0 => Seen(reruns, fp, TRUE))
        agree(fp) == asked(fp) /\ AgreeOn(reruns, fp, All, All) /\ AgreeInExit(reruns, All, All)
        selfAgree(fp, S) == AgreeOn(reruns, fp, S, S) /\ AgreeInExit(reruns, S, S)
        mixed(fp) ==
            \/ AgreeOn(reruns, fp, L, L) /\ ~AgreeOn(reruns, fp, R, R) /\ ~AgreeInExit(reruns, L, L)
            \/ AgreeInExit(reruns, L, L) /\ ~AgreeInExit(reruns, R, R) /\ ~AgreeOn(reruns, fp, L, L)
    IN /\ DOMAIN result = {fp \in Paths(reruns) : ~agree(fp)}
       /\ \A fp \in DOMAIN result :
            LET status == result[fp].status
                steady == selfAgree(fp, L) /\ selfAgree(fp, R)
            IN \/ status = "DETERMINISTIC" /\ steady /\ asked(fp) /\ numLocal + numRemote > 2
               \/ /\ status = "NON_DETERMINISTIC"
                  /\ ~selfAgree(fp, L) \/ (~selfAgree(fp, R) /\ ~Seen(reruns, fp, FALSE))
               \/ /\ status = "REMOTE_NON_DETERMINISTIC"
                  /\ (selfAgree(fp, L) /\ ~selfAgree(fp, R)) \/ mixed(fp)
               \/ status = "UNKNOWN" /\ (~asked(fp) \/ numLocal + numRemote <= 2)

\* What a rule does not name stays in the record, whatever the other rules are
\* and whether they can be used, and what leaves it is counted.
IgnoredByRuleOnly(reruns, numLocal, numRemote, rules) ==
    LET result == CompareAction(reruns, numLocal, numRemote)
        record == ProcessLogRecord(result, rules)
        usable == {rules[i] : i \in {j \in 1..Len(rules) : rules[j].kind # "bad"}}
        named(rule) == IF rule.inverted THEN Paths(reruns) \ rule.matches ELSE rule.matches
    IN /\ Cardinality(record.left) + record.ignored = record.total
       /\ DOMAIN result \ UNION {named(rule) : rule \in usable} \subseteq record.left
       /\ (\E rule \in usable : rule.kind = "unknown") => record.ignored = 0
       /\ (\A rule \in usable : rule.kind # "unknown") =>
             record.left \cap UNION {named(rule) : rule \in usable} = {}
=============================================================================
