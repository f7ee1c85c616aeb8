------------------------------ MODULE Records -------------------------------
(***************************************************************************)
(* What becomes of a log record after an action: the live statistics and   *)
(* counters of the Logger, the log file with its two formats, the record   *)
(* for BigQuery, and the statistics that bootstrap and the tools compute   *)
(* again from the log directory (internal/pkg/logger, stats, monitoring,   *)
(* reproxystatus).                                                         *)
(*                                                                         *)
(* A record is [id, label, status, hit, remote, num, reruns, mism, ti,     *)
(* input].  remote says whether it has remote metadata; num stands for the *)
(* numbers of it, reruns for those of its reruns, ti = <<from, to>> is its *)
(* ProxyExecution interval (<<>> if it has none, 0 for a missing end), and *)
(* input the length of its virtual inputs with its arguments (0 if none).  *)
(***************************************************************************)
EXTENDS Naturals, Sequences, SequencesExt, FiniteSetsExt, TLC

-----------------------------------------------------------------------------
(* The log file                                                            *)

\* Virtual inputs longer than this are truncated.
InputLimit == 1
Truncate(r) == [r EXCEPT !.input = IF @ > InputLimit THEN InputLimit ELSE @]

\* toBytes: reducedtext leaves out the inputs and the arguments.
ToBytes(format, r) == Truncate(IF format = "reducedtext" THEN [r EXCEPT !.input = 0] ELSE r)

\* toBigQueryRecords: only cache hits are reduced.
ToBigQueryRecords(r) == Truncate(IF r.hit THEN [r EXCEPT !.input = 0] ELSE r)

\* The files of a run of reproxy.  The log: its suffix, the records before a
\* delimiter, and whether a kill has left part of one after the last delimiter.
\* Its info file (.rpi): empty until the run ends, then whole, or cut by a kill.
LogFileSuffix(format) == IF format = "text" THEN "rpl" ELSE "rrpl"
LogFile(format, recs, cut, info) ==
    [suffix |-> LogFileSuffix(format), recs |-> [i \in 1..Len(recs) |-> ToBytes(format, recs[i])],
     cut |-> cut, info |-> info]

\* ParseFromFile: the text after the last delimiter is dropped.
\* Mutant: it is taken for a record.
ParseWithTail(f) == IF f.cut THEN Append(f.recs, [Last(f.recs) EXCEPT !.id = 0]) ELSE f.recs
ParseFromFile(f) == f.recs

\* ParseFromLogDirs: the pattern reproxy.*rpl also matches a reduced log.  One
\* info file that cannot be parsed, of whichever run, fails the whole call, and
\* so does a directory without a log of the format; an empty info file is valid.
Matches(format, f) == format = "text" \/ f.suffix = "rrpl"
ParseFromLogDirs(format, dir) ==
    LET files == SelectSeq(dir, LAMBDA f : Matches(format, f))
        ok == files # <<>> /\ \A i \in 1..Len(dir) : dir[i].info # "cut"
    IN [ok |-> ok,
        recs |-> IF ok THEN FlattenSeq([i \in 1..Len(files) |-> ParseFromFile(files[i])]) ELSE <<>>,
        infos |-> IF ok THEN Len(dir) ELSE 0]

-----------------------------------------------------------------------------
(* The statistics: a tree of Stats, here a function on <<label, field>>.   *)

NoOutlier == <<0, 0>>    \* a nil Outlier; one that is set has a value above 0
NewStat == [count |-> 0, byValue |-> <<>>, raw |-> <<>>, o1 |-> NoOutlier, o2 |-> NoOutlier]

\* addNum
\* Mutant: the former maximum is forgotten.
OutliersForget(st, v, id) == IF st.o1 = NoOutlier \/ v > st.o1[1]
                             THEN [st EXCEPT !.o1 = <<v, id>>]
                             ELSE IF st.o2 = NoOutlier \/ v > st.o2[1]
                             THEN [st EXCEPT !.o2 = <<v, id>>] ELSE st
Outliers(st, v, id) ==
    IF st.o1 = NoOutlier \/ v > st.o1[1] THEN [st EXCEPT !.o2 = st.o1, !.o1 = <<v, id>>]
    ELSE IF st.o2 = NoOutlier \/ v > st.o2[1] THEN [st EXCEPT !.o2 = <<v, id>>] ELSE st
AddNum(st, v, id, isMillis) ==
    LET s == [st EXCEPT !.raw = Append(@, v), !.count = @ + (IF isMillis THEN 1 ELSE v)]
    IN IF v = 0 THEN s ELSE Outliers(s, v, id)
AddBool(st, b) == IF b THEN [st EXCEPT !.count = @ + 1] ELSE st
AddStatus(st, v) ==
    [st EXCEPT !.byValue = (v :> (IF v \in DOMAIN @ THEN @[v] + 1 ELSE 1)) @@ @]

\* The fields of a record, in the order in which they are added.  The number
\* of output files of a rerun is added twice.
Complete(r) == r.ti # <<>> /\ r.ti[1] # 0 /\ r.ti[2] # 0
Fields(r) ==
    (IF ~r.remote THEN <<>>
     ELSE <<<<"CacheHit", r.hit>>, <<"NumInputFiles", r.num>>>>
          \o FlattenSeq([i \in 1..Len(r.reruns) |->
                 <<<<"RerunOutputFiles", r.reruns[i]>>, <<"RerunOutputFiles", r.reruns[i]>>>>]))
    \o (IF Complete(r) THEN <<<<"ProxyExecution", r.ti[2] - r.ti[1]>>>> ELSE <<>>)
    \o <<<<"CompletionStatus", r.status>>>>

AddField(tree, label, f, id) ==
    LET key == <<label, f[1]>>
        st == IF key \in DOMAIN tree THEN tree[key] ELSE NewStat
    IN (key :> CASE f[1] = "CacheHit" -> AddBool(st, f[2])
                 [] f[1] = "CompletionStatus" -> AddStatus(st, f[2])
                 [] f[1] = "ProxyExecution" -> AddNum(st, f[2], id, TRUE)
                 [] OTHER -> AddNum(st, f[2], id, FALSE)) @@ tree
AddLogRecord(tree, r, label) ==
    FoldLeft(LAMBDA t, f : AddField(t, label, f, r.id), tree, Fields(r))

\* New, AddRecord.  A record with labels counts in the whole and under its label.
MaxTime == 99    \* math.MaxFloat64
New == [num |-> 0, tree |-> <<>>, mism |-> <<>>, hits |-> 0, min |-> MaxTime, max |-> 0]
AddRecord(s, r) ==
    LET t == AddLogRecord(s.tree, r, "")
    IN [num |-> s.num + 1,
        tree |-> IF r.label = "" THEN t ELSE AddLogRecord(t, r, r.label),
        mism |-> s.mism \o r.mism,
        hits |-> s.hits + (IF r.hit THEN 1 ELSE 0),
        min |-> IF Complete(r) /\ r.ti[1] < s.min THEN r.ti[1] ELSE s.min,
        max |-> IF Complete(r) /\ r.ti[2] > s.max THEN r.ti[2] ELSE s.max]

\* summarize, finalize
Percentiles == <<<<1, 2>>, <<3, 4>>, <<17, 20>>, <<19, 20>>>>
Less(a, b) == a < b
Summarize(st) ==
    LET vals == SortSeq(st.raw, Less)
        n == Len(vals)
    IN [count |-> st.count, byValue |-> st.byValue, o1 |-> st.o1, o2 |-> st.o2, n |-> n,
        total |-> FoldLeft(LAMBDA a, b : a + b, 0, vals),
        pct |-> IF n = 0 THEN <<>>
                ELSE [k \in 1..Len(Percentiles) |->
                        vals[(n * Percentiles[k][1]) \div Percentiles[k][2] + 1]]]
FinalizeAggregate(s) ==
    [s EXCEPT !.tree = [key \in DOMAIN s.tree |-> Summarize(s.tree[key])],
              !.mism = SortSeq(@, Less)]

\* ToProto, with the ratio as a pair.
ToProto(s) == [num |-> s.num, tree |-> s.tree, mism |-> s.mism,
               ratio |-> IF s.num = 0 THEN <<>> ELSE <<s.hits, s.num>>,
               latency |-> IF s.num = 0 THEN <<>> ELSE <<s.min, s.max>>]
NewFromRecords(recs) == ToProto(FinalizeAggregate(FoldLeft(AddRecord, New, recs)))

-----------------------------------------------------------------------------
(* The Logger's own counters, and what is shown of both.                   *)

\* endActionEvent.apply and summarizeActionsEvent
CompletedActions(recs) ==
    FoldLeft(LAMBDA m, r : (r.status :> (IF r.status \in DOMAIN m THEN m[r.status] + 1 ELSE 1)) @@ m,
             <<>>, recs)

\* CompletedActionsSummary: what is not zero, in the order of the enum.
StatusOrder == <<"CACHE_HIT", "LOCAL_FALLBACK", "NON_ZERO_EXIT">>
CompletedActionsSummary(m) ==
    LET shown == SelectSeq(StatusOrder, LAMBDA st : st \in DOMAIN m)
    IN [i \in 1..Len(shown) |-> <<m[shown[i]], shown[i]>>]
CompletionStats(sp) ==
    LET key == <<"", "CompletionStatus">>
    IN IF key \in DOMAIN sp.tree THEN CompletedActionsSummary(sp.tree[key].byValue) ELSE <<>>

\* ExportActionMetrics: one measurement per record, tagged with its labels.
ActionCount(recs, label) == FoldLeft(LAMBDA n, r : IF r.label = label THEN n + 1 ELSE n, 0, recs)

-----------------------------------------------------------------------------
(* What the pipeline promises.                                             *)

\* The values of a field that the records of a label have, as pairs
\* <<record, value>> so that equal values count once per record.
Values(recs, label, field) ==
    {x \in UNION {{i} \X (1..Len(Fields(recs[i]))) : i \in 1..Len(recs)} :
        label \in {"", recs[x[1]].label} /\ Fields(recs[x[1]])[x[2]][1] = field}

\* The aggregated statistics do not depend on the order in which the actions
\* ended: sums, the two highest values and the percentiles are those of the
\* set of values, and the status counts are those the Logger keeps.
StatsOfValues(recs) ==
    LET sp == NewFromRecords(recs)
        V(key) == Values(recs, key[1], key[2])
        val(x) == Fields(recs[x[1]])[x[2]][2]
        below(key, v) == Cardinality({x \in V(key) : val(x) < v})
        upTo(key, v) == Cardinality({x \in V(key) : val(x) <= v})
        numeric == {key \in DOMAIN sp.tree : key[2] \notin {"CacheHit", "CompletionStatus"}}
        sum(key) == MapThenSumSet(val, V(key))
    IN /\ \A key \in numeric : LET st == sp.tree[key] IN
            /\ st.n = Cardinality(V(key)) /\ st.total = sum(key)
            /\ st.count = IF key[2] = "ProxyExecution" THEN Cardinality(V(key)) ELSE sum(key)
            /\ upTo(key, st.o1[1]) = st.n                       \* nothing is above the first
            /\ st.o2 # NoOutlier => upTo(key, st.o2[1]) >= st.n - 1
            /\ st.o2 = NoOutlier <=> Cardinality({x \in V(key) : val(x) > 0}) < 2
            /\ \A k \in 1..Len(Percentiles) : LET rank == (st.n * Percentiles[k][1]) \div Percentiles[k][2] IN
                 below(key, st.pct[k]) <= rank /\ rank < upTo(key, st.pct[k])
       /\ CompletionStats(sp) = CompletedActionsSummary(CompletedActions(recs))
       /\ \A label \in {r.label : r \in ToSet(recs)} \ {""} :
            ActionCount(recs, label) = Cardinality(Values(recs, label, "CompletionStatus"))

\* Whatever the formats of the runs of reproxy that wrote to a log directory,
\* and however often they were killed while they logged, the statistics computed
\* again from it are those of the records written whole: no aggregate needs what
\* a format leaves out.  A kill that cut an info file leaves no statistics at
\* all, of no run, never those of some of the runs.
StatsFromLogs(runs) ==
    LET dir == [i \in 1..Len(runs) |-> LogFile(runs[i].format, runs[i].recs, runs[i].cut, runs[i].info)]
        parsed(format) == ParseFromLogDirs(format, dir)
        broken == \E i \in 1..Len(runs) : runs[i].info = "cut"
        logged(formats) ==
            FlattenSeq([i \in 1..Len(runs) |->
                IF runs[i].format \in formats THEN runs[i].recs ELSE <<>>])
        right(format, formats) ==
            /\ parsed(format).ok <=> ~broken /\ logged(formats) # <<>>
            /\ parsed(format).infos = IF parsed(format).ok THEN Len(runs) ELSE 0
            /\ NewFromRecords(parsed(format).recs)
                 = IF parsed(format).ok THEN NewFromRecords(logged(formats)) ELSE NewFromRecords(<<>>)
    IN /\ right("reducedtext", {"reducedtext"})
       /\ right("text", {"text", "reducedtext"})
       /\ LET all == logged({"text", "reducedtext"}) IN
          NewFromRecords([i \in 1..Len(all) |-> ToBigQueryRecords(all[i])]) = NewFromRecords(all)
=============================================================================
