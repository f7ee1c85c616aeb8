------------------------------ MODULE Forecast ------------------------------
(***************************************************************************)
(* The forecast of download latencies (internal/pkg/reproxy/forecast.go)   *)
(* from which race takes its hold-off: a ring of the latest samples of     *)
(* each kind of action, sorted now and then by a background goroutine.     *)
(*                                                                         *)
(* Its use is a sequence of events: a sample, [k |-> "sample", l, v], or   *)
(* a tick of Run, [k |-> "tick"].                                          *)
(***************************************************************************)
EXTENDS Naturals, Sequences, SequencesExt, FiniteSets, TLC

\* A dataset of Size points, zero at first.
NewDataset(size) == [points |-> [i \in 1..size |-> 0], head |-> 0, curr |-> 0, sorted |-> <<>>]

\* Mutant: the size goes on growing up to one less than the ring.
CurrShort(d) == IF d.curr + 1 > Len(d.points) THEN Len(d.points) - 1 ELSE d.curr + 1
CurrSize(d) == IF d.curr + 1 > Len(d.points) THEN Len(d.points) ELSE d.curr + 1
Insert(d, v) ==
    [d EXCEPT !.points[d.head + 1] = v, !.head = (@ + 1) % Len(d.points), !.curr = CurrSize(d)]

SortDataset(d, minSize) ==
    IF d.curr < minSize THEN d
    ELSE [d EXCEPT !.sorted = SortSeq(SubSeq(d.points, 1, d.curr), LAMBDA a, b : a < b)]

\* percentile: no value before the first sort.
NoValue == <<>>
Percentile(d, p) == IF Len(d.sorted) = 0 THEN NoValue
                    ELSE <<d.sorted[(Len(d.sorted) * p) \div 100 + 1]>>

\* RecordSample and Run, on the map from labels to datasets.
RecordSample(m, l, v, size) ==
    LET d == IF l \in DOMAIN m THEN m[l] ELSE NewDataset(size)
    IN (l :> Insert(d, v)) @@ m
Tick(m, minSize) == [l \in DOMAIN m |-> SortDataset(m[l], minSize)]
Run(events, size, minSize) ==
    FoldLeft(LAMBDA m, e : IF e.k = "tick" THEN Tick(m, minSize) ELSE RecordSample(m, e.l, e.v, size),
             <<>>, events)
PercentileDownloadLatency(m, l, p) == IF l \in DOMAIN m THEN Percentile(m[l], p) ELSE NoValue

-----------------------------------------------------------------------------

\* What the forecast promises, read off the events: the answer of the latest
\* tick that had at least minSize samples of the label, computed from the last
\* size ones of them, and none before.  A percentile is a sample that
\* at most p percent of the others are below and more than p percent not above.
ForecastOfLatestSamples(events, size, minSize, l, p) ==
    LET samplesAt(t) == SelectSeq(SubSeq(events, 1, t), LAMBDA e : e.k = "sample" /\ e.l = l)
        ticks == {t \in 1..Len(events) : events[t].k = "tick" /\ Len(samplesAt(t)) > 0
                                          /\ Len(samplesAt(t)) >= minSize}
        latest == CHOOSE t \in ticks : \A u \in ticks : u <= t
        all == samplesAt(latest)
        window == SubSeq(all, IF Len(all) > size THEN Len(all) - size + 1 ELSE 1, Len(all))
        below(v) == Cardinality({i \in 1..Len(window) : window[i].v < v})
        upTo(v) == Cardinality({i \in 1..Len(window) : window[i].v <= v})
        answer == PercentileDownloadLatency(Run(events, size, minSize), l, p)
    IN IF ticks = {} THEN answer = NoValue
       ELSE /\ answer # NoValue
            /\ below(answer[1]) * 100 <= p * Len(window)
            /\ upTo(answer[1]) * 100 > p * Len(window)
=============================================================================
