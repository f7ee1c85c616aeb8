------------------------------ MODULE Reports -------------------------------
(***************************************************************************)
(* What reproxy and its tools hand out: the response to rewrapper, cut to  *)
(* the size that gRPC takes (internal/pkg/interceptors/truncate.go), the   *)
(* trace of a build (cmd/rpl2trace) and its log files                      *)
(* (internal/pkg/collectlogfiles, cmd/metricsuploader, cmd/reclientreport). *)
(***************************************************************************)
EXTENDS Naturals, Integers, Sequences, SequencesExt, FiniteSets, FiniteSetsExt

(***************************************************************************)
(* The response.  A field is [pre, tail]: the length of the note in front  *)
(* and the number of its last bytes that are left.                         *)
(***************************************************************************)
Length(f) == f.pre + f.tail

\* proto.Size: a field that is not empty has a tag and the varint of its length.
VarintSize(n) == IF n < 128 THEN 1 ELSE IF n < 16384 THEN 2 ELSE IF n < 2097152 THEN 3
                 ELSE IF n < 268435456 THEN 4 ELSE 5
Sized(n) == IF n = 0 THEN 0 ELSE 1 + VarintSize(n) + n
ResultSize(r) == LET n == Sized(Length(r.msg)) + 2 IN 1 + VarintSize(n) + n
Size(r) == Sized(Length(r.stderr)) + Sized(Length(r.stdout))
           + (IF r.result THEN ResultSize(r) ELSE 0) + r.rest

\* Mutant: the note is not counted.
TruncFieldLenOnly(size, len, max, min, prefix) ==
    IF max - (size - len) >= min - prefix THEN max - (size - len) ELSE min - prefix
GetTruncFieldLen(size, len, max, min, prefix) ==
    IF max - (size - len) - prefix >= min - prefix THEN max - (size - len) - prefix ELSE min - prefix

MinFieldLen(prefix) == IF prefix > 1024 THEN prefix ELSE 1024
TruncateField(r, name, max, prefix) ==
    LET len == Length(r[name])
    IN IF len <= MinFieldLen(prefix) THEN r
       ELSE [r EXCEPT ![name] = [pre |-> prefix,
               tail |-> GetTruncFieldLen(Size(r), len, max, MinFieldLen(prefix), prefix)]]
\* The fields in turn, as long as the response is too large; prefix is the
\* length of the note, which names the file with the whole response if it
\* could be written.
TruncateResponse(r, max, prefix) ==
    LET cut(s, name) == IF Size(s) <= max THEN s ELSE TruncateField(s, name, max, prefix)
        streams == cut(cut(r, "stderr"), "stdout")
    IN IF r.result THEN cut(streams, "msg") ELSE streams

\* A response is sent whole if it fits.  If not, it is cut to fit unless no
\* field is left to cut; what stays of a field are its last bytes, and no more
\* is cut than the size asks for (three varints may save two bytes each).
ResponseFits(r, max, prefix) ==
    LET s == TruncateResponse(r, max, prefix)
        fields == {"stderr", "stdout"} \cup (IF r.result THEN {"msg"} ELSE {})
        changed == {f \in fields : s[f] # r[f]}
    IN /\ Size(r) <= max => s = r
       /\ \A f \in changed : s[f].tail >= 0 /\ s[f].tail <= r[f].tail /\ Length(s[f]) <= Length(r[f])
       /\ Size(s) <= max \/ \A f \in fields : Length(s[f]) <= MinFieldLen(prefix)
       /\ changed # {} => Size(s) + 6 >= max

-----------------------------------------------------------------------------
(***************************************************************************)
(* The trace.  A record has times of its local and of its remote part, a   *)
(* function from names of events to <<from, to>>, <<>> if a time is        *)
(* missing; 0 is the zero time.  Each event goes to a thread by where it   *)
(* took place, and the records to processes, the lanes of the picture.     *)
(***************************************************************************)
LocalTID == 1
RemoteTID == 2
OnServer == {"ServerQueued", "ServerWorkerExecution"}   \* names that begin with Server
NoPart == [none |-> <<>>]

ConvertEventTime(cat, tid, ets, level) ==
    LET known == {k \in DOMAIN ets : ets[k] # <<>>}
        start == IF known = {} THEN 0 ELSE Min({ets[k][1] : k \in known})
        end == IF known = {} THEN 0 ELSE Max({ets[k][2] : k \in known})
        thread(k) == IF k \in OnServer THEN tid + 1 ELSE tid
        span(name, from, to, t) == [name |-> name, cat |-> cat, ts |-> from, dur |-> to - from, tid |-> t]
    IN [events |-> {span(k, ets[k][1], ets[k][2], thread(k)) :
                       k \in {x \in known : ets[x][2] > ets[x][1] /\ thread(x) <= level}}
                   \cup (IF start # 0 /\ tid <= level THEN {span("", start, end, tid)} ELSE {}),
        from |-> start, to |-> end]

\* The two parts together, a part without times as one at time 0; level 0
\* shows the command as a whole.
ConvertLogRecord(r, level) ==
    LET nothing == [events |-> {}, from |-> 0, to |-> 0]
        remote == IF r.remote # NoPart /\ level >= RemoteTID
                  THEN ConvertEventTime("Remote", RemoteTID, r.remote, level) ELSE nothing
        local == ConvertEventTime("Local", LocalTID, r.local, level)
        from == IF r.local # NoPart /\ (remote.from = 0 \/ remote.from > local.from)
                THEN local.from ELSE remote.from
        to == IF r.local # NoPart /\ (remote.to = 0 \/ remote.to < local.to) THEN local.to ELSE remote.to
        whole == [name |-> "", cat |-> "Command Request", ts |-> from, dur |-> to - from, tid |-> 0]
    IN [events |-> remote.events \cup (IF r.local # NoPart THEN local.events ELSE {})
                   \cup (IF level = 0 THEN {whole} ELSE {}),
        from |-> from, to |-> to]

\* Mutant: a lane that is taken again keeps the end of its first record.
LaneKept(running, i, to) == running
LaneTaken(running, i, to) == [running EXCEPT ![i] = to]

\* convertLogRecords: the first lane whose last record ended before, or a new one.
AssignLane(acc, c) ==
    LET free == {i \in 1..Len(acc.running) : acc.running[i] < c.from}
    IN [running |-> IF free = {} THEN Append(acc.running, c.to) ELSE LaneTaken(acc.running, Min(free), c.to),
        lanes |-> Append(acc.lanes, IF free = {} THEN Len(acc.running) + 1 ELSE Min(free))]
ConvertLogRecords(recs, level) ==
    LET converted == [i \in 1..Len(recs) |-> ConvertLogRecord(recs[i], level)]
        acc == FoldLeft(AssignLane, [running |-> <<>>, lanes |-> <<>>], converted)
    IN [i \in 1..Len(recs) |-> [events |-> converted[i].events, pid |-> acc.lanes[i]]]

\* The records that share a lane do not overlap, in whichever order they are
\* in the log, and a higher trace level only adds events.
TraceReadable(recs) ==
    /\ \A level \in 1..3 : LET t == ConvertLogRecords(recs, level) IN
         \A i, j \in 1..Len(recs) : (i < j /\ t[i].pid = t[j].pid) =>
            \A e \in t[i].events, f \in t[j].events : e.ts + e.dur < f.ts \/ f.ts + f.dur < e.ts
    /\ \A i \in 1..Len(recs), level \in 1..2 :
         ConvertLogRecord(recs[i], level).events \subseteq ConvertLogRecord(recs[i], level + 1).events

-----------------------------------------------------------------------------
(***************************************************************************)
(* The logs.  A directory has a set of files; names[d] is the directory    *)
(* that a name stands for when links are resolved, None if it is not there. *)
(***************************************************************************)
None == "none"
Logs(files) == files \cap {"reproxy.rpl", "reproxy.INFO"}    \* what the patterns match

DeduplicateDirs(names, dirs) ==
    FoldLeft(LAMBDA out, d : IF names[d] = None \/ Contains(out, names[d]) THEN out ELSE Append(out, names[d]),
             <<>>, dirs)

\* Mutant: the file of --log_path is uploaded with its directory and again.
StillNeeded(need, dir, path) == need
NeedAfter(need, dir, path) == need /\ path[1] # dir

\* UploadDirsToCas; path is <<directory, file>> of --log_path with links
\* resolved, <<>> without the flag.  Nothing is uploaded if that file is not
\* there, or if the upload fails (offline).  The files of a broken directory
\* cannot be read: that is logged, and the directory left out.
AppendRootDigests(acc, dir, files, broken) == IF dir \in broken THEN acc ELSE Append(acc, <<dir, files>>)
Exists(fs, path) == path[2] \in fs[path[1]]
Failed == [ok |-> FALSE, lds |-> <<>>]
UploadDirsToCas(fs, dirs, path, broken, offline) ==
    LET step(acc, d) ==
          LET here == acc.need /\ path[1] = d
          IN [need |-> NeedAfter(acc.need, d, path),
              lds |-> AppendRootDigests(acc.lds, d, Logs(fs[d]) \cup (IF here THEN {path[2]} ELSE {}), broken)]
        acc == FoldLeft(step, [need |-> path # <<>>, lds |-> <<>>], dirs)
        lds == IF acc.need THEN AppendRootDigests(acc.lds, path[1], {path[2]}, broken) ELSE acc.lds
    IN IF (path # <<>> /\ ~Exists(fs, path)) \/ offline THEN Failed ELSE [ok |-> TRUE, lds |-> lds]

\* reclientreport: directories that are named twice count once, links do not,
\* and a directory that is not there has no files.  The file of --log_path is
\* added if it is there; without any file, or with one that cannot be read, no
\* archive is reported.
UniqueDirs(dirs) ==
    FoldLeft(LAMBDA out, d : IF d = "" \/ Contains(out, d) THEN out ELSE Append(out, d), <<>>, dirs)
CreateLogsArchive(fs, names, dirs, path, broken) ==
    LET of(d) == IF names[d] = None THEN {} ELSE {names[d]} \X Logs(fs[names[d]])
        given == UniqueDirs(dirs)
        files == UNION {of(given[i]) : i \in 1..Len(given)}
                 \cup {p \in {path} : p # <<>> /\ Exists(fs, p)}
    IN IF files = {} \/ \E f \in files : f[1] \in broken THEN [ok |-> FALSE, files |-> {}]
       ELSE [ok |-> TRUE, files |-> files]

\* Every log file of the directories, and the one of --log_path, is uploaded
\* once under its directory, however often and by whichever name directories
\* are given, unless the directory itself cannot be read; the archive of a bug
\* report has the same files, and all of them or none.  A --log_path that names
\* no file costs the upload every other log, and the archive nothing.
LogsCollected(fs, names, dirs, path, broken) ==
    LET up == UploadDirsToCas(fs, DeduplicateDirs(names, dirs), path, broken, FALSE)
        lds == up.lds
        archive == CreateLogsArchive(fs, names, dirs, path, broken)
        wanted == {names[dirs[i]] : i \in 1..Len(dirs)} \ {None}
        expected == UNION {{d} \X Logs(fs[d]) : d \in wanted}
                    \cup {p \in {path} : p # <<>> /\ Exists(fs, p)}
        readable == {f \in expected : f[1] \notin broken}
    IN /\ \A i, j \in 1..Len(lds) : lds[i][1] = lds[j][1] => i = j
       /\ up.ok <=> path = <<>> \/ path \in expected
       /\ UNION {{lds[i][1]} \X lds[i][2] : i \in 1..Len(lds)} = IF up.ok THEN readable ELSE {}
       /\ archive.ok <=> expected # {} /\ readable = expected
       /\ archive.files = IF archive.ok THEN expected ELSE {}
       /\ UploadDirsToCas(fs, DeduplicateDirs(names, dirs), path, broken, TRUE) = Failed
=============================================================================
