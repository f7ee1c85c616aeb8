---------------------------- MODULE ActionFiles -----------------------------
(***************************************************************************)
(* What reproxy does to the files of an action around its execution        *)
(* (reproxy/action.go and the helpers of server.go): which inputs are also *)
(* outputs, what is cleared between reruns, which outputs are downloaded   *)
(* and keep their modification time, and where virtual inputs go.          *)
(*                                                                         *)
(* Paths are those of module Paths.  disk is a function from the paths of  *)
(* regular files, relative to the exec root, to [d, t]: the digest and the *)
(* modification time; dirs is the set of directories.  New is the time at  *)
(* which the action ran.                                                   *)
(***************************************************************************)
EXTENDS Paths

New == 9
Over(f, g) == [x \in DOMAIN f \cup DOMAIN g |-> IF x \in DOMAIN f THEN f[x] ELSE g[x]]
Under(p, dir) == Len(p) > Len(dir) /\ IsPrefix(dir, p)
At(wd, p) == Join(wd, p)      \* a path of the working directory in the exec root

-----------------------------------------------------------------------------
(* Lists of paths                                                          *)

\* dedup: of the spellings of a path the first one stays.
\* Mutant: spellings are compared as they are.
Same(p, q) == p = q
SamePath(p, q) == Clean(p) = Clean(q)
Dedup(list) == {list[i] : i \in {j \in 1..Len(list) : \A n \in 1..(j - 1) : ~SamePath(list[n], list[j])}}
\* populateCommandIO: the outputs the request names and those found are one list
\* of paths of the exec root, and become paths of the working directory.
PopulateOutputs(execRoot, wd, list) ==
    {<<p, RelToWorkingDir(execRoot, wd, p)>> : p \in Dedup(list)}

\* fileList: the files, and those in the directories.
FileList(disk, wd, files, outDirs) ==
    {At(wd, f) : f \in files} \cup {p \in DOMAIN disk : \E d \in outDirs : Under(p, At(wd, d))}

\* inOutFiles: the inputs that the action writes.  A directory has its
\* separator appended before it is compared, so that the exec root itself,
\* which is ".", has nothing under it.  A directory that is itself an input is
\* not looked into.
\* Mutant: the directories are not looked into.
InDirNever(inp, dir) == FALSE
InDir(inp, dir) == dir # <<>> /\ Under(inp, dir)
InOutFiles(execRoot, wd, inputs, files, outDirs) ==
    LET rel(ps) == {RelToExecRoot(execRoot, wd, p) : p \in ps} \ {NoPath}
        inps == {Clean(i) : i \in inputs}
    IN {i \in inps : \/ i \in rel(files) \cup rel(outDirs)
                      \/ \E d \in rel(outDirs) \ inps : InDir(i, d)}

-----------------------------------------------------------------------------
(* Between the reruns of compare mode                                      *)

\* removeAllOutputs: the files but the deps file, and what is in directories
\* that exist, which are made again.  The deps file is a path of the exec root
\* and is compared with paths of the working directory.
RemoveAllOutputs(disk, wd, files, outDirs, depsFile) ==
    LET gone == {At(wd, f) : f \in files \ {depsFile}}
        cleared == {At(wd, d) : d \in outDirs}
    IN [p \in {q \in DOMAIN disk \ gone : \A d \in cleared : ~Under(q, d)} |-> disk[p]]

\* runAction in compare mode: stash copies of the in-out files, run, remove the
\* outputs, rename the copies to where the files were.  A copy is as new as the
\* run.  An error of a rename is ignored: the temporary directory may be on
\* another file system (~tmpHere), and of an output directory only itself, not
\* what was in it, is made again.
ParentThere(p, wd, outDirs) == \A d \in outDirs : Under(p, At(wd, d)) => Len(p) = Len(At(wd, d)) + 1
BetweenReruns(execRoot, wd, disk, ran, inputs, files, outDirs, depsFile, tmpHere) ==
    LET stashed == InOutFiles(execRoot, wd, inputs, files, outDirs) \cap DOMAIN disk
        back == {p \in stashed : tmpHere /\ ParentThere(p, wd, outDirs)}
    IN Over([p \in back |-> [d |-> disk[p].d, t |-> New]],
            RemoveAllOutputs(ran, wd, files, outDirs, depsFile))

-----------------------------------------------------------------------------
(* Outputs                                                                 *)

\* excludeOutputsViaFilter.  A filter is [sign, re]: re is "o" for an
\* expression that matches the output <<"o">> only, or "none", or "bad".
ExcludeOutputsViaFilter(outs, filter, download) ==
    LET keep == IF filter.re \in {"none", "bad"} THEN IF download THEN DOMAIN outs ELSE {}
                ELSE IF filter.sign = "+" THEN DOMAIN outs \cap {<<"o">>}
                ELSE DOMAIN outs \ {<<"o">>}
    IN [p \in keep |-> outs[p]]

\* excludeUnchangedOutputs compares the digests, not the executable bits.
\* Mutant: an output that exists is not downloaded.
UnchangedIfThere(disk, p, out) == p \in DOMAIN disk
Unchanged(disk, p, out) == p \in DOMAIN disk /\ disk[p].d = out.d
ExcludeUnchangedOutputs(disk, wd, outs) ==
    [p \in {q \in DOMAIN outs : ~Unchanged(disk, At(wd, q), outs[q])} |-> outs[p]]

Written(wd, outs) == [p \in {At(wd, q) : q \in DOMAIN outs} |->
    LET o == outs[CHOOSE q \in DOMAIN outs : At(wd, q) = p] IN [d |-> o.d, t |-> New]]

\* moveOutputsFromTemp: first the files, one by one, then the directories that
\* were downloaded, none of which is in another one, as a whole: what is there
\* by then is removed, files that were just moved included.
MoveFiles(disk, wd, outs, files) ==
    Over(Written(wd, [q \in DOMAIN outs \cap files |-> outs[q]]), disk)
MoveDirs(disk, wd, outs, files, outDirs) ==
    LET moved == {q \in DOMAIN outs \ files : \E d \in outDirs : Under(q, d)}
        replaced == {d \in outDirs : \E q \in DOMAIN outs : Under(q, d)}
        kept == {p \in DOMAIN disk : \A d \in replaced : ~Under(p, At(wd, d))}
    IN Over(Written(wd, [q \in moved |-> outs[q]]), [p \in kept |-> disk[p]])
MoveOutputsFromTemp(disk, wd, outs, files, outDirs) ==
    MoveDirs(MoveFiles(disk, wd, outs, files), wd, outs, files, outDirs)

\* The end of runRemote: filter, exclude, download and, with atomic downloads,
\* move.
RunRemote(disk, wd, outs, files, outDirs, opt) ==
    LET wanted == ExcludeOutputsViaFilter(outs, opt.filter, opt.download)
        rest == IF opt.download /\ opt.preserve THEN ExcludeUnchangedOutputs(disk, wd, wanted)
                ELSE wanted
    IN IF opt.atomic THEN MoveOutputsFromTemp(disk, wd, rest, files, outDirs)
       ELSE Over(Written(wd, rest), disk)

\* getPreExecOutsInfo: the digest and the time of every output that is there
\* before the race.
GetPreExecOutsInfo(disk, wd, files, outDirs) ==
    LET there == FileList(disk, wd, files, outDirs) \cap DOMAIN disk
    IN [p \in there |-> [d |-> disk[p].d, t |-> disk[p].t]]

\* restoreUnchangedOutputMtimes puts the time back where the digest is the same.
RestoreUnchangedOutputMtimes(disk, pre, wd, files, outDirs) ==
    [p \in DOMAIN disk |->
        IF p \in FileList(disk, wd, files, outDirs) /\ p \in DOMAIN pre /\ pre[p].d = disk[p].d
        THEN [disk[p] EXCEPT !.t = pre[p].t] ELSE disk[p]]
\* race when the remote result wins.
RemoteWinsRace(disk, wd, outs, files, outDirs, opt) ==
    LET moved == MoveOutputsFromTemp(disk, wd,
                     ExcludeOutputsViaFilter(outs, opt.filter, opt.download), files, outDirs)
    IN IF opt.preserve
       THEN RestoreUnchangedOutputMtimes(
                moved, GetPreExecOutsInfo(disk, wd, files, outDirs), wd, files, outDirs)
       ELSE moved

-----------------------------------------------------------------------------
(* Virtual inputs                                                          *)

\* FilterVirtualInputs: [path, dir, digest, contents]; an empty directory stays
\* if it is one on the disk.
FilterVirtualInputs(dirs, vis) == {v \in vis : v.dir => v.path \in dirs}

\* downloadVirtualInputs, before a local run: the virtual inputs known by their
\* digest are files of the working directory from then on.
DownloadVirtualInputs(disk, wd, vis) ==
    LET outs == {v \in vis : v.digest # "" /\ v.contents = ""}
        brought == [p \in {At(wd, v.path) : v \in outs} |->
            LET v == CHOOSE v \in outs : At(wd, v.path) = p
            IN [d |-> v.digest, t |-> IF v.mtime # 0 THEN v.mtime ELSE New]]
    IN Over(brought, disk)

-----------------------------------------------------------------------------

\* Every output is in the list of the working directory once, however often and
\* in whatever spelling the request and the flags name it.
OutputsNamedOnce(execRoot, wd, list) ==
    LET named == PopulateOutputs(execRoot, wd, list)
    IN /\ \A m, n \in named : Clean(m[1]) = Clean(n[1]) => m = n
       /\ {Clean(wd \o n[2]) : n \in named} = {Clean(p) : p \in ToSet(list)}

\* An output that the result has and that is wanted is on the disk with its new
\* contents, and with its old time if these are the old ones too and times are
\* to be preserved.  Files that are not outputs stay as they are.
Delivered(disk, after, wd, outs, files, outDirs, opt, except) ==
    LET wanted == ExcludeOutputsViaFilter(outs, opt.filter, opt.download)
    IN /\ \A q \in DOMAIN wanted \ except :
            LET p == At(wd, q) IN
            /\ p \in DOMAIN after /\ after[p].d = wanted[q].d
            /\ (opt.preserve /\ opt.download) => (after[p].t # New <=> p \in DOMAIN disk /\ disk[p].d = wanted[q].d)
       /\ \A p \in DOMAIN disk \ FileList(disk, wd, files, outDirs) :
            p \in DOMAIN after /\ after[p] = disk[p]

\* The outputs of output directories, and those that are also asked for by
\* their names: moving them one by one and then the directory loses them.
InDirs(outs, outDirs) == {q \in DOMAIN outs : \E d \in outDirs : Under(q, d)}
NamedInDirs(outs, files, outDirs) == InDirs(outs, outDirs) \cap files

\* Whatever exists before an action, both ways of bringing its remote outputs
\* to the disk deliver them and preserve the times of those that are unchanged.
\* Left out are, where outputs are moved from a temporary directory, those
\* named twice (action.go:590-618), and, with atomic downloads that preserve
\* times, all files of output directories.
OutputsDelivered(disk, wd, outs, files, outDirs, opt) ==
    /\ Delivered(disk, RunRemote(disk, wd, outs, files, outDirs, opt), wd, outs, files, outDirs, opt,
                 IF ~opt.atomic THEN {}
                 ELSE IF opt.preserve THEN InDirs(outs, outDirs) ELSE NamedInDirs(outs, files, outDirs))
    /\ Delivered(disk, RemoteWinsRace(disk, wd, outs, files, outDirs, opt), wd, outs, files, outDirs, opt,
                 NamedInDirs(outs, files, outDirs))

\* The same without the last exception, as preserve_unchanged_output_mtime
\* says it: "preserve mtimes of unchanged outputs when they are downloaded".
UnchangedOutputsStay(disk, wd, outs, files, outDirs, opt) ==
    Delivered(disk, RunRemote(disk, wd, outs, files, outDirs, opt), wd, outs, files, outDirs, opt,
              NamedInDirs(outs, files, outDirs))

\* A rerun in compare mode starts from the inputs that the first run had, with
\* their contents, and untouched if the action does not write them; no output
\* of that run is left, unless it is an input or the deps file.  Left out are
\* actions that have the exec root or one of their inputs as an output
\* directory, and in-out files that cannot be renamed back.
RerunsStartClean(execRoot, wd, disk, ran, inputs, files, outDirs, depsFile, tmpHere) ==
    LET after == BetweenReruns(execRoot, wd, disk, ran, inputs, files, outDirs, depsFile, tmpHere)
        listed == FileList(disk, wd, files, outDirs)
        unseen == \E d \in outDirs : At(wd, d) = <<>> \/ At(wd, d) \in inputs
    IN ~unseen =>
        /\ \A i \in inputs \cap DOMAIN disk :
             /\ i \notin listed \/ (tmpHere /\ ParentThere(i, wd, outDirs))
                   => i \in DOMAIN after /\ after[i].d = disk[i].d
             /\ i \notin InOutFiles(execRoot, wd, inputs, files, outDirs)
                   => i \in DOMAIN after /\ after[i] = disk[i]
        /\ \A p \in DOMAIN after \cap FileList(ran, wd, files, outDirs) :
             p \in inputs \/ p = depsFile

\* A command that runs in the exec root finds, in a local run, the virtual
\* inputs that its remote tree has at the same paths, and all files it had.
VirtualInputsThere(disk, dirs, vis) ==
    LET tree == FilterVirtualInputs(dirs, vis)
        after == DownloadVirtualInputs(disk, <<>>, tree)
    IN /\ \A v \in tree : IF v.dir THEN v.path \in dirs
                          ELSE v.contents = "" => after[v.path].d = v.digest
       /\ \A p \in DOMAIN disk : (\A v \in tree : v.path # p) => after[p] = disk[p]
=============================================================================
