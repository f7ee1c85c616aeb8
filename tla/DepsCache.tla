----------------------------- MODULE DepsCache -----------------------------
(***************************************************************************)
(* The deps cache: the include dependencies of compile commands, kept      *)
(* across the runs of reproxy in one file (internal/pkg/inputprocessor/    *)
(* depscache/) and consulted before each include scan (cppcompile's        *)
(* FindDependencies).                                                      *)
(*                                                                         *)
(* A run of reproxy loads the file in a goroutine of its own while actions *)
(* already arrive, and writes it back in a cleanup function, while saves   *)
(* that actions left behind may still be under way; it can be killed at    *)
(* any step.  Between runs sources are edited and reproxy is upgraded.     *)
(* Sources do not change during a run: minimalFileCache digests each file  *)
(* once per run.                                                           *)
(***************************************************************************)
EXTENDS Naturals, FiniteSets

CONSTANTS
  Commands,      \* compile commands (their digests)
  Files,         \* source files and headers
  Digests,       \* what the preprocessor directives of a file can be
  Versions,      \* versions of reclient
  Source,        \* the file that a command compiles
  Scan(_, _, _), \* what the include scanner of a version finds for a command
  MaxEntries,    \* entries that are written
  MaxRuns        \* bound: runs of reproxy

Absent    == "absent"
NoVersion == "no version"
Trees     == [Files -> Digests \union {Absent}]

(* What the scanner finds depends only on the files that it found and on   *)
(* the source: neither a file that appears earlier on the include path nor *)
(* one outside the exec root, which ListRelToExecRoot leaves out of the    *)
(* entry, changes it.                                                      *)
ASSUME ScanAssumption ==
  /\ Source \in [Commands -> Files]
  /\ Absent \notin Digests /\ NoVersion \notin Versions
  /\ MaxEntries \in Nat /\ MaxRuns \in Nat
  /\ \A v \in Versions, c \in Commands, f \in Trees :
       /\ Scan(v, c, f) \subseteq Files
       /\ \A g \in Trees :
            (\A n \in Scan(v, c, f) \union {Source[c]} : g[n] = f[n]) => Scan(v, c, g) = Scan(v, c, f)

(* An entry of depsCache: its key is the command with the digest of the    *)
(* source file, its value the dependencies with their digests.             *)
Entry == [cmd : Commands, src : Digests, deps : SUBSET (Files \X Digests)]
Key(e) == <<e.cmd, e.src>>
Keys   == Commands \X Digests
Names(e) == {p[1] : p \in e.deps}

VARIABLES
  tree,    \* the files as they are now
  disk,    \* reproxy.cache: version, entries and last use times
  runs,    \* runs begun
  phase,   \* control state of the run and of its WriteToDisk
  version, \* c.reclientVersion
  toLoad,  \* what LoadFromDir has read and not yet put into depsCache
  load,    \* control state of LoadFromDir
  ready,   \* c.ready
  mem,     \* c.depsCache
  lut,     \* c.lutByKey, 0 for no entry
  clock,   \* the time, a counter of the updates of lut
  kept,    \* the entries that WriteToDisk has chosen
  raced,   \* what was written, without its lock, while it sorted
  out,     \* the database that it marshalled
  act,     \* control state of each command's FindDependencies and SetDeps
  found,   \* the dependencies that it got
  touched, \* history: keys whose last use time this run has set
  atBoot   \* history: the file when the run began

loadVars == <<toLoad, load>>
memVars  == <<mem, lut, clock, touched>>
actVars  == <<act, found>>
wrtVars  == <<kept, raced, out>>
runVars  == <<runs, version, atBoot>>
vars == <<tree, disk, phase, ready, loadVars, memVars, actVars, wrtVars, runVars>>

Database == [version : Versions \union {NoVersion}, entries : SUBSET Entry, lut : [Keys -> Nat]]
Empty == [version |-> NoVersion, entries |-> {}, lut |-> [k \in Keys |-> 0]]

TypeOK ==
  /\ tree \in Trees
  /\ disk \in Database /\ out \in Database /\ atBoot \in Database /\ toLoad \in Database
  /\ runs \in 0 .. MaxRuns
  /\ phase \in {"off", "up", "stopping", "locked", "sorting", "sorted", "writing", "written"}
  /\ version \in Versions
  /\ mem \subseteq Entry /\ kept \subseteq Entry /\ raced \subseteq {"times", "entries"}
  /\ load \in {"idle", "reading", "loading", "done"}
  /\ ready \in BOOLEAN
  /\ lut \in [Keys -> Nat] /\ clock \in Nat /\ touched \subseteq Keys
  /\ act \in [Commands -> {"idle", "hit", "miss", "save", "store", "touch", "done"}]
  /\ found \in [Commands -> SUBSET Files]

Init ==
  /\ tree \in Trees
  /\ disk = Empty /\ out = Empty /\ atBoot = Empty
  /\ runs = 0 /\ phase = "off" /\ version \in Versions
  /\ toLoad = Empty /\ load = "idle" /\ ready = FALSE
  /\ mem = {} /\ lut = Empty.lut /\ clock = 0 /\ touched = {} /\ kept = {} /\ raced = {}
  /\ act = [c \in Commands |-> "idle"] /\ found = [c \in Commands |-> {}]

-----------------------------------------------------------------------------
(* The world outside                                                       *)

Edit(f) ==
  /\ phase = "off"
  /\ \E d \in (Digests \union {Absent}) \ {tree[f]} : tree' = [tree EXCEPT ![f] = d]
  /\ UNCHANGED <<disk, phase, ready, loadVars, memVars, actVars, wrtVars, runVars>>

(* newDepsCache: an empty cache, and LoadFromDir in the background.        *)
Boot ==
  /\ phase = "off"
  /\ runs < MaxRuns
  /\ runs' = runs + 1
  /\ phase' = "up"
  /\ version' \in Versions
  /\ load' = "reading" /\ toLoad' = Empty
  /\ ready' = FALSE
  /\ mem' = {} /\ lut' = Empty.lut /\ touched' = {}
  /\ act' = [c \in Commands |-> "idle"] /\ found' = [c \in Commands |-> {}]
  /\ atBoot' = disk
  /\ kept' = {} /\ raced' = {} /\ out' = Empty
  /\ UNCHANGED <<tree, disk, clock>>

(* reproxy exits, or is killed at any step.                                *)
Exit ==
  /\ phase # "off"
  /\ phase' = "off"
  /\ load' = "idle" /\ toLoad' = Empty
  /\ ready' = FALSE
  /\ mem' = {} /\ lut' = Empty.lut /\ touched' = {}
  /\ act' = [c \in Commands |-> "idle"] /\ found' = [c \in Commands |-> {}]
  /\ kept' = {} /\ raced' = {} /\ out' = Empty /\ atBoot' = Empty
  /\ UNCHANGED <<tree, disk, clock, runs, version>>

-----------------------------------------------------------------------------
(* LoadFromDir                                                             *)

(* A file cut short by a kill has lost its version, the last field, or     *)
(* cannot be parsed at all.                                                *)
Loadable(db) == db.version = version

ReadFile ==
  /\ load = "reading"
  /\ toLoad' = IF Loadable(disk) THEN disk ELSE Empty
  /\ load' = "loading"
  /\ UNCHANGED <<tree, disk, phase, ready, memVars, actVars, wrtVars, runVars>>

(* Mutant: the key of an entry leaves out the digest of the source.        *)
PutByCommand(e) == mem' = {g \in mem : g.cmd # e.cmd} \union {e}

Put(e) == mem' = {g \in mem : Key(g) # Key(e)} \union {e}

(* What is written while WriteToDisk reads it without the lock.            *)
Races(what) == raced' = IF phase = "sorting" THEN raced \union {what} ELSE raced

(* The load takes no lock at all.                                          *)
LoadEntry(e) ==
  /\ load = "loading"
  /\ Put(e)
  /\ lut' = [lut EXCEPT ![Key(e)] = toLoad.lut[Key(e)]]
  /\ toLoad' = [toLoad EXCEPT !.entries = @ \ {e}]
  /\ Races("entries")
  /\ UNCHANGED <<tree, disk, phase, ready, load, clock, touched, kept, out, actVars, runVars>>

LoadDone ==
  /\ load = "loading"
  /\ toLoad.entries = {}
  /\ load' = "done"
  /\ ready' = TRUE
  /\ UNCHANGED <<tree, disk, phase, toLoad, memVars, actVars, wrtVars, runVars>>

-----------------------------------------------------------------------------
(* FindDependencies: GetDeps, or a scan and SetDeps in a goroutine         *)

(* Mutant: only the source is compared.                                    *)
FreshSource(e, t) == t[Source[e.cmd]] = e.src

(* The digests of the source and of every dependency are what they were.   *)
Fresh(e, t) ==
  /\ t[Source[e.cmd]] = e.src
  /\ \A p \in e.deps : t[p[1]] = p[2]

Hits(c) == {e \in mem : ready /\ e.cmd = c /\ Fresh(e, tree)}

(* The lock of WriteToDisk excludes the readers and writers of depsCache.  *)
Locked == phase \in {"locked", "sorting", "sorted", "writing"}

GetDeps(c) ==
  /\ act[c] = "idle"
  /\ phase # "off"
  /\ ready => ~ Locked
  /\ \/ /\ Hits(c) = {}
        /\ act' = [act EXCEPT ![c] = "miss"]
        /\ UNCHANGED found
     \/ \E e \in Hits(c) :
          /\ act' = [act EXCEPT ![c] = "hit"]
          /\ found' = [found EXCEPT ![c] = Names(e)]
  /\ UNCHANGED <<tree, disk, phase, ready, loadVars, memVars, wrtVars, runVars>>

ScanFinds(c) ==
  /\ act[c] = "miss"
  /\ act' = [act EXCEPT ![c] = "save"]
  /\ found' = [found EXCEPT ![c] = Scan(version, c, tree)]
  /\ UNCHANGED <<tree, disk, phase, ready, loadVars, memVars, wrtVars, runVars>>

ScanFails(c) ==
  /\ act[c] = "miss"
  /\ act' = [act EXCEPT ![c] = "done"]
  /\ UNCHANGED <<tree, disk, phase, ready, found, loadVars, memVars, wrtVars, runVars>>

(* The source and every dependency can be digested.                        *)
Digested(c) == \A n \in found[c] \union {Source[c]} : tree[n] # Absent

SaveDeps(c) ==
  /\ act[c] = "save"
  /\ act' = [act EXCEPT ![c] = IF ready /\ Digested(c) THEN "store" ELSE "done"]
  /\ UNCHANGED <<tree, disk, phase, ready, found, loadVars, memVars, wrtVars, runVars>>

NewEntry(c) ==
  [cmd |-> c, src |-> tree[Source[c]], deps |-> {<<n, tree[n]>> : n \in found[c]}]

SetDeps(c) ==
  /\ act[c] = "store"
  /\ ~ Locked
  /\ Put(NewEntry(c))
  /\ act' = [act EXCEPT ![c] = "touch"]
  /\ UNCHANGED <<tree, disk, phase, ready, found, lut, clock, touched, loadVars, wrtVars, runVars>>

(* Mutant: only the first use counts.                                      *)
UsedFirst(k) == lut' = [lut EXCEPT ![k] = IF @ = 0 THEN clock + 1 ELSE @]

(* The last use time, set under lutMu after SetDeps has let go of depsMu,  *)
(* or in a goroutine that GetDeps leaves behind.                           *)
Used(k) == lut' = [lut EXCEPT ![k] = clock + 1]

Touch(c) ==
  /\ act[c] \in {"hit", "touch"}
  /\ Used(<<c, tree[Source[c]]>>)
  /\ clock' = clock + 1
  /\ touched' = touched \union {<<c, tree[Source[c]]>>}
  /\ act' = [act EXCEPT ![c] = "done"]
  /\ Races("times")
  /\ UNCHANGED <<tree, disk, phase, ready, found, mem, kept, out, loadVars, runVars>>

-----------------------------------------------------------------------------
(* WriteToDisk                                                             *)

WriteBegins ==
  /\ phase = "up"
  /\ phase' = "stopping"
  /\ ready' = FALSE
  /\ UNCHANGED <<tree, disk, loadVars, memVars, actVars, wrtVars, runVars>>

WriteLocks ==
  /\ phase = "stopping"
  /\ phase' = "locked"
  /\ UNCHANGED <<tree, disk, ready, loadVars, memVars, actVars, wrtVars, runVars>>

(* The loop breaks when count, incremented before, reaches MaxEntries.     *)
Quota == IF MaxEntries = 0 THEN 1 ELSE MaxEntries

(* As many entries as there is room for.                                   *)
Full(K) == Cardinality(K) = Quota \/ (K = mem /\ Cardinality(K) < Quota)
(* The most recently used entries, in an order that ties leave open.       *)
Recent(K) == \A e \in K, g \in mem \ K : lut[Key(e)] >= lut[Key(g)]

(* The keys are listed from depsCache, which LoadFromDir may still be      *)
(* filling, and compared by lutByKey, which is read without lutMu.  After  *)
(* a data race with the load any of the entries may be listed, after one   *)
(* with Touch the order is arbitrary.  The runtime may also notice the     *)
(* race and abort the process: that is Exit.                               *)
Choice ==
  {K \in SUBSET mem :
     /\ Cardinality(K) <= Quota
     /\ "entries" \notin raced => Full(K)
     /\ raced = {} => Recent(K)}

SortBegins ==
  /\ phase = "locked"
  /\ phase' = "sorting"
  /\ UNCHANGED <<tree, disk, ready, loadVars, memVars, actVars, wrtVars, runVars>>

WriteSorts ==
  /\ phase = "sorting"
  /\ phase' = "sorted"
  /\ kept' \in Choice
  /\ raced' = {}
  /\ UNCHANGED <<tree, disk, ready, out, loadVars, memVars, actVars, runVars>>

(* os.WriteFile truncates the file first, and may fail to fill it.         *)
WriteFile ==
  /\ phase = "sorted"
  /\ phase' = "writing"
  /\ out' = [version |-> version, entries |-> kept,
             lut |-> [k \in Keys |-> IF \E e \in kept : Key(e) = k THEN lut[k] ELSE 0]]
  /\ disk' = Empty
  /\ UNCHANGED <<tree, ready, kept, raced, loadVars, memVars, actVars, runVars>>

WriteDone ==
  /\ phase = "writing"
  /\ phase' = "written"
  /\ disk' \in {out, disk}
  /\ UNCHANGED <<tree, ready, loadVars, memVars, actVars, wrtVars, runVars>>

-----------------------------------------------------------------------------
Next ==
  \/ \E f \in Files : Edit(f)
  \/ Boot \/ Exit
  \/ ReadFile \/ LoadDone
  \/ \E e \in toLoad.entries : LoadEntry(e)
  \/ \E c \in Commands : \/ GetDeps(c) \/ ScanFinds(c) \/ ScanFails(c)
                         \/ SaveDeps(c) \/ SetDeps(c) \/ Touch(c)
  \/ WriteBegins \/ WriteLocks \/ SortBegins \/ WriteSorts \/ WriteFile \/ WriteDone

Spec == Init /\ [][Next]_vars

-----------------------------------------------------------------------------
(* Properties                                                              *)

(* A hit of GetDeps is what the scanner would find now: whatever was       *)
(* edited since the entry was saved, by whichever version of reclient, and *)
(* wherever earlier runs were killed.                                      *)
HitsAreFresh ==
  \A c \in Commands : act[c] = "hit" => found[c] = Scan(version, c, tree)

(* What WriteToDisk keeps.  Eviction goes by last use: an entry whose use  *)
(* this run has recorded is not dropped for one that it has not used,      *)
(* unless a last use time or an entry was written during the sort, which   *)
(* reads both without their locks (depscache.go:249-258).  And a run that  *)
(* has loaded the whole file of its own version before the sort writes     *)
(* everything back that fits, even then: new entries for other contents of *)
(* the sources replace nothing.                                            *)
EntriesSurvive ==
  [][phase = "sorting" /\ phase' = "sorted" =>
       /\ raced = {} =>
            \A e \in kept', g \in mem \ kept' : Key(g) \in touched => Key(e) \in touched
       /\ (/\ load = "done" /\ "entries" \notin raced
           /\ Loadable(atBoot) /\ Cardinality(mem) <= MaxEntries) =>
            {Key(e) : e \in atBoot.entries} \subseteq {Key(e) : e \in kept'}]_vars
=============================================================================
