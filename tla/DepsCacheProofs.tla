--------------------------- MODULE DepsCacheProofs ---------------------------
(***************************************************************************)
(* HitsAreFresh for every set of commands, files and versions and every    *)
(* scanner whose answer depends only on the files that it read.            *)
(*                                                                         *)
(* The invariant says of an entry not what some tree held, but that in     *)
(* every tree that agrees with its digests the scanner of its version      *)
(* finds exactly its dependencies.  That survives edits, restarts and      *)
(* kills, because no tree occurs in it.                                    *)
(*                                                                         *)
(* And EntriesSurvive, for any MaxEntries: what is used is more recent     *)
(* than what is only loaded, and every key of the file is loaded or yet to *)
(* be loaded until the file is written again.                              *)
(***************************************************************************)
EXTENDS DepsCache, FiniteSetTheorems, TLAPS

(* The entry is right in every tree in which GetDeps would return it.      *)
Sound(v, e) == \A t \in Trees : Fresh(e, t) => Scan(v, e.cmd, t) = Names(e)

(* A database holds entries that are right for its version.                *)
SoundDb(db) == db.version \in Versions => \A e \in db.entries : Sound(db.version, e)

(* What reproxy holds in memory is of its own version.                     *)
OfVersion(db) == db.version = version \/ db.entries = {}

(* A scan under way is of this version and tree, as sources do not change  *)
(* during a run; when it is about to be stored its files can be digested.  *)
ScansCurrent ==
  \A c \in Commands :
    /\ act[c] \in {"hit", "save", "store"} => found[c] = Scan(version, c, tree)
    /\ act[c] = "store" => Digested(c)
    /\ act[c] \in {"hit", "touch"} => tree[Source[c]] \in Digests

(* No scan is under way when reproxy does not run.                         *)
Quiet == phase = "off" => act = [c \in Commands |-> "idle"]

EntriesSound ==
  /\ SoundDb(disk) /\ SoundDb(out) /\ SoundDb(toLoad)
  /\ OfVersion(toLoad) /\ OfVersion(out)
  /\ \A e \in mem \union kept : Sound(version, e)

IInv == TypeOK /\ EntriesSound /\ ScansCurrent /\ Quiet

-----------------------------------------------------------------------------
(* The empty database, what a missing or truncated file amounts to.        *)
LEMMA EmptyDatabase ==
  Empty \in Database /\ SoundDb(Empty) /\ Empty.entries = {} /\ Empty.lut \in [Keys -> Nat]
  BY ScanAssumption DEF Empty, Database, SoundDb

(* The entry that SetDeps makes of a scan is well formed and sound: this   *)
(* is where the locality of the scanner is needed.                         *)
LEMMA NewEntrySound ==
  ASSUME TypeOK, ScansCurrent, NEW c \in Commands, act[c] = "store"
  PROVE  NewEntry(c) \in Entry /\ Sound(version, NewEntry(c))
<1> DEFINE e == NewEntry(c)
<1>1. /\ found[c] = Scan(version, c, tree)
      /\ found[c] \subseteq Files
      /\ Source[c] \in Files
      /\ \A n \in found[c] \union {Source[c]} : tree[n] \in Digests
  BY ScanAssumption DEF ScansCurrent, TypeOK, Digested, Trees
<1>2. e \in Entry
  <2>1. {<<n, tree[n]>> : n \in found[c]} \in SUBSET (Files \X Digests)
    BY <1>1
  <2>. QED BY <1>1, <2>1 DEF NewEntry, Entry
<1>3. e.cmd = c /\ e.src = tree[Source[c]] /\ e.deps = {<<n, tree[n]>> : n \in found[c]}
  BY DEF NewEntry
<1> HIDE DEF e
<1>5. Names(e) = found[c]
  <2>1. \A n \in found[c] : <<n, tree[n]>> \in e.deps /\ <<n, tree[n]>>[1] = n
    BY <1>3
  <2>2. \A p \in e.deps : p[1] \in found[c]
    BY <1>3
  <2>. QED BY <2>1, <2>2 DEF Names
<1>4. ASSUME NEW t \in Trees, Fresh(e, t)
      PROVE  Scan(version, c, t) = Scan(version, c, tree)
  <2>1. t[Source[c]] = tree[Source[c]]
    BY <1>3, <1>4 DEF Fresh
  <2>2. ASSUME NEW n \in found[c] PROVE t[n] = tree[n]
    <3>1. <<n, tree[n]>> \in e.deps
      BY <1>3
    <3>2. t[<<n, tree[n]>>[1]] = <<n, tree[n]>>[2]
      BY <3>1, <1>4 DEF Fresh
    <3>. QED BY <3>2
  <2>3. tree \in Trees /\ version \in Versions
    BY DEF TypeOK
  <2>. QED BY <1>1, <2>1, <2>2, <2>3, ScanAssumption
<1>6. Sound(version, e)
  BY <1>1, <1>3, <1>4, <1>5 DEF Sound
<1>. QED BY <1>2, <1>6 DEF e

(* Storing an entry keeps depsCache well formed and sound.                 *)
LEMMA PutSound ==
  ASSUME TypeOK, EntriesSound, NEW e \in Entry, Sound(version, e), Put(e)
  PROVE  mem' \subseteq Entry /\ \A g \in mem' : Sound(version, g)
  BY DEF TypeOK, EntriesSound, Put

-----------------------------------------------------------------------------
(* A cache that no run has written yet is sound.                           *)
LEMMA InitIInv == Init => IInv
<1> SUFFICES ASSUME Init PROVE IInv
  OBVIOUS
<1>1. TypeOK
  <2>1. MaxRuns \in Nat
    BY ScanAssumption
  <2>2. runs \in 0 .. MaxRuns
    BY <2>1 DEF Init
  <2>. QED BY <2>2, EmptyDatabase DEF Init, TypeOK
<1>2. EntriesSound
  BY EmptyDatabase DEF Init, EntriesSound, OfVersion
<1>3. ScansCurrent /\ Quiet
  BY DEF Init, ScansCurrent, Quiet
<1>. QED BY <1>1, <1>2, <1>3 DEF IInv

(* Every step keeps the invariant: one step of the proof per action.       *)
LEMMA StepIInv == IInv /\ [Next]_vars => IInv'
<1> SUFFICES ASSUME IInv, [Next]_vars PROVE IInv'
  OBVIOUS
<1> USE DEF IInv
<1>1. ASSUME NEW f \in Files, Edit(f) PROVE IInv'
  <2>1. TypeOK'
    BY <1>1 DEF TypeOK, Edit, Trees, loadVars, memVars, actVars, wrtVars, runVars
  <2>2. EntriesSound'
    BY <1>1 DEF EntriesSound, OfVersion, Edit, loadVars, memVars, wrtVars, runVars
  <2>3. ScansCurrent' /\ Quiet'
    BY <1>1 DEF ScansCurrent, Quiet, Edit, actVars
  <2>. QED BY <2>1, <2>2, <2>3
<1>2. ASSUME Boot PROVE IInv'
  <2>1. TypeOK'
    <3>1. MaxRuns \in Nat
      BY ScanAssumption
    <3>2. runs' \in 0 .. MaxRuns
      BY <1>2, <3>1 DEF TypeOK, Boot
    <3>. QED BY <1>2, <3>2, EmptyDatabase DEF TypeOK, Boot
  <2>2. EntriesSound'
    BY <1>2, EmptyDatabase DEF EntriesSound, OfVersion, Boot
  <2>3. ScansCurrent' /\ Quiet'
    BY <1>2 DEF ScansCurrent, Quiet, Boot
  <2>. QED BY <2>1, <2>2, <2>3
<1>3. ASSUME Exit PROVE IInv'
  <2>1. TypeOK'
    BY <1>3, EmptyDatabase DEF TypeOK, Exit
  <2>2. EntriesSound'
    BY <1>3, EmptyDatabase DEF EntriesSound, OfVersion, Exit
  <2>3. ScansCurrent' /\ Quiet'
    BY <1>3 DEF ScansCurrent, Quiet, Exit
  <2>. QED BY <2>1, <2>2, <2>3
<1>4. ASSUME ReadFile PROVE IInv'
  <2>1. TypeOK'
    BY <1>4, EmptyDatabase DEF TypeOK, ReadFile, memVars, actVars, wrtVars, runVars
  <2>2. EntriesSound'
    BY <1>4, EmptyDatabase
    DEF EntriesSound, OfVersion, ReadFile, Loadable, memVars, wrtVars, runVars
  <2>3. ScansCurrent' /\ Quiet'
    BY <1>4 DEF ScansCurrent, Digested, Quiet, ReadFile, actVars, runVars
  <2>. QED BY <2>1, <2>2, <2>3
<1>5. ASSUME NEW e \in toLoad.entries, LoadEntry(e) PROVE IInv'
  <2>1. e \in Entry /\ toLoad.lut \in [Keys -> Nat] /\ Key(e) \in Keys
    BY DEF TypeOK, Database, Entry, Key, Keys
  <2>2. Sound(version, e)
    BY DEF EntriesSound, OfVersion, SoundDb, TypeOK
  <2>3. mem' \subseteq Entry /\ \A g \in mem' : Sound(version, g)
    BY <1>5, <2>1, <2>2, PutSound DEF LoadEntry
  <2>4. /\ toLoad' \in Database
        /\ toLoad'.version = toLoad.version
        /\ toLoad'.entries \subseteq toLoad.entries
    BY <1>5 DEF LoadEntry, TypeOK, Database
  <2>5. TypeOK'
    BY <1>5, <2>1, <2>3, <2>4 DEF TypeOK, LoadEntry, Races, actVars, runVars
  <2>6. EntriesSound'
    BY <1>5, <2>3, <2>4 DEF EntriesSound, OfVersion, SoundDb, LoadEntry, runVars
  <2>7. ScansCurrent' /\ Quiet'
    BY <1>5 DEF ScansCurrent, Digested, Quiet, LoadEntry, actVars, runVars
  <2>. QED BY <2>5, <2>6, <2>7
<1>6. ASSUME LoadDone PROVE IInv'
  <2>1. TypeOK'
    BY <1>6 DEF TypeOK, LoadDone, memVars, actVars, wrtVars, runVars
  <2>2. EntriesSound'
    BY <1>6 DEF EntriesSound, OfVersion, LoadDone, memVars, wrtVars, runVars
  <2>3. ScansCurrent' /\ Quiet'
    BY <1>6 DEF ScansCurrent, Digested, Quiet, LoadDone, actVars, runVars
  <2>. QED BY <2>1, <2>2, <2>3
<1>7. ASSUME NEW c \in Commands, GetDeps(c) PROVE IInv'
  <2>1. ASSUME NEW e \in Hits(c)
        PROVE  /\ Names(e) = Scan(version, c, tree)
               /\ Names(e) \subseteq Files
               /\ tree[Source[c]] \in Digests
    <3>1. e \in mem /\ e.cmd = c /\ Fresh(e, tree) /\ tree \in Trees /\ version \in Versions
      BY DEF Hits, TypeOK
    <3>2. Names(e) = Scan(version, c, tree)
      BY <3>1 DEF EntriesSound, Sound
    <3>3. e.src \in Digests /\ tree[Source[c]] = e.src
      BY <3>1 DEF TypeOK, Entry, Fresh
    <3>. QED BY <3>1, <3>2, <3>3, ScanAssumption
  <2>2. TypeOK'
    BY <1>7, <2>1 DEF TypeOK, GetDeps, loadVars, memVars, wrtVars, runVars
  <2>3. EntriesSound'
    BY <1>7 DEF EntriesSound, OfVersion, GetDeps, loadVars, memVars, wrtVars, runVars
  <2>4. ScansCurrent'
    BY <1>7, <2>1 DEF ScansCurrent, Digested, GetDeps, TypeOK, runVars
  <2>5. Quiet'
    BY <1>7 DEF Quiet, GetDeps
  <2>. QED BY <2>2, <2>3, <2>4, <2>5
<1>8. ASSUME NEW c \in Commands, ScanFinds(c) PROVE IInv'
  <2>1. Scan(version, c, tree) \subseteq Files
    BY ScanAssumption DEF TypeOK
  <2>2. TypeOK'
    BY <1>8, <2>1 DEF TypeOK, ScanFinds, loadVars, memVars, wrtVars, runVars
  <2>3. EntriesSound'
    BY <1>8 DEF EntriesSound, OfVersion, ScanFinds, loadVars, memVars, wrtVars, runVars
  <2>4. ScansCurrent' /\ Quiet'
    BY <1>8 DEF ScansCurrent, Digested, Quiet, ScanFinds, TypeOK, runVars
  <2>. QED BY <2>2, <2>3, <2>4
<1>9. ASSUME NEW c \in Commands, ScanFails(c) PROVE IInv'
  <2>1. TypeOK'
    BY <1>9 DEF TypeOK, ScanFails, loadVars, memVars, wrtVars, runVars
  <2>2. EntriesSound'
    BY <1>9 DEF EntriesSound, OfVersion, ScanFails, loadVars, memVars, wrtVars, runVars
  <2>3. ScansCurrent' /\ Quiet'
    BY <1>9 DEF ScansCurrent, Digested, Quiet, ScanFails, TypeOK, runVars
  <2>. QED BY <2>1, <2>2, <2>3
<1>10. ASSUME NEW c \in Commands, SaveDeps(c) PROVE IInv'
  <2>1. TypeOK'
    BY <1>10 DEF TypeOK, SaveDeps, loadVars, memVars, wrtVars, runVars
  <2>2. EntriesSound'
    BY <1>10 DEF EntriesSound, OfVersion, SaveDeps, loadVars, memVars, wrtVars, runVars
  <2>3. ScansCurrent' /\ Quiet'
    BY <1>10 DEF ScansCurrent, Digested, Quiet, SaveDeps, TypeOK, runVars
  <2>. QED BY <2>1, <2>2, <2>3
<1>11. ASSUME NEW c \in Commands, SetDeps(c) PROVE IInv'
  <2>1. NewEntry(c) \in Entry /\ Sound(version, NewEntry(c))
    BY <1>11, NewEntrySound DEF SetDeps
  <2>2. mem' \subseteq Entry /\ \A g \in mem' : Sound(version, g)
    BY <1>11, <2>1, PutSound DEF SetDeps
  <2>3. TypeOK'
    BY <1>11, <2>2 DEF TypeOK, SetDeps, loadVars, wrtVars, runVars
  <2>4. EntriesSound'
    BY <1>11, <2>2 DEF EntriesSound, OfVersion, SetDeps, loadVars, wrtVars, runVars
  <2>5. ScansCurrent' /\ Quiet'
    BY <1>11, ScanAssumption DEF ScansCurrent, Digested, Quiet, SetDeps, TypeOK, Trees, runVars
  <2>. QED BY <2>3, <2>4, <2>5
<1>12. ASSUME NEW c \in Commands, Touch(c) PROVE IInv'
  <2>1. <<c, tree[Source[c]]>> \in Keys
    BY <1>12 DEF Touch, ScansCurrent, Keys
  <2>2. lut' \in [Keys -> Nat] /\ clock' \in Nat /\ touched' \subseteq Keys
    BY <1>12, <2>1 DEF Touch, Used, TypeOK
  <2>3. TypeOK'
    BY <1>12, <2>2 DEF TypeOK, Touch, Races, loadVars, runVars
  <2>4. EntriesSound'
    BY <1>12 DEF EntriesSound, OfVersion, Touch, loadVars, runVars
  <2>5. ScansCurrent' /\ Quiet'
    BY <1>12 DEF ScansCurrent, Digested, Quiet, Touch, TypeOK, runVars
  <2>. QED BY <2>3, <2>4, <2>5
<1>13. ASSUME WriteBegins \/ WriteLocks \/ SortBegins PROVE IInv'
  <2>1. TypeOK'
    BY <1>13 DEF TypeOK, WriteBegins, WriteLocks, SortBegins, loadVars, memVars, actVars, wrtVars, runVars
  <2>2. EntriesSound'
    BY <1>13
    DEF EntriesSound, OfVersion, WriteBegins, WriteLocks, SortBegins, loadVars, memVars, wrtVars, runVars
  <2>3. ScansCurrent' /\ Quiet'
    BY <1>13 DEF ScansCurrent, Digested, Quiet, WriteBegins, WriteLocks, SortBegins, actVars, runVars
  <2>. QED BY <2>1, <2>2, <2>3
<1>14. ASSUME WriteSorts PROVE IInv'
  <2>1. kept' \subseteq mem
    BY <1>14 DEF WriteSorts, Choice
  <2>2. TypeOK'
    BY <1>14, <2>1 DEF TypeOK, WriteSorts, loadVars, memVars, actVars, runVars
  <2>3. EntriesSound'
    BY <1>14, <2>1 DEF EntriesSound, OfVersion, WriteSorts, loadVars, memVars, runVars
  <2>4. ScansCurrent' /\ Quiet'
    BY <1>14 DEF ScansCurrent, Digested, Quiet, WriteSorts, actVars, runVars
  <2>. QED BY <2>2, <2>3, <2>4
<1>15. ASSUME WriteFile PROVE IInv'
  <2>1. out' \in Database /\ out'.version = version /\ out'.entries = kept
    BY <1>15 DEF WriteFile, Database, TypeOK
  <2>2. TypeOK'
    BY <1>15, <2>1, EmptyDatabase DEF TypeOK, WriteFile, loadVars, memVars, actVars, runVars
  <2>3. EntriesSound'
    BY <1>15, <2>1, EmptyDatabase
    DEF EntriesSound, OfVersion, SoundDb, WriteFile, loadVars, memVars, runVars
  <2>4. ScansCurrent' /\ Quiet'
    BY <1>15 DEF ScansCurrent, Digested, Quiet, WriteFile, actVars, runVars
  <2>. QED BY <2>2, <2>3, <2>4
<1>16. ASSUME WriteDone PROVE IInv'
  <2>1. TypeOK'
    BY <1>16 DEF TypeOK, WriteDone, loadVars, memVars, actVars, wrtVars, runVars
  <2>2. EntriesSound'
    BY <1>16 DEF EntriesSound, OfVersion, WriteDone, loadVars, memVars, wrtVars, runVars
  <2>3. ScansCurrent' /\ Quiet'
    BY <1>16 DEF ScansCurrent, Digested, Quiet, WriteDone, actVars, runVars
  <2>. QED BY <2>1, <2>2, <2>3
<1>17. ASSUME UNCHANGED vars PROVE IInv'
  <2>1. TypeOK' /\ EntriesSound'
    BY <1>17
    DEF TypeOK, EntriesSound, OfVersion, vars, loadVars, memVars, actVars, wrtVars, runVars
  <2>2. ScansCurrent' /\ Quiet'
    BY <1>17 DEF ScansCurrent, Digested, Quiet, vars, actVars, runVars
  <2>. QED BY <2>1, <2>2
<1>. QED
  BY <1>1, <1>2, <1>3, <1>4, <1>5, <1>6, <1>7, <1>8, <1>9, <1>10, <1>11, <1>12, <1>13, <1>14,
     <1>15, <1>16, <1>17
  DEF Next

-----------------------------------------------------------------------------
(* The invariant holds throughout.                                         *)
THEOREM InvariantHolds == Spec => []IInv
  BY InitIInv, StepIInv, PTL DEF Spec

(* Every value the model of the deps cache takes has its type; that the    *)
(* entries have one says that no file is saved without a digest.           *)
THEOREM TypeCorrect == Spec => []TypeOK
<1>1. IInv => TypeOK
  BY DEF IInv
<1>. QED BY <1>1, InvariantHolds, PTL

(* A hit of GetDeps is what the scanner of this version would find in the  *)
(* tree as it is, for any edits, upgrades and kills between the save of    *)
(* the entry and the hit.                                                  *)
THEOREM Freshness == Spec => []HitsAreFresh
<1>1. IInv => HitsAreFresh
  BY DEF IInv, ScansCurrent, HitsAreFresh
<1>. QED BY <1>1, InvariantHolds, PTL

-----------------------------------------------------------------------------
(* What WriteToDisk keeps.                                                 *)

(* GetDeps and SetDeps find the cache ready only once it is loaded, so     *)
(* that no last use time of this run is overwritten by one of the file.    *)
LoadedBeforeUse ==
  load # "done" =>
    touched = {} /\ ready = FALSE /\ \A c \in Commands : act[c] \notin {"hit", "store", "touch"}

(* Every last use time, in memory and in the file, is in the past.         *)
TimesPast == \A k \in Keys :
  lut[k] <= clock /\ disk.lut[k] <= clock /\ out.lut[k] <= clock /\ toLoad.lut[k] <= clock

(* What this run has used is more recent than all that it has not.         *)
UsedIsRecent == \A k \in touched, j \in Keys \ touched : lut[j] < lut[k]

(* The databases are finite: each entry was put into one by a SetDeps.     *)
FiniteDatabases ==
  /\ IsFiniteSet(disk.entries) /\ IsFiniteSet(out.entries) /\ IsFiniteSet(toLoad.entries)
  /\ IsFiniteSet(mem) /\ IsFiniteSet(kept)

KeysOf(S) == {Key(e) : e \in S}

(* Until the file is truncated it is the one found at boot; each of its    *)
(* keys is in memory or yet to be loaded.                                  *)
LoadKeepsKeys ==
  phase \in {"up", "stopping", "locked", "sorting", "sorted"} =>
    /\ disk = atBoot
    /\ Loadable(atBoot) /\ load \in {"loading", "done"} =>
         KeysOf(atBoot.entries) \subseteq KeysOf(toLoad.entries) \union KeysOf(mem)
    /\ load = "done" => toLoad.entries = {}

SurviveInv ==
  IInv /\ LoadedBeforeUse /\ TimesPast /\ UsedIsRecent /\ FiniteDatabases /\ LoadKeepsKeys

(* The empty database has no last use.                                     *)
LEMMA EmptyTimes == \A k \in Keys : Empty.lut[k] = 0
  BY DEF Empty

(* Nothing is used and nothing is on disk before the first run.            *)
LEMMA SurviveInit == Init => SurviveInv
<1> SUFFICES ASSUME Init PROVE SurviveInv
  OBVIOUS
<1>1. IInv
  BY InitIInv
<1>2. LoadedBeforeUse /\ UsedIsRecent /\ LoadKeepsKeys
  BY DEF Init, LoadedBeforeUse, UsedIsRecent, LoadKeepsKeys
<1>3. TimesPast
  BY EmptyTimes DEF Init, TimesPast
<1>4. FiniteDatabases
  BY EmptyDatabase, FS_EmptySet DEF Init, FiniteDatabases
<1>. QED BY <1>1, <1>2, <1>3, <1>4 DEF SurviveInv

(* The cache is ready only once it is loaded.                              *)
LEMMA LoadedStep == IInv /\ LoadedBeforeUse /\ [Next]_vars => LoadedBeforeUse'
<1> SUFFICES ASSUME IInv, LoadedBeforeUse, [Next]_vars PROVE LoadedBeforeUse'
  OBVIOUS
<1> USE DEF LoadedBeforeUse, loadVars, memVars, actVars
<1>1. TypeOK
  BY DEF IInv
<1>2. CASE (\E f \in Files : Edit(f)) \/ WriteBegins \/ WriteLocks \/ SortBegins \/ WriteSorts \/ WriteFile
           \/ WriteDone \/ UNCHANGED vars
  BY <1>2 DEF Edit, WriteBegins, WriteLocks, SortBegins, WriteSorts, WriteFile, WriteDone, vars
<1>3. CASE Boot \/ Exit \/ ReadFile \/ LoadDone
  BY <1>3 DEF Boot, Exit, ReadFile, LoadDone
<1>4. ASSUME NEW e \in toLoad.entries, LoadEntry(e) PROVE LoadedBeforeUse'
  BY <1>4 DEF LoadEntry
<1>5. ASSUME NEW c \in Commands, GetDeps(c) PROVE LoadedBeforeUse'
  BY <1>1, <1>5 DEF GetDeps, Hits, TypeOK
<1>6. ASSUME NEW c \in Commands, ScanFinds(c) \/ ScanFails(c) \/ SaveDeps(c) PROVE LoadedBeforeUse'
  BY <1>1, <1>6 DEF ScanFinds, ScanFails, SaveDeps, TypeOK
<1>7. ASSUME NEW c \in Commands, SetDeps(c) \/ Touch(c) PROVE LoadedBeforeUse'
  BY <1>1, <1>7 DEF SetDeps, Touch, TypeOK
<1>. QED BY <1>2, <1>3, <1>4, <1>5, <1>6, <1>7 DEF Next

(* The clock only goes on, and only Touch takes its time.                  *)
LEMMA TimesStep == IInv /\ TimesPast /\ [Next]_vars => TimesPast'
<1> SUFFICES ASSUME IInv, TimesPast, [Next]_vars, NEW k \in Keys
             PROVE  /\ lut'[k] <= clock' /\ disk'.lut[k] <= clock'
                    /\ out'.lut[k] <= clock' /\ toLoad'.lut[k] <= clock'
  BY DEF TimesPast
<1> USE DEF loadVars, memVars, wrtVars
<1>1. TypeOK
  BY DEF IInv
<1>2. clock \in Nat /\ lut \in [Keys -> Nat] /\ toLoad.lut \in [Keys -> Nat]
  BY <1>1 DEF TypeOK, Database
<1>3. /\ lut[k] <= clock /\ disk.lut[k] <= clock /\ out.lut[k] <= clock
      /\ toLoad.lut[k] <= clock /\ Empty.lut[k] <= clock
  BY <1>2, EmptyTimes DEF TimesPast
<1>4. CASE \/ \E f \in Files : Edit(f)
           \/ WriteBegins \/ WriteLocks \/ SortBegins \/ WriteSorts \/ LoadDone \/ UNCHANGED vars
  BY <1>3, <1>4 DEF Edit, WriteBegins, WriteLocks, SortBegins, WriteSorts, LoadDone, vars
<1>5. CASE Boot \/ Exit \/ ReadFile \/ WriteDone
  BY <1>3, <1>5 DEF Boot, Exit, ReadFile, WriteDone
<1>6. ASSUME NEW e \in toLoad.entries, LoadEntry(e)
      PROVE  lut'[k] <= clock /\ UNCHANGED <<clock, disk, out>> /\ toLoad'.lut = toLoad.lut
  <2>1. toLoad \in Database
    BY <1>1 DEF TypeOK
  <2>2. toLoad'.lut = toLoad.lut
    BY <1>6, <2>1 DEF LoadEntry, Database
  <2>. QED BY <1>2, <1>3, <1>6, <2>2 DEF LoadEntry
<1>7. CASE WriteFile
  <2>1. out'.lut[k] = lut[k] \/ out'.lut[k] = 0
    BY <1>7 DEF WriteFile
  <2>. QED BY <1>2, <1>3, <1>7, <2>1 DEF WriteFile
<1>8. ASSUME NEW c \in Commands,
             GetDeps(c) \/ ScanFinds(c) \/ ScanFails(c) \/ SaveDeps(c) \/ SetDeps(c)
      PROVE  UNCHANGED <<lut, clock, disk, out, toLoad>>
  BY <1>8 DEF GetDeps, ScanFinds, ScanFails, SaveDeps, SetDeps
<1>9. ASSUME NEW c \in Commands, Touch(c)
      PROVE  lut'[k] <= clock + 1 /\ clock' = clock + 1 /\ UNCHANGED <<disk, out, toLoad>>
  BY <1>2, <1>3, <1>9 DEF Touch, Used
<1>10. disk.lut[k] \in Nat /\ out.lut[k] \in Nat /\ toLoad.lut[k] \in Nat
  BY <1>1 DEF TypeOK, Database
<1>. QED BY <1>2, <1>3, <1>10, <1>4, <1>5, <1>6, <1>7, <1>8, <1>9 DEF Next

(* Touch makes its key the most recent one, and a key is loaded only while *)
(* none is touched.                                                        *)
LEMMA RecentStep ==
  IInv /\ LoadedBeforeUse /\ TimesPast /\ UsedIsRecent /\ [Next]_vars => UsedIsRecent'
<1> SUFFICES ASSUME IInv, LoadedBeforeUse, TimesPast, UsedIsRecent, [Next]_vars PROVE UsedIsRecent'
  OBVIOUS
<1> USE DEF memVars
<1>1. TypeOK
  BY DEF IInv
<1>2. CASE UNCHANGED <<lut, touched>> \/ touched' = {}
  BY <1>2 DEF UsedIsRecent
<1>3. CASE \/ \E f \in Files : Edit(f)
           \/ ReadFile \/ LoadDone \/ Boot \/ Exit \/ WriteBegins \/ WriteLocks \/ SortBegins \/ WriteSorts
           \/ WriteFile \/ WriteDone \/ UNCHANGED vars
  BY <1>2, <1>3 DEF Edit, ReadFile, LoadDone, Boot, Exit, WriteBegins, WriteLocks, SortBegins, WriteSorts,
     WriteFile, WriteDone, vars
<1>4. ASSUME NEW e \in toLoad.entries, LoadEntry(e) PROVE UsedIsRecent'
  BY <1>2, <1>4 DEF LoadEntry, LoadedBeforeUse
<1>5. ASSUME NEW c \in Commands,
             GetDeps(c) \/ ScanFinds(c) \/ ScanFails(c) \/ SaveDeps(c) \/ SetDeps(c)
      PROVE  UsedIsRecent'
  BY <1>2, <1>5 DEF GetDeps, ScanFinds, ScanFails, SaveDeps, SetDeps
<1>6. ASSUME NEW c \in Commands, Touch(c) PROVE UsedIsRecent'
  <2> DEFINE u == <<c, tree[Source[c]]>>
  <2>1. /\ touched' = touched \union {u} /\ lut' = [lut EXCEPT ![u] = clock + 1]
        /\ u \in Keys /\ touched \subseteq Keys
        /\ lut \in [Keys -> Nat] /\ clock \in Nat
    BY <1>1, <1>6 DEF Touch, Used, TypeOK, IInv, ScansCurrent, Keys
  <2>2. \A j \in Keys : lut[j] <= clock
    BY DEF TimesPast
  <2> HIDE DEF u
  <2>3. ASSUME NEW k \in touched', NEW j \in Keys \ touched' PROVE lut'[j] < lut'[k]
    BY <2>1, <2>2 DEF UsedIsRecent
  <2>. QED BY <2>3 DEF UsedIsRecent
<1>. QED BY <1>3, <1>4, <1>5, <1>6 DEF Next

(* Each step adds one entry at most.                                       *)
LEMMA FiniteStep == IInv /\ FiniteDatabases /\ [Next]_vars => FiniteDatabases'
<1> SUFFICES ASSUME IInv, FiniteDatabases, [Next]_vars PROVE FiniteDatabases'
  OBVIOUS
<1> USE DEF loadVars, memVars, wrtVars
<1>1. TypeOK
  BY DEF IInv
<1>2. IsFiniteSet({}) /\ IsFiniteSet(Empty.entries)
  BY EmptyDatabase, FS_EmptySet
<1>3. CASE \/ \E f \in Files : Edit(f)
           \/ LoadDone \/ WriteBegins \/ WriteLocks \/ SortBegins \/ UNCHANGED vars
  BY <1>3 DEF FiniteDatabases, Edit, LoadDone, WriteBegins, WriteLocks, SortBegins, vars
<1>4. CASE Boot \/ Exit \/ ReadFile \/ WriteDone
  BY <1>2, <1>4 DEF FiniteDatabases, Boot, Exit, ReadFile, WriteDone
<1>5. ASSUME NEW e, Put(e) PROVE IsFiniteSet(mem')
  <2>1. IsFiniteSet({g \in mem : Key(g) # Key(e)})
    BY FS_Subset DEF FiniteDatabases
  <2>. QED BY <1>5, <2>1, FS_AddElement DEF Put
<1>6. ASSUME NEW e \in toLoad.entries, LoadEntry(e) PROVE FiniteDatabases'
  <2>1. toLoad'.entries = toLoad.entries \ {e}
    BY <1>1, <1>6 DEF LoadEntry, TypeOK, Database
  <2>2. IsFiniteSet(toLoad'.entries)
    BY <2>1, FS_Subset DEF FiniteDatabases
  <2>3. IsFiniteSet(mem')
    BY <1>5, <1>6 DEF LoadEntry
  <2>. QED BY <1>6, <2>2, <2>3 DEF FiniteDatabases, LoadEntry
<1>7. ASSUME NEW c \in Commands, GetDeps(c) \/ ScanFinds(c) \/ ScanFails(c) \/ SaveDeps(c) \/ Touch(c)
      PROVE  FiniteDatabases'
  BY <1>7 DEF FiniteDatabases, GetDeps, ScanFinds, ScanFails, SaveDeps, Touch
<1>8. ASSUME NEW c \in Commands, SetDeps(c) PROVE FiniteDatabases'
  <2>1. IsFiniteSet(mem')
    BY <1>5, <1>8 DEF SetDeps
  <2>. QED BY <1>8, <2>1 DEF FiniteDatabases, SetDeps
<1>9. CASE WriteSorts
  <2>1. kept' \subseteq mem
    BY <1>9 DEF WriteSorts, Choice
  <2>2. IsFiniteSet(kept')
    BY <2>1, FS_Subset DEF FiniteDatabases
  <2>. QED BY <1>9, <2>2 DEF FiniteDatabases, WriteSorts
<1>10. CASE WriteFile
  <2>1. out'.entries = kept
    BY <1>10 DEF WriteFile
  <2>. QED BY <1>2, <1>10, <2>1 DEF FiniteDatabases, WriteFile
<1>. QED BY <1>3, <1>4, <1>6, <1>7, <1>8, <1>9, <1>10 DEF Next

(* Putting an entry into depsCache loses no key.                           *)
LEMMA PutKeepsKeys ==
  ASSUME NEW e, Put(e)
  PROVE  KeysOf(mem') = KeysOf(mem) \union {Key(e)}
  BY DEF Put, KeysOf

(* No key of the file is lost on the way into memory.                      *)
LEMMA KeysStep == IInv /\ LoadKeepsKeys /\ [Next]_vars => LoadKeepsKeys'
<1> SUFFICES ASSUME IInv, LoadKeepsKeys, [Next]_vars PROVE LoadKeepsKeys'
  OBVIOUS
<1> USE DEF LoadKeepsKeys, Loadable, loadVars, memVars, runVars
<1>1. TypeOK
  BY DEF IInv
<1>2. CASE (\E f \in Files : Edit(f)) \/ WriteBegins \/ WriteLocks \/ SortBegins \/ WriteSorts \/ UNCHANGED vars
  BY <1>2 DEF Edit, WriteBegins, WriteLocks, SortBegins, WriteSorts, vars
<1>3. CASE Boot \/ Exit \/ WriteFile \/ WriteDone
  BY <1>3 DEF Boot, Exit, WriteFile, WriteDone
<1>4. CASE ReadFile
  BY <1>4 DEF ReadFile
<1>5. CASE LoadDone
  BY <1>5 DEF LoadDone
<1>6. ASSUME NEW e \in toLoad.entries, LoadEntry(e) PROVE LoadKeepsKeys'
  <2>1. toLoad'.entries = toLoad.entries \ {e}
    BY <1>1, <1>6 DEF LoadEntry, TypeOK, Database
  <2>2. KeysOf(mem') = KeysOf(mem) \union {Key(e)}
    BY <1>6, PutKeepsKeys DEF LoadEntry
  <2>3. KeysOf(toLoad.entries) \subseteq KeysOf(toLoad'.entries) \union {Key(e)}
    BY <2>1 DEF KeysOf
  <2>4. /\ load = "loading" /\ load' = load
        /\ UNCHANGED <<phase, disk, atBoot, version>>
    BY <1>6 DEF LoadEntry
  <2> HIDE DEF LoadKeepsKeys
  <2>5. KeysOf(toLoad.entries) \union KeysOf(mem) \subseteq KeysOf(toLoad'.entries) \union KeysOf(mem')
    BY <2>2, <2>3
  <2>6. KeysOf(atBoot'.entries) = KeysOf(atBoot.entries) /\ Loadable(atBoot)' = Loadable(atBoot)
    BY <2>4
  <2>. QED BY <2>4, <2>5, <2>6 DEF LoadKeepsKeys
<1>7. ASSUME NEW c \in Commands, GetDeps(c) \/ ScanFinds(c) \/ ScanFails(c) \/ SaveDeps(c) \/ Touch(c)
      PROVE  LoadKeepsKeys'
  BY <1>7 DEF GetDeps, ScanFinds, ScanFails, SaveDeps, Touch
<1>8. ASSUME NEW c \in Commands, SetDeps(c) PROVE LoadKeepsKeys'
  <2>1. KeysOf(mem) \subseteq KeysOf(mem')
    BY <1>8, PutKeepsKeys DEF SetDeps
  <2>. QED BY <1>8, <2>1 DEF SetDeps
<1>. QED BY <1>2, <1>3, <1>4, <1>5, <1>6, <1>7, <1>8 DEF Next

(* What WriteToDisk chooses is all of depsCache if it fits, unless the     *)
(* load was still filling it.                                              *)
LEMMA ChoiceKeepsAll ==
  ASSUME FiniteDatabases, "entries" \notin raced, NEW K \in Choice, Cardinality(mem) <= MaxEntries
  PROVE  K = mem
<1>1. K \subseteq mem /\ (Cardinality(K) = Quota \/ K = mem)
  BY DEF Choice, Full
<1>2. IsFiniteSet(mem) /\ IsFiniteSet(K)
  BY <1>1, FS_Subset DEF FiniteDatabases
<1>3. Cardinality(mem) \in Nat /\ Cardinality(K) \in Nat
  BY <1>2, FS_CardinalityType
<1>4. Cardinality(K) <= Cardinality(mem) /\ (Cardinality(K) = Cardinality(mem) => K = mem)
  BY <1>1, <1>2, FS_Subset
<1>. QED BY <1>1, <1>3, <1>4, ScanAssumption DEF Quota

(* What the write rests on holds throughout.                               *)
THEOREM SurviveInvariant == Spec => []SurviveInv
<1>1. SurviveInv /\ [Next]_vars => SurviveInv'
  BY StepIInv, LoadedStep, TimesStep, RecentStep, FiniteStep, KeysStep DEF SurviveInv
<1>. QED BY <1>1, SurviveInit, PTL DEF Spec

(* What WriteToDisk keeps, whenever it comes: nothing whose use this run   *)
(* has recorded gives way to what it has not used, if nothing was written  *)
(* while it sorted, and a run that has loaded its file before it sorts     *)
(* writes back every key that the file had, if all fits.                   *)
THEOREM EntriesAreKept == Spec => EntriesSurvive
<1> DEFINE Kept ==
      phase = "sorting" /\ phase' = "sorted" =>
        /\ raced = {} =>
             \A e \in kept', g \in mem \ kept' : Key(g) \in touched => Key(e) \in touched
        /\ (/\ load = "done" /\ "entries" \notin raced
            /\ Loadable(atBoot) /\ Cardinality(mem) <= MaxEntries) =>
             {Key(e) : e \in atBoot.entries} \subseteq {Key(e) : e \in kept'}
<1>1. SurviveInv /\ [Next]_vars => [Kept]_vars
  <2> SUFFICES ASSUME SurviveInv, Next, phase = "sorting", phase' = "sorted" PROVE Kept
    OBVIOUS
  <2> USE DEF SurviveInv
  <2>1. WriteSorts
    BY DEF Next, Edit, Boot, Exit, ReadFile, LoadDone, LoadEntry, GetDeps, ScanFinds, ScanFails,
       SaveDeps, SetDeps, Touch, WriteBegins, WriteLocks, SortBegins, WriteFile, WriteDone
  <2>2. kept' \in Choice
    BY <2>1 DEF WriteSorts
  <2>3. ASSUME raced = {}, NEW e \in kept', NEW g \in mem \ kept', Key(g) \in touched
        PROVE  Key(e) \in touched
    <3>1. e \in mem /\ lut[Key(e)] >= lut[Key(g)]
      BY <2>2, <2>3 DEF Choice, Recent
    <3>2. Key(e) \in Keys /\ Key(g) \in Keys /\ lut \in [Keys -> Nat]
      BY <2>3, <3>1 DEF IInv, TypeOK, Entry, Key, Keys
    <3>. QED BY <2>3, <3>1, <3>2 DEF UsedIsRecent
  <2>4. ASSUME load = "done", "entries" \notin raced, Loadable(atBoot), Cardinality(mem) <= MaxEntries
        PROVE  KeysOf(atBoot.entries) \subseteq KeysOf(kept')
    <3>1. kept' = mem
      BY <2>2, <2>4, ChoiceKeepsAll
    <3>2. toLoad.entries = {} /\ KeysOf(atBoot.entries) \subseteq KeysOf(toLoad.entries) \union KeysOf(mem)
      BY <2>4 DEF LoadKeepsKeys
    <3>3. KeysOf({}) = {}
      BY DEF KeysOf
    <3>. QED BY <3>1, <3>2, <3>3
  <2>. QED BY <2>3, <2>4 DEF KeysOf
<1>. QED BY <1>1, SurviveInvariant, PTL DEF Spec, EntriesSurvive
=============================================================================
