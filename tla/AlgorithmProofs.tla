-------------------------- MODULE AlgorithmProofs ---------------------------
(***************************************************************************)
(* Proofs about the pure algorithms, for inputs of any size.  What a loop  *)
(* computes is a recursive function on the number of its rounds; facts     *)
(* about it are proved by induction on that number.                        *)
(***************************************************************************)
EXTENDS Algorithms, SequenceTheorems, FiniteSetTheorems, WellFoundedInduction, TLAPS

(* Every set of natural numbers that is not empty has a least element.     *)
LEMMA LeastNumber ==
  ASSUME NEW T, T \subseteq Nat, T # {}
  PROVE  \E n \in T : \A m \in T : n <= m
<1> DEFINE R == {ss \in Nat \X Nat : ss[1] < ss[2]}
<1>1. \A m \in Nat, n \in Nat : m < n => <<m, n>> \in R
  OBVIOUS
<1>2. IsWellFoundedOn(R, Nat)
  BY NatLessThanWellFounded DEF OpToRel
<1> HIDE DEF R
<1>3. PICK n \in T : \A m \in T : <<m, n>> \notin R
  BY <1>2, WFMin
<1>4. \A m \in T : ~(m < n)
  BY <1>1, <1>3
<1>. QED BY <1>3, <1>4

(* Induction, with a set in place of a predicate.                          *)
LEMMA InductionUpTo ==
  ASSUME NEW n \in Nat, NEW T \in SUBSET Nat, 0 \in T, \A i \in 1 .. n : i - 1 \in T => i \in T
  PROVE  \A i \in 0 .. n : i \in T
<1> SUFFICES ASSUME NEW j \in 0 .. n, j \notin T PROVE FALSE
  OBVIOUS
<1> DEFINE U == {i \in 0 .. n : i \notin T}
<1>1. PICK i \in U : \A m \in U : i <= m
  BY LeastNumber, U \subseteq Nat, U # {}
<1>2. i \in 1 .. n /\ i - 1 \notin U
  BY <1>1
<1> QED BY <1>1, <1>2

(* The same, from each number to the next.                                 *)
LEMMA InductionByOne ==
  ASSUME NEW n \in Nat, NEW T \in SUBSET Nat, 0 \in T,
         \A i \in 0 .. n : i \in T /\ i + 1 <= n => i + 1 \in T
  PROVE  \A i \in 0 .. n : i \in T
<1>1. ASSUME NEW i \in 1 .. n, i - 1 \in T PROVE i \in T
  <2>1. i - 1 \in 0 .. n /\ (i - 1) + 1 = i /\ i <= n
    OBVIOUS
  <2> QED BY <1>1, <2>1
<1> QED BY <1>1, InductionUpTo

(* A loop of n rounds on states X begins with b; step[i] is round i of it. *)
IsLoop(n, X, b, step) == n \in Nat /\ b \in X /\ step \in [1..n -> [X -> X]]
IsRun(f, n, X, b, step) ==
  f \in [0..n -> X] /\ f[0] = b /\ \A i \in 1..n : f[i] = step[i][f[i - 1]]

(* A recursion over the rounds of a loop has a solution.                   *)
LEMMA LoopRuns ==
  ASSUME NEW n, NEW X, NEW b, NEW step, IsLoop(n, X, b, step)
  PROVE  \E f : IsRun(f, n, X, b, step)
<1> USE DEF IsLoop
<1> DEFINE Runs(f, k) == f[0] = b /\ \A i \in 1..k : f[i] = step[i][f[i - 1]]
           T == {k \in Nat : k <= n => \E f \in [0..k -> X] : Runs(f, k)}
<1>1. 0 \in T
  <2> DEFINE f == [i \in 0..0 |-> b]
  <2>1. f \in [0..0 -> X] /\ Runs(f, 0)
    OBVIOUS
  <2> QED BY <2>1
<1>2. ASSUME NEW k \in 1..n, k - 1 \in T PROVE k \in T
  <2>1. PICK f \in [0..(k - 1) -> X] : Runs(f, k - 1)
    BY <1>2
  <2> DEFINE g == [i \in 0..k |-> IF i = k THEN step[k][f[k - 1]] ELSE f[i]]
  <2>2. g \in [0..k -> X]
    <3>1. step[k][f[k - 1]] \in X
      BY <2>1
    <3> QED BY <2>1, <3>1
  <2>3. Runs(g, k)
    <3>1. g[0] = b
      BY <2>1
    <3>2. ASSUME NEW i \in 1..k PROVE g[i] = step[i][g[i - 1]]
      <4>1. CASE i = k
        BY <4>1
      <4>2. CASE i # k
        <5>1. i \in 1..(k - 1) /\ g[i] = f[i] /\ g[i - 1] = f[i - 1]
          BY <4>2
        <5> QED BY <2>1, <5>1
      <4> QED BY <4>1, <4>2
    <3> QED BY <3>1, <3>2
  <2> HIDE DEF g, Runs
  <2>4. \E h \in [0..k -> X] : Runs(h, k)
    BY <2>2, <2>3
  <2> QED BY <2>4
<1>3. n \in T
  <2> HIDE DEF T
  <2>1. T \in SUBSET Nat
    BY DEF T
  <2>2. \A i \in 0..n : i \in T
    BY <1>1, <1>2, <2>1, InductionUpTo
  <2> QED BY <2>2
<1> QED BY <1>3 DEF IsRun

-----------------------------------------------------------------------------
(* The verdict of compare mode                                             *)

Image(values, i) == {values[k] : k \in DOMAIN values \cap (1..i)}
Once(list) == \A i, j \in 1..Len(list) : list[i] = list[j] => i = j

(* dedup keeps every value, and each only once.                            *)
LEMMA DedupKeepsEachOnce ==
  ASSUME NEW n \in Nat, NEW values, DOMAIN values \subseteq 1..n
  PROVE  LET d == Dedup(values, n) IN
         /\ d \in Seq(Image(values, n)) /\ Once(d)
         /\ \A k \in DOMAIN values : \E j \in 1..Len(d) : d[j] = values[k]
<1> DEFINE X == Seq(Image(values, n))
           Body(x, i) == IF i \notin DOMAIN values \/ Contains(x, values[i]) THEN x
                         ELSE Append(x, values[i])
           Rec(f) == [i \in 0..n |-> IF i = 0 THEN <<>> ELSE Body(f[i - 1], i)]
           step == [i \in 1..n |-> [x \in X |-> Body(x, i)]]
<1>1. IsLoop(n, X, <<>>, step) /\ <<>> \in X
  <2>1. ASSUME NEW i \in 1..n, NEW x \in X PROVE Body(x, i) \in X
    <3>1. CASE i \in DOMAIN values
      <4>1. values[i] \in Image(values, n)
        BY <3>1 DEF Image
      <4> QED BY <4>1
    <3>2. CASE i \notin DOMAIN values
      BY <3>2
    <3> QED BY <3>1, <3>2
  <2> HIDE DEF Body
  <2>2. <<>> \in X
    OBVIOUS
  <2> HIDE DEF X
  <2> QED BY <2>1, <2>2 DEF IsLoop
<1>2. PICK f : IsRun(f, n, X, <<>>, step)
  <2> HIDE DEF X, step
  <2> QED BY <1>1, LoopRuns, Zenon
<1>3. f = Rec(f)
  <2> HIDE DEF X, Body
  <2>1. ASSUME NEW i \in 1..n PROVE f[i] = Body(f[i - 1], i)
    <3>1. f[i - 1] \in X /\ f[i] = step[i][f[i - 1]]
      BY <1>2 DEF IsRun
    <3> QED BY <3>1
  <2> QED BY <1>2, <2>1 DEF IsRun
<1> DEFINE g == CHOOSE h : h = Rec(h)
<1>4. g = Rec(g)
  <2> HIDE DEF Rec
  <2> QED BY <1>3
<1>5. Dedup(values, n) = g[n]
  BY DEF Dedup
<1> HIDE DEF g
<1>6. g[0] = <<>> /\ \A i \in 1..n : g[i] = Body(g[i - 1], i)
  <2> HIDE DEF Body
  <2> QED BY <1>4
<1> DEFINE Good(d, i) == /\ d \in X /\ Once(d)
                         /\ \A k \in DOMAIN values \cap (1..i) : \E j \in 1..Len(d) : d[j] = values[k]
           T == {i \in Nat : i <= n => Good(g[i], i)}
<1>7. 0 \in T
  <2>1. <<>> \in X /\ Once(<<>>)
    BY <1>1 DEF Once
  <2> HIDE DEF X
  <2>2. Good(<<>>, 0)
    BY <2>1
  <2> QED BY <1>6, <2>2
<1>8. ASSUME NEW i \in 1..n, i - 1 \in T PROVE i \in T
  <2> DEFINE d == g[i - 1]
             e == g[i]
  <2>1. Good(d, i - 1) /\ e = Body(d, i)
    BY <1>6, <1>8
  <2> HIDE DEF d, e
  <2>2. d \in X /\ Once(d) /\ \A k \in DOMAIN values \cap (1..(i - 1)) : \E j \in 1..Len(d) : d[j] = values[k]
    BY <2>1
  <2> HIDE DEF X
  <2>3. CASE i \notin DOMAIN values
    <3>1. e = d /\ \A k \in DOMAIN values \cap (1..i) : k \in 1..(i - 1)
      BY <2>1, <2>3
    <3>2. Good(e, i)
      BY <2>2, <3>1
    <3> QED BY <3>2 DEF e
  <2>4. CASE i \in DOMAIN values /\ Contains(d, values[i])
    <3>1. e = d /\ \E j \in 1..Len(d) : d[j] = values[i]
      BY <2>1, <2>4 DEF Contains
    <3>2. \A k \in DOMAIN values \cap (1..i) : k = i \/ k \in 1..(i - 1)
      OBVIOUS
    <3>3. Good(e, i)
      BY <2>2, <3>1, <3>2
    <3> QED BY <3>3 DEF e
  <2>5. CASE i \in DOMAIN values /\ ~Contains(d, values[i])
    <3>1. e = Append(d, values[i]) /\ \A j \in 1..Len(d) : d[j] # values[i]
      BY <2>1, <2>5 DEF Contains
    <3>2. values[i] \in Image(values, n)
      BY <2>5 DEF Image
    <3>3. /\ e \in X /\ Len(e) = Len(d) + 1 /\ Len(d) \in Nat /\ e[Len(d) + 1] = values[i]
          /\ \A j \in 1..Len(d) : e[j] = d[j]
      BY <2>2, <3>1, <3>2 DEF X
    <3>4. Once(e)
      BY <2>2, <3>1, <3>3 DEF Once
    <3>5. \A k \in DOMAIN values \cap (1..i) : \E j \in 1..Len(e) : e[j] = values[k]
      <4> TAKE k \in DOMAIN values \cap (1..i)
      <4>1. CASE k = i
        <5>1. Len(d) + 1 \in 1..Len(e)
          BY <3>3
        <5> QED BY <3>3, <4>1, <5>1
      <4>2. CASE k # i
        <5>1. k \in DOMAIN values \cap (1..(i - 1))
          BY <4>2
        <5>2. PICK j \in 1..Len(d) : d[j] = values[k]
          BY <2>2, <5>1
        <5>3. j \in 1..Len(e) /\ e[j] = d[j]
          BY <3>3, <5>2
        <5> QED BY <5>2, <5>3
      <4> QED BY <4>1, <4>2
    <3> QED BY <3>3, <3>4, <3>5 DEF e
  <2> QED BY <2>3, <2>4, <2>5
<1>9. n \in T
  <2> HIDE DEF T
  <2>1. T \in SUBSET Nat
    BY DEF T
  <2>2. \A i \in 0..n : i \in T
    BY <1>7, <1>8, <2>1, InductionUpTo
  <2> QED BY <2>2
<1>10. Good(g[n], n)
  BY <1>9
<1> QED BY <1>5, <1>10

(* All values are the same.                                                *)
Uniform(values) == \A i, j \in DOMAIN values : values[i] = values[j]

(* What the length of the list says.                                       *)
LEMMA DedupCounts ==
  ASSUME NEW n \in Nat, NEW values, DOMAIN values \subseteq 1..n
  PROVE  LET d == Dedup(values, n) IN
         /\ Len(d) \in Nat
         /\ Len(d) = 0 <=> DOMAIN values = {}
         /\ Len(d) > 1 <=> ~Uniform(values)
         /\ Len(d) = 1 => \A i \in DOMAIN values : d[1] = values[i]
<1> DEFINE d == Dedup(values, n)
           m == Len(d)
<1>1. /\ d \in Seq(Image(values, n)) /\ Once(d)
      /\ \A k \in DOMAIN values : \E j \in 1..m : d[j] = values[k]
  BY DedupKeepsEachOnce
<1> HIDE DEF d
<1>2. m \in Nat /\ \A j \in 1..m : \E k \in DOMAIN values : d[j] = values[k]
  <2>1. m \in Nat /\ \A j \in 1..m : d[j] \in Image(values, n)
    BY <1>1
  <2> QED BY <2>1 DEF Image
<1>3. \A i, j \in 1..m : d[i] = d[j] => i = j
  BY <1>1 DEF Once
<1> HIDE DEF m
<1>4. m = 0 <=> DOMAIN values = {}
  <2>1. ASSUME DOMAIN values = {} PROVE m = 0
    BY <1>2, <2>1
  <2>2. ASSUME m = 0, NEW k \in DOMAIN values PROVE FALSE
    BY <1>1, <2>2
  <2> QED BY <2>1, <2>2
<1>5. m = 1 => \A i \in DOMAIN values : d[1] = values[i]
  BY <1>1
<1>6. ASSUME m > 1 PROVE ~Uniform(values)
  <2>1. 1 \in 1..m /\ 2 \in 1..m /\ d[1] # d[2]
    BY <1>2, <1>3, <1>6
  <2>2. PICK i \in DOMAIN values, j \in DOMAIN values : d[1] = values[i] /\ d[2] = values[j]
    BY <1>2, <2>1
  <2> QED BY <2>1, <2>2 DEF Uniform
<1>7. ASSUME ~(m > 1) PROVE Uniform(values)
  <2>1. m = 0 \/ m = 1
    BY <1>2, <1>7
  <2> QED BY <1>4, <1>5, <2>1 DEF Uniform
<1> QED BY <1>2, <1>4, <1>5, <1>6, <1>7 DEF d, m

(* The reruns that were asked for have a value to show.                    *)
Shown(lv, rv, numLocal, numRemote) ==
  (numLocal > 0 => DOMAIN lv # {}) /\ (numRemote > 0 => DOMAIN rv # {})
Alike(lv, rv) == \A i \in DOMAIN lv, j \in DOMAIN rv : lv[i] = rv[j]

(* The values of the reruns of both sides, at least one of which ran, and  *)
(* none that was not asked to.                                             *)
AreReruns(n, lv, rv, numLocal, numRemote) ==
  /\ n \in Nat /\ DOMAIN lv \subseteq 1..n /\ DOMAIN rv \subseteq 1..n
  /\ DOMAIN lv # {} \/ DOMAIN rv # {}
  /\ DOMAIN lv # {} => numLocal > 0
  /\ DOMAIN rv # {} => numRemote > 0
(* What a verdict says of reruns that have all a value to show or not, of  *)
(* which the local ones agree, the remote ones, and the two sides, and of  *)
(* which there are enough to tell.                                         *)
Says(c, shown, some, local, remote, alike, enough) ==
  /\ c.log \in BOOLEAN /\ (c.log <=> ~(shown /\ local /\ remote /\ alike))
  /\ \/ c.status = "DETERMINISTIC" /\ shown /\ local /\ remote /\ (c.log => enough)
     \/ c.status = "NON_DETERMINISTIC" /\ (~local \/ (~remote /\ ~some))
     \/ c.status = "REMOTE_NON_DETERMINISTIC" /\ local /\ ~remote
     \/ c.status = "UNKNOWN" /\ (~shown \/ ~enough)

(* compareDigests and compareExitCodes: what is logged, and what each      *)
(* status means.                                                           *)
LEMMA CompareSays ==
  ASSUME NEW n, NEW lv, NEW rv, NEW numLocal \in Nat, NEW numRemote \in Nat,
         AreReruns(n, lv, rv, numLocal, numRemote)
  PROVE  Says(Compare(Dedup(lv, n), Dedup(rv, n), numLocal, numRemote),
              Shown(lv, rv, numLocal, numRemote), DOMAIN lv # {}, Uniform(lv), Uniform(rv),
              Alike(lv, rv), numLocal + numRemote > 2)
<1> USE DEF AreReruns
<1> DEFINE l == Dedup(lv, n)
           r == Dedup(rv, n)
           c == Compare(l, r, numLocal, numRemote)
           x == Len(l)
           y == Len(r)
<1>1. /\ x \in Nat /\ (x = 0 <=> DOMAIN lv = {}) /\ (x > 1 <=> ~Uniform(lv))
      /\ (x = 1 => \A i \in DOMAIN lv : l[1] = lv[i])
  BY DedupCounts
<1>2. /\ y \in Nat /\ (y = 0 <=> DOMAIN rv = {}) /\ (y > 1 <=> ~Uniform(rv))
      /\ (y = 1 => \A i \in DOMAIN rv : r[1] = rv[i])
  BY DedupCounts
<1> DEFINE one == x = 1 /\ y = 1
           same == one /\ l[1] = r[1]
           differ == one /\ l[1] # r[1] /\ numLocal + numRemote > 2
           oneSided == (x = 1 /\ numRemote = 0) \/ (y = 1 /\ numLocal = 0)
<1>3. c = IF x > 1 \/ y > 1
          THEN Verdict(IF x = 1 THEN "REMOTE_NON_DETERMINISTIC" ELSE "NON_DETERMINISTIC", TRUE)
          ELSE IF oneSided \/ same \/ differ THEN Verdict("DETERMINISTIC", differ)
          ELSE Verdict("UNKNOWN", TRUE)
  BY DEF Compare, Enough
<1> HIDE DEF x, y
<1>4. ASSUME x = 1, y = 1 PROVE Alike(lv, rv) <=> l[1] = r[1]
  <2>1. PICK i \in DOMAIN lv, j \in DOMAIN rv : l[1] = lv[i] /\ r[1] = rv[j]
    BY <1>1, <1>2, <1>4
  <2> QED BY <1>1, <1>2, <1>4, <2>1 DEF Alike
<1>5. (DOMAIN lv = {} \/ DOMAIN rv = {}) => Alike(lv, rv)
  BY DEF Alike
<1> HIDE DEF l, r, c
<1> DEFINE shown == Shown(lv, rv, numLocal, numRemote)
<1> SUFFICES Says(c, shown, DOMAIN lv # {}, Uniform(lv), Uniform(rv), Alike(lv, rv),
                  numLocal + numRemote > 2)
  BY DEF l, r, c
<1> USE DEF Says
<1>6. CASE x > 1 \/ y > 1
  <2>1. c.log = TRUE /\ c.status = IF x = 1 THEN "REMOTE_NON_DETERMINISTIC" ELSE "NON_DETERMINISTIC"
    BY <1>3, <1>6 DEF Verdict
  <2>2. ~Uniform(lv) \/ ~Uniform(rv)
    BY <1>1, <1>2, <1>6
  <2>3. IF x = 1 THEN Uniform(lv) /\ ~Uniform(rv) ELSE ~Uniform(lv) \/ (~Uniform(rv) /\ DOMAIN lv = {})
    BY <1>1, <1>2, <1>6
  <2> QED BY <2>1, <2>2, <2>3
<1>7. CASE ~(x > 1 \/ y > 1)
  <2>1. Uniform(lv) /\ Uniform(rv) /\ x \in {0, 1} /\ y \in {0, 1}
    BY <1>1, <1>2, <1>7
  <2>2. /\ (x = 1 => numLocal > 0) /\ (y = 1 => numRemote > 0) /\ (x = 1 \/ y = 1)
        /\ (x = 0 \/ y = 0) => Alike(lv, rv)
    BY <1>1, <1>2, <1>5, <2>1
  <2>3. shown <=> (numLocal > 0 => x = 1) /\ (numRemote > 0 => y = 1)
    BY <1>1, <1>2, <2>1 DEF Shown
  <2> HIDE DEF shown
  <2>4. shown <=> oneSided \/ one
    BY <2>1, <2>2, <2>3
  <2>5. CASE oneSided
    <3>1. ~one /\ (x = 0 \/ y = 0)
      BY <2>1, <2>2, <2>5
    <3>2. c.status = "DETERMINISTIC" /\ c.log = FALSE
      BY <1>3, <1>7, <2>5, <3>1 DEF Verdict
    <3> QED BY <2>1, <2>2, <2>4, <2>5, <3>1, <3>2
  <2>6. CASE one /\ ~oneSided /\ l[1] = r[1]
    <3>1. c.status = "DETERMINISTIC" /\ c.log = FALSE
      BY <1>3, <1>7, <2>6 DEF Verdict
    <3> QED BY <1>4, <2>1, <2>4, <2>6, <3>1
  <2>7. CASE one /\ ~oneSided /\ l[1] # r[1] /\ numLocal + numRemote > 2
    <3>1. c.status = "DETERMINISTIC" /\ c.log = TRUE
      BY <1>3, <1>7, <2>7 DEF Verdict
    <3> QED BY <1>4, <2>1, <2>4, <2>7, <3>1
  <2>8. CASE one /\ ~oneSided /\ l[1] # r[1] /\ ~(numLocal + numRemote > 2)
    <3>1. c.status = "UNKNOWN" /\ c.log = TRUE
      BY <1>3, <1>7, <2>8 DEF Verdict
    <3>2. ~(numLocal + numRemote > 2) /\ ~Alike(lv, rv)
      BY <1>4, <2>8
    <3> QED BY <3>1, <3>2
  <2>9. CASE ~one /\ ~oneSided
    <3>1. c.status = "UNKNOWN" /\ c.log = TRUE
      BY <1>3, <1>7, <2>9 DEF Verdict
    <3> QED BY <2>1, <2>4, <2>9, <3>1
  <2> QED BY <2>5, <2>6, <2>7, <2>8, <2>9
<1> QED BY <1>6, <1>7 DEF l, r, c

-----------------------------------------------------------------------------
(* compareAction: the verdict is what the reruns say pair by pair.         *)
LEMMA VerdictOfReruns ==
  ASSUME NEW S, NEW reruns \in Seq(S), \A r \in S : IsRerun(r),
         NEW numLocal \in Nat, NEW numRemote \in Nat,
         Side(reruns, FALSE) # {} => numLocal > 0, Side(reruns, TRUE) # {} => numRemote > 0
  PROVE  VerdictFollows(reruns, numLocal, numRemote)
<1> DEFINE n == Len(reruns)
           L == Side(reruns, FALSE)
           R == Side(reruns, TRUE)
           Left(side, fp) == {i \in side : fp \in DOMAIN reruns[i].dgs}
           lv(fp) == [i \in Left(L, fp) |-> reruns[i].dgs[fp]]
           rv(fp) == [i \in Left(R, fp) |-> reruns[i].dgs[fp]]
           le == [i \in L |-> reruns[i].ec]
           re == [i \in R |-> reruns[i].ec]
           dg(fp) == Compare(Dedup(lv(fp), n), Dedup(rv(fp), n), numLocal, numRemote)
           ec == Compare(Dedup(le, n), Dedup(re, n), numLocal, numRemote)
           result == CompareAction(reruns, numLocal, numRemote)
<1>1. /\ n \in Nat /\ L \subseteq 1..n /\ R \subseteq 1..n /\ L \cup R = 1..n
  <2>1. n \in Nat /\ \A i \in 1..n : reruns[i] \in S
    OBVIOUS
  <2>2. \A i \in 1..n : reruns[i].remote = TRUE \/ reruns[i].remote = FALSE
    BY <2>1 DEF IsRerun
  <2> QED BY <2>1, <2>2 DEF Side
<1>2. /\ result = [fp \in {p \in Paths(reruns) : dg(p).log \/ ec.log} |->
                     [status |-> Combine(dg(fp).status, ec.status),
                      digests |-> dg(fp).log, exitCodes |-> ec.log]]
  BY DEF CompareAction, Digests, ExitCodes
<1> DEFINE asked(fp) == (numLocal > 0 => Seen(reruns, fp, FALSE)) /\ (numRemote > 0 => Seen(reruns, fp, TRUE))
           some(fp) == Seen(reruns, fp, FALSE)
           onL(fp) == AgreeOn(reruns, fp, L, L)
           onR(fp) == AgreeOn(reruns, fp, R, R)
           across(fp) == AgreeOn(reruns, fp, L, R)
           exL == AgreeInExit(reruns, L, L)
           exR == AgreeInExit(reruns, R, R)
           exAcross == AgreeInExit(reruns, L, R)
           exAsked == (numLocal > 0 => L # {}) /\ (numRemote > 0 => R # {})
           enough == numLocal + numRemote > 2
<1>3. ASSUME NEW fp \in Paths(reruns)
      PROVE  /\ Left(L, fp) # {} \/ Left(R, fp) # {}
             /\ asked(fp) => exAsked
             /\ some(fp) => L # {}
             /\ some(fp) <=> DOMAIN lv(fp) # {}
             /\ asked(fp) <=> Shown(lv(fp), rv(fp), numLocal, numRemote)
             /\ AgreeOn(reruns, fp, L \cup R, L \cup R) <=> onL(fp) /\ onR(fp) /\ across(fp)
             /\ onL(fp) <=> Uniform(lv(fp))
             /\ onR(fp) <=> Uniform(rv(fp))
             /\ across(fp) <=> Alike(lv(fp), rv(fp))
  <2>1. PICK i \in 1..n : fp \in DOMAIN reruns[i].dgs
    BY <1>3 DEF Paths
  <2> HIDE DEF L, R
  <2>2. Left(L, fp) # {} \/ Left(R, fp) # {}
    <3>1. i \in L \/ i \in R
      BY <1>1, <2>1
    <3>2. i \in Left(L, fp) \/ i \in Left(R, fp)
      BY <2>1, <3>1
    <3> QED BY <3>2
  <2>3. /\ Seen(reruns, fp, FALSE) <=> Left(L, fp) # {}
        /\ Seen(reruns, fp, TRUE) <=> Left(R, fp) # {}
    BY DEF Seen, L, R
  <2>4. asked(fp) => exAsked
    BY <2>3
  <2>5. asked(fp) <=> Shown(lv(fp), rv(fp), numLocal, numRemote)
    BY <2>3 DEF Shown
  <2>6. AgreeOn(reruns, fp, L \cup R, L \cup R) <=> onL(fp) /\ onR(fp) /\ across(fp)
    BY Zenon DEF AgreeOn
  <2>7. onL(fp) <=> Uniform(lv(fp))
    BY DEF AgreeOn, Uniform
  <2>8. onR(fp) <=> Uniform(rv(fp))
    BY DEF AgreeOn, Uniform
  <2>9. across(fp) <=> Alike(lv(fp), rv(fp))
    BY DEF AgreeOn, Alike
  <2>10. (some(fp) => L # {}) /\ (some(fp) <=> DOMAIN lv(fp) # {})
    BY <2>3
  <2> QED BY <2>2, <2>4, <2>5, <2>6, <2>7, <2>8, <2>9, <2>10
<1>4. /\ AgreeInExit(reruns, L \cup R, L \cup R) <=> exL /\ exR /\ exAcross
      /\ exL <=> Uniform(le)
      /\ exR <=> Uniform(re)
      /\ exAcross <=> Alike(le, re)
      /\ exAsked <=> Shown(le, re, numLocal, numRemote)
  <2> HIDE DEF L, R
  <2>1. AgreeInExit(reruns, L \cup R, L \cup R) <=> exL /\ exR /\ exAcross
    BY Zenon DEF AgreeInExit
  <2>2. (exL <=> Uniform(le)) /\ (exR <=> Uniform(re)) /\ (exAcross <=> Alike(le, re))
    BY DEF AgreeInExit, Uniform, Alike
  <2>3. exAsked <=> Shown(le, re, numLocal, numRemote)
    BY DEF Shown
  <2> QED BY <2>1, <2>2, <2>3
<1>5. ASSUME NEW fp \in Paths(reruns)
      PROVE  Says(dg(fp), asked(fp), some(fp), onL(fp), onR(fp), across(fp), enough)
  <2> DEFINE x == lv(fp)
             y == rv(fp)
  <2>1. AreReruns(n, x, y, numLocal, numRemote)
    <3> HIDE DEF L, R
    <3>1. Left(L, fp) \subseteq L /\ Left(R, fp) \subseteq R /\ DOMAIN x = Left(L, fp) /\ DOMAIN y = Left(R, fp)
      OBVIOUS
    <3>2. (L # {} => numLocal > 0) /\ (R # {} => numRemote > 0)
      BY DEF L, R
    <3> HIDE DEF x, y, Left
    <3> QED BY <1>1, <1>3, <1>5, <3>1, <3>2 DEF AreReruns
  <2>2. /\ asked(fp) <=> Shown(x, y, numLocal, numRemote)
        /\ some(fp) <=> DOMAIN x # {}
        /\ onL(fp) <=> Uniform(x)
        /\ onR(fp) <=> Uniform(y)
        /\ across(fp) <=> Alike(x, y)
    BY <1>3, <1>5
  <2> HIDE DEF x, y
  <2>3. Says(Compare(Dedup(x, n), Dedup(y, n), numLocal, numRemote),
             Shown(x, y, numLocal, numRemote), DOMAIN x # {}, Uniform(x), Uniform(y), Alike(x, y), enough)
    <3> HIDE DEF n
    <3> QED BY <2>1, CompareSays, Zenon
  <2>4. Says(dg(fp), Shown(x, y, numLocal, numRemote), DOMAIN x # {}, Uniform(x), Uniform(y), Alike(x, y), enough)
    BY <2>3 DEF x, y
  <2> HIDE DEF asked, some, onL, onR, across, dg, enough
  <2> QED BY <2>2, <2>4 DEF Says
<1>6. ASSUME NEW fp \in Paths(reruns) PROVE Says(ec, exAsked, L # {}, exL, exR, exAcross, enough)
  <2> HIDE DEF L, R
  <2>1. L # {} \/ R # {}
    <3>1. PICK i \in 1..n : fp \in DOMAIN reruns[i].dgs
      BY <1>6 DEF Paths
    <3> QED BY <1>1
  <2>2. AreReruns(n, le, re, numLocal, numRemote)
    <3>1. (L # {} => numLocal > 0) /\ (R # {} => numRemote > 0)
      BY DEF L, R
    <3> QED BY <1>1, <2>1, <3>1 DEF AreReruns
  <2>4. DOMAIN le = L
    OBVIOUS
  <2> HIDE DEF le, re, n
  <2>3. Says(ec, Shown(le, re, numLocal, numRemote), DOMAIN le # {}, Uniform(le), Uniform(re), Alike(le, re), enough)
    BY <2>2, CompareSays, Zenon
  <2> HIDE DEF ec, exL, exR, exAcross, exAsked, enough
  <2> QED BY <1>4, <2>3, <2>4 DEF Says
<1> DEFINE agree(fp) == /\ asked(fp) /\ AgreeOn(reruns, fp, L \cup R, L \cup R)
                        /\ AgreeInExit(reruns, L \cup R, L \cup R)
           selfL(fp) == onL(fp) /\ exL
           selfR(fp) == onR(fp) /\ exR
           mixed(fp) == (onL(fp) /\ ~onR(fp) /\ ~exL) \/ (exL /\ ~exR /\ ~onL(fp))
           Fits(fp, status) ==
             \/ status = "DETERMINISTIC" /\ selfL(fp) /\ selfR(fp) /\ asked(fp) /\ numLocal + numRemote > 2
             \/ /\ status = "NON_DETERMINISTIC"
                /\ ~selfL(fp) \/ (~selfR(fp) /\ ~some(fp))
             \/ /\ status = "REMOTE_NON_DETERMINISTIC"
                /\ (selfL(fp) /\ ~selfR(fp)) \/ mixed(fp)
             \/ status = "UNKNOWN" /\ (~asked(fp) \/ numLocal + numRemote <= 2)
           Sound(fp) == Fits(fp, Combine(dg(fp).status, ec.status))
<1>7. ASSUME NEW fp \in Paths(reruns) PROVE (dg(fp).log \/ ec.log) <=> ~agree(fp)
  <2>1. /\ asked(fp) => exAsked
        /\ AgreeOn(reruns, fp, L \cup R, L \cup R) <=> onL(fp) /\ onR(fp) /\ across(fp)
    BY <1>3, <1>7
  <2>2. /\ dg(fp).log <=> ~(asked(fp) /\ onL(fp) /\ onR(fp) /\ across(fp))
        /\ ec.log <=> ~(exAsked /\ exL /\ exR /\ exAcross)
    BY <1>5, <1>6, <1>7 DEF Says
  <2> HIDE DEF asked, onL, onR, across, exL, exR, exAcross, exAsked, dg, ec, L, R
  <2> QED BY <1>4, <2>1, <2>2
<1>8. ASSUME NEW fp \in Paths(reruns), dg(fp).log \/ ec.log PROVE Sound(fp)
  <2>1. (asked(fp) => exAsked) /\ (some(fp) => L # {})
    BY <1>3, <1>8
  <2>2. /\ Says(dg(fp), asked(fp), some(fp), onL(fp), onR(fp), across(fp), enough)
        /\ Says(ec, exAsked, L # {}, exL, exR, exAcross, enough)
    BY <1>5, <1>6, <1>8
  <2>3. enough <=> ~(numLocal + numRemote <= 2)
    OBVIOUS
  <2> HIDE DEF asked, some, onL, onR, across, exL, exR, exAcross, exAsked, dg, ec, enough, L
  <2> QED BY <1>8, <2>1, <2>2, <2>3 DEF Says, Combine, enough
<1>9. /\ DOMAIN result = {fp \in Paths(reruns) : ~agree(fp)}
      /\ \A fp \in DOMAIN result : result[fp].status = Combine(dg(fp).status, ec.status) /\ Sound(fp)
  <2> HIDE DEF dg, ec, agree, Sound
  <2> QED BY <1>2, <1>7, <1>8
<1> QED
  <2>1. \A fp \in DOMAIN result : Fits(fp, result[fp].status)
    <3> HIDE DEF result, Fits, dg, ec
    <3> QED BY <1>9
  <2> QED BY <1>9, <2>1 DEF VerdictFollows

-----------------------------------------------------------------------------
(* The values of a sequence are finitely many.                             *)
LEMMA ValuesAreFinite ==
  ASSUME NEW n \in Nat, NEW f, DOMAIN f = 1..n, f = [i \in 1..n |-> f[i]]
  PROVE  IsFiniteSet({f[i] : i \in 1..n})
<1> DEFINE T == {f[i] : i \in 1..n}
<1>1. IsFiniteSet(1..n)
  BY FS_Interval
<1>2. f \in Surjection(1..n, T)
  <2>1. f \in [1..n -> T]
    OBVIOUS
  <2>2. \A x \in T : \E i \in 1..n : f[i] = x
    OBVIOUS
  <2> QED BY <2>1, <2>2 DEF Surjection
<1> HIDE DEF T
<1>3. IsFiniteSet(T)
  BY <1>1, <1>2, FS_Surjection
<1> QED BY <1>3 DEF T

(* The outputs of all reruns are finitely many.                            *)
LEMMA PathsAreFinite ==
  ASSUME NEW S, NEW reruns \in Seq(S), \A r \in S : IsRerun(r)
  PROVE  IsFiniteSet(Paths(reruns))
<1> DEFINE f == [i \in 1..Len(reruns) |-> DOMAIN reruns[i].dgs]
           T == {f[i] : i \in 1..Len(reruns)}
<1>1. IsFiniteSet(T)
  <2>1. Len(reruns) \in Nat
    OBVIOUS
  <2> QED BY <2>1, ValuesAreFinite
<1>2. \A x \in T : IsFiniteSet(x)
  <2>1. \A i \in 1..Len(reruns) : reruns[i] \in S
    OBVIOUS
  <2> QED BY <2>1 DEF IsRerun
<1>3. Paths(reruns) = UNION T
  BY DEF Paths
<1> HIDE DEF T
<1> QED BY <1>1, <1>2, <1>3, FS_UNION

(* ProcessLogRecord: the rules drop what they name and nothing else.       *)
LEMMA RulesDropWhatTheyName ==
  ASSUME NEW S, NEW reruns \in Seq(S), \A r \in S : IsRerun(r),
         NEW numLocal \in Nat, NEW numRemote \in Nat, NEW rules \in Seq(Rule)
  PROVE  IgnoredByRuleOnly(reruns, numLocal, numRemote, rules)
<1> DEFINE result == CompareAction(reruns, numLocal, numRemote)
           D == DOMAIN result
           used == NewIgnorer(rules)
           ignored == {fp \in D : ShouldIgnore(used, fp)}
           n == Len(rules)
           usable == {rules[i] : i \in {j \in 1..n : rules[j].kind # "bad"}}
           named(rule) == IF rule.inverted THEN Paths(reruns) \ rule.matches ELSE rule.matches
           record == ProcessLogRecord(result, rules)
<1>1. D \subseteq Paths(reruns)
  BY DEF CompareAction
<1>2. /\ record.left = D \ ignored /\ record.ignored = Cardinality(ignored)
      /\ record.total = Cardinality(D)
  BY DEF ProcessLogRecord
<1>3. n \in Nat /\ \A i \in 1..n : rules[i] \in Rule
  OBVIOUS
<1> HIDE DEF result, record, D, ignored
<1>4. Cardinality(record.left) + record.ignored = record.total
  <2>1. IsFiniteSet(D)
    BY <1>1, PathsAreFinite, FS_Subset
  <2>2. ignored \subseteq D
    BY DEF ignored
  <2>3. IsFiniteSet(ignored) /\ Cardinality(ignored) \in Nat /\ Cardinality(D) \in Nat
    BY <2>1, <2>2, FS_Subset, FS_CardinalityType
  <2>4. Cardinality(D \ ignored) = Cardinality(D) - Cardinality(D \cap ignored)
    BY <2>1, FS_Difference
  <2>5. D \cap ignored = ignored
    BY <2>2
  <2> DEFINE all == Cardinality(D)  out == Cardinality(ignored)  kept == Cardinality(D \ ignored)
  <2>6. all \in Nat /\ out \in Nat /\ kept = all - out
    BY <2>3, <2>4, <2>5
  <2>7. record.left = D \ ignored /\ record.ignored = out /\ record.total = all
    BY <1>2
  <2>8. Cardinality(record.left) = kept
    BY <2>7
  <2> HIDE DEF all, out, kept
  <2>9. kept + out = all
    BY <2>6
  <2> QED BY <2>7, <2>8, <2>9
<1>5. ASSUME NEW fp \in ignored PROVE \E rule \in usable : fp \in named(rule)
  <2>1. fp \in D /\ ShouldIgnore(used, fp)
    BY <1>5 DEF ignored
  <2>2. PICK i \in 1..Len(used) : RuleIgnores(used[i], fp)
    BY <2>1 DEF ShouldIgnore
  <2>3. used = rules
    BY <2>2 DEF NewIgnorer
  <2>4. i \in 1..n /\ rules[i] \in Rule /\ rules[i].kind = "path" /\ rules[i].inverted # (fp \in rules[i].matches)
    BY <1>3, <2>2, <2>3 DEF RuleIgnores
  <2>5. rules[i] \in usable
    BY <2>4
  <2>6. rules[i].inverted \in BOOLEAN
    BY <2>4 DEF Rule
  <2>7. fp \in named(rules[i])
    BY <1>1, <2>1, <2>4, <2>6
  <2> QED BY <2>5, <2>7
<1>6. D \ UNION {named(rule) : rule \in usable} \subseteq record.left
  <2> HIDE DEF usable, named
  <2> QED BY <1>2, <1>5
<1>7. (\E rule \in usable : rule.kind = "unknown") => record.ignored = 0
  <2> SUFFICES ASSUME NEW rule \in usable, rule.kind = "unknown" PROVE record.ignored = 0
    OBVIOUS
  <2>1. \E i \in 1..n : rules[i].kind = "unknown"
    OBVIOUS
  <2>2. used = <<>>
    BY <2>1 DEF NewIgnorer
  <2>3. ignored = {}
    BY <2>2 DEF ignored, ShouldIgnore
  <2> QED BY <1>2, <2>3, FS_EmptySet
<1>8. (\A rule \in usable : rule.kind # "unknown") =>
        record.left \cap UNION {named(rule) : rule \in usable} = {}
  <2> SUFFICES ASSUME \A rule \in usable : rule.kind # "unknown",
                      NEW fp \in D \ ignored, NEW rule \in usable, fp \in named(rule)
               PROVE  FALSE
    BY <1>2
  <2>1. PICK i \in 1..n : rule = rules[i] /\ rules[i].kind # "bad"
    OBVIOUS
  <2>2. rule \in Rule /\ rule.kind = "path" /\ rule.inverted \in BOOLEAN
    BY <1>3, <2>1 DEF Rule
  <2>3. used = rules
    <3>1. ASSUME NEW j \in 1..n PROVE rules[j].kind # "unknown"
      BY <3>1
    <3> QED BY <3>1 DEF NewIgnorer
  <2>4. RuleIgnores(rule, fp)
    BY <2>2 DEF RuleIgnores
  <2>5. ShouldIgnore(used, fp)
    BY <2>1, <2>3, <2>4 DEF ShouldIgnore
  <2> QED BY <2>5 DEF ignored
<1> QED BY <1>4, <1>6, <1>7, <1>8, Zenon DEF IgnoredByRuleOnly, result, record, D

(* Compare mode: the verdict on an action is what its reruns say, for any  *)
(* number of them, any outputs and exit codes, also if fewer came back     *)
(* than were asked for, and whatever the rules are they drop from it what  *)
(* they name and nothing else.                                             *)
THEOREM VerdictIsSound ==
  ASSUME NEW S, NEW reruns \in Seq(S), \A r \in S : IsRerun(r),
         NEW numLocal \in Nat, NEW numRemote \in Nat,
         Side(reruns, FALSE) # {} => numLocal > 0, Side(reruns, TRUE) # {} => numRemote > 0
  PROVE  /\ VerdictFollows(reruns, numLocal, numRemote)
         /\ \A rules \in Seq(Rule) : IgnoredByRuleOnly(reruns, numLocal, numRemote, rules)
BY VerdictOfReruns, RulesDropWhatTheyName

-----------------------------------------------------------------------------
(* The response to rewrapper                                               *)

(* A field that is cut takes fewer bytes, and its varint up to 3 fewer.    *)
LEMMA SizedShrinks ==
  ASSUME NEW m \in Nat, NEW n \in Nat, 1024 <= m, m <= n
  PROVE  /\ O!Sized(m) \in Nat /\ O!Sized(n) \in Nat /\ O!Sized(m) >= 1024
         /\ n - m <= O!Sized(n) - O!Sized(m) /\ O!Sized(n) - O!Sized(m) <= n - m + 3
BY DEF O!Sized, O!VarintSize

ResultSized(n) == 1 + O!VarintSize(O!Sized(n) + 2) + O!Sized(n) + 2
(* The message is a field in a field: up to 6 fewer.                       *)
LEMMA ResultShrinks ==
  ASSUME NEW m \in Nat, NEW n \in Nat, 1024 <= m, m <= n
  PROVE  /\ ResultSized(m) \in Nat /\ ResultSized(n) \in Nat
         /\ n - m <= ResultSized(n) - ResultSized(m) /\ ResultSized(n) - ResultSized(m) <= n - m + 6
<1> DEFINE x == O!Sized(m)  y == O!Sized(n)
<1>1. x \in Nat /\ y \in Nat /\ x >= 1024 /\ n - m <= y - x /\ y - x <= n - m + 3
  BY SizedShrinks
<1> HIDE DEF x, y
<1>2. \A k \in Nat : O!VarintSize(k) \in 1..5 /\ (k >= 1024 => O!VarintSize(k) >= 2)
  BY DEF O!VarintSize
<1>3. O!VarintSize(x + 2) \in 2..5 /\ O!VarintSize(y + 2) \in 2..5 /\ O!VarintSize(x + 2) <= O!VarintSize(y + 2)
  BY <1>1 DEF O!VarintSize
<1>4. ResultSized(m) = 1 + O!VarintSize(x + 2) + x + 2 /\ ResultSized(n) = 1 + O!VarintSize(y + 2) + y + 2
  BY DEF ResultSized, x, y
<1> DEFINE a == O!VarintSize(x + 2)  b == O!VarintSize(y + 2)
<1>5. a \in 2..5 /\ b \in 2..5 /\ a <= b /\ ResultSized(m) = 1 + a + x + 2 /\ ResultSized(n) = 1 + b + y + 2
  BY <1>3, <1>4
<1> HIDE DEF a, b
<1> QED BY <1>1, <1>5

(* Sizes are natural numbers.                                              *)
LEMMA SizedType ==
  ASSUME NEW n \in Nat PROVE O!Sized(n) \in Nat /\ ResultSized(n) \in Nat
<1>1. \A k \in Nat : O!VarintSize(k) \in 1..5
  BY DEF O!VarintSize
<1>2. O!Sized(n) \in Nat
  BY <1>1 DEF O!Sized
<1> QED BY <1>1, <1>2 DEF ResultSized

(* A field takes its length and more.                                      *)
LEMMA SizedGrows ==
  ASSUME NEW n \in Nat PROVE n <= O!Sized(n) /\ n <= ResultSized(n)
<1>1. \A k \in Nat : O!VarintSize(k) \in 1..5
  BY DEF O!VarintSize
<1>2. O!Sized(n) \in Nat /\ n <= O!Sized(n)
  BY <1>1 DEF O!Sized
<1> QED BY <1>1, <1>2 DEF ResultSized

(* TruncateField: the sum that decides how much of a field is left.  Of    *)
(* size bytes the field takes old and rest are others; when it is m bytes  *)
(* long instead of len it takes new, which varints make smaller by up to 6 *)
(* bytes more.                                                             *)
CutTo(len, m, tail, max, min, size) ==
  /\ tail \in Nat /\ m \in Nat /\ m >= 1024 /\ m <= len /\ tail <= len
  /\ m = min \/ m = max - (size - len)
  /\ m >= max - (size - len)
(* What is left of a field is its part of the limit, or the least length.  *)
LEMMA CutLength ==
  ASSUME NEW size \in Nat, NEW len \in Nat, NEW max \in Nat, NEW prefix \in Nat,
         NEW min, min = O!MinFieldLen(prefix), NEW tail, tail = O!GetTruncFieldLen(size, len, max, min, prefix),
         NEW m, m = prefix + tail, ~(size <= max), ~(len <= min), len <= size
  PROVE  CutTo(len, m, tail, max, min, size)
BY DEF O!GetTruncFieldLen, O!MinFieldLen, CutTo
(* The response then fits unless the field has its least length, and it is *)
(* not smaller than the limit by more than what the varints save.          *)
LEMMA CutSize ==
  ASSUME NEW len \in Nat, NEW max \in Nat, NEW min \in Nat, NEW rest \in Nat, NEW old \in Nat, NEW new \in Nat,
         NEW m, NEW tail, CutTo(len, m, tail, max, min, old + rest),
         len - m <= old - new, old - new <= len - m + 6
  PROVE  (new + rest <= max \/ m <= min) /\ new + rest + 6 >= max
BY DEF CutTo

Cut(s, c, f, max, prefix) ==
  /\ c \in Response
  /\ f # "stderr" => c.stderr = s.stderr
  /\ f # "stdout" => c.stdout = s.stdout
  /\ f # "msg" => c.msg = s.msg
  /\ c.result = s.result
  /\ O!Size(s) <= max => c = s
  /\ O!Size(s) > max => O!Size(c) <= max \/ O!Length(c[f]) <= O!MinFieldLen(prefix)
  /\ O!Length(c[f]) <= O!Length(s[f])
  /\ c # s => c[f].tail <= O!Length(s[f]) /\ O!Size(c) + 6 >= max
CutField(s, f, max, prefix) == IF O!Size(s) <= max THEN s ELSE O!TruncateField(s, f, max, prefix)

(* The size of a response is that of its fields.                           *)
LEMMA SizeOf ==
  ASSUME NEW s \in Response
  PROVE  /\ O!Length(s.stderr) \in Nat /\ O!Length(s.stdout) \in Nat /\ O!Length(s.msg) \in Nat
         /\ O!Size(s) = O!Sized(O!Length(s.stderr)) + O!Sized(O!Length(s.stdout))
                        + (IF s.result THEN ResultSized(O!Length(s.msg)) ELSE 0) + s.rest
         /\ O!Size(s) \in Nat
<1>1. O!Length(s.stderr) \in Nat /\ O!Length(s.stdout) \in Nat /\ O!Length(s.msg) \in Nat /\ s.rest \in Nat
  BY DEF Response, Field, O!Length
<1> DEFINE x == O!Length(s.stderr)  y == O!Length(s.stdout)  z == O!Length(s.msg)
<1> HIDE DEF x, y, z
<1>2. O!Sized(x) \in Nat /\ O!Sized(y) \in Nat /\ O!Sized(z) \in Nat /\ ResultSized(z) \in Nat
  BY <1>1, SizedType DEF x, y, z
<1>3. O!ResultSize(s) = ResultSized(z)
  <2> DEFINE k == O!Sized(z)  w == O!VarintSize(k + 2)
  <2>1. O!ResultSize(s) = 1 + w + (k + 2) /\ ResultSized(z) = 1 + w + k + 2
    BY DEF O!ResultSize, ResultSized, z
  <2>2. k \in Nat /\ w \in Nat
    BY <1>2 DEF O!VarintSize
  <2> HIDE DEF k, w
  <2> QED BY <2>1, <2>2
<1>4. O!Size(s) = O!Sized(x) + O!Sized(y) + (IF s.result THEN ResultSized(z) ELSE 0) + s.rest
  BY <1>3 DEF O!Size, x, y
<1>5. O!Size(s) \in Nat
  BY <1>1, <1>2, <1>4
<1> QED BY <1>1, <1>4, <1>5 DEF x, y, z

(* truncateResponse on stderr.                                             *)
LEMMA StderrIsCut ==
  ASSUME NEW s \in Response, NEW max \in Nat, NEW prefix \in Nat
  PROVE  Cut(s, CutField(s, "stderr", max, prefix), "stderr", max, prefix)
<1> DEFINE c == CutField(s, "stderr", max, prefix)
           len == O!Length(s.stderr)
           size == O!Size(s)
           min == O!MinFieldLen(prefix)
           tail == O!GetTruncFieldLen(size, len, max, min, prefix)
           m == prefix + tail
           old == O!Sized(len)
           new == O!Sized(m)
           rest == O!Sized(O!Length(s.stdout)) + (IF s.result THEN ResultSized(O!Length(s.msg)) ELSE 0) + s.rest
<1>1. len \in Nat /\ size \in Nat /\ min \in Nat /\ rest \in Nat /\ size = old + rest /\ min >= 1024
  BY SizeOf, SizedType DEF Response, O!MinFieldLen
<1>2. CASE size <= max \/ len <= min
  <2>1. c = s
    BY <1>2 DEF CutField, O!TruncateField
  <2>2. Cut(s, s, "stderr", max, prefix)
    BY <1>1, <1>2 DEF Cut
  <2> HIDE DEF c
  <2>3. Cut(s, c, "stderr", max, prefix)
    BY <2>1, <2>2
  <2> QED BY <2>3 DEF c
<1>3. CASE ~(size <= max) /\ ~(len <= min)
  <2>1. c = [s EXCEPT !.stderr = [pre |-> prefix, tail |-> tail]]
    BY <1>3 DEF CutField, O!TruncateField
  <2>2. len <= old
    BY <1>1, <1>3, SizedGrows
  <2>3. CutTo(len, m, tail, max, min, size)
    <3> HIDE DEF len, size, min, tail, m, old, rest
    <3>1. len <= size /\ old \in Int
      BY <1>1, <2>2, SizedType DEF old
    <3> QED BY <1>1, <1>3, <3>1, CutLength DEF min, tail, m
  <2>4. tail \in Nat /\ m \in Nat /\ m >= 1024 /\ m <= len /\ tail <= len
    BY <2>3 DEF CutTo
  <2>5. /\ c \in Response /\ O!Length(c.stderr) = m /\ c.result = s.result /\ c.rest = s.rest
        /\ c.stderr.tail = tail /\ c.stdout = s.stdout /\ c.msg = s.msg
    <3> HIDE DEF c, len, size, min, tail, m
    <3>1. [pre |-> prefix, tail |-> tail] \in Field
      BY <2>4 DEF Field
    <3>2. c \in Response
      BY <2>1, <3>1 DEF Response
    <3>3. c.stderr = [pre |-> prefix, tail |-> tail]
      BY <2>1 DEF Response
    <3>4. c.stderr.tail = tail /\ O!Length(c.stderr) = m
      BY <3>3 DEF O!Length, m
    <3> QED BY <2>1, <3>2, <3>4 DEF Response
  <2> HIDE DEF c
  <2>6. O!Size(c) = new + rest
    <3>1. O!Size(c) = O!Sized(O!Length(c.stderr)) + O!Sized(O!Length(c.stdout))
                        + (IF c.result THEN ResultSized(O!Length(c.msg)) ELSE 0) + c.rest
      BY <2>5, SizeOf
    <3> QED BY <2>4, <2>5, <3>1, SizeOf, SizedType DEF Response
  <2>7. old \in Nat /\ new \in Nat /\ len - m <= old - new /\ old - new <= len - m + 6
    BY <1>1, <2>4, SizedShrinks, ResultShrinks
  <2> HIDE DEF len, size, min, tail, m, old, new, rest
  <2>8. (new + rest <= max \/ m <= min) /\ new + rest + 6 >= max
    BY <1>1, <2>3, <2>7, CutSize
  <2>9. Cut(s, c, "stderr", max, prefix)
    BY <1>3, <2>4, <2>5, <2>6, <2>8 DEF Cut, len, size, min
  <2> QED BY <2>9 DEF c
<1> QED BY <1>2, <1>3

(* truncateResponse on stdout.                                             *)
LEMMA StdoutIsCut ==
  ASSUME NEW s \in Response, NEW max \in Nat, NEW prefix \in Nat
  PROVE  Cut(s, CutField(s, "stdout", max, prefix), "stdout", max, prefix)
<1> DEFINE c == CutField(s, "stdout", max, prefix)
           len == O!Length(s.stdout)
           size == O!Size(s)
           min == O!MinFieldLen(prefix)
           tail == O!GetTruncFieldLen(size, len, max, min, prefix)
           m == prefix + tail
           old == O!Sized(len)
           new == O!Sized(m)
           rest == O!Sized(O!Length(s.stderr)) + (IF s.result THEN ResultSized(O!Length(s.msg)) ELSE 0) + s.rest
<1>1. len \in Nat /\ size \in Nat /\ min \in Nat /\ rest \in Nat /\ size = old + rest /\ min >= 1024
  BY SizeOf, SizedType DEF Response, O!MinFieldLen
<1>2. CASE size <= max \/ len <= min
  <2>1. c = s
    BY <1>2 DEF CutField, O!TruncateField
  <2>2. Cut(s, s, "stdout", max, prefix)
    BY <1>1, <1>2 DEF Cut
  <2> HIDE DEF c
  <2>3. Cut(s, c, "stdout", max, prefix)
    BY <2>1, <2>2
  <2> QED BY <2>3 DEF c
<1>3. CASE ~(size <= max) /\ ~(len <= min)
  <2>1. c = [s EXCEPT !.stdout = [pre |-> prefix, tail |-> tail]]
    BY <1>3 DEF CutField, O!TruncateField
  <2>2. len <= old
    BY <1>1, <1>3, SizedGrows
  <2>3. CutTo(len, m, tail, max, min, size)
    <3> HIDE DEF len, size, min, tail, m, old, rest
    <3>1. len <= size /\ old \in Int
      BY <1>1, <2>2, SizedType DEF old
    <3> QED BY <1>1, <1>3, <3>1, CutLength DEF min, tail, m
  <2>4. tail \in Nat /\ m \in Nat /\ m >= 1024 /\ m <= len /\ tail <= len
    BY <2>3 DEF CutTo
  <2>5. /\ c \in Response /\ O!Length(c.stdout) = m /\ c.result = s.result /\ c.rest = s.rest
        /\ c.stdout.tail = tail /\ c.stderr = s.stderr /\ c.msg = s.msg
    <3> HIDE DEF c, len, size, min, tail, m
    <3>1. [pre |-> prefix, tail |-> tail] \in Field
      BY <2>4 DEF Field
    <3>2. c \in Response
      BY <2>1, <3>1 DEF Response
    <3>3. c.stdout = [pre |-> prefix, tail |-> tail]
      BY <2>1 DEF Response
    <3>4. c.stdout.tail = tail /\ O!Length(c.stdout) = m
      BY <3>3 DEF O!Length, m
    <3> QED BY <2>1, <3>2, <3>4 DEF Response
  <2> HIDE DEF c
  <2>6. O!Size(c) = new + rest
    <3>1. O!Size(c) = O!Sized(O!Length(c.stderr)) + O!Sized(O!Length(c.stdout))
                        + (IF c.result THEN ResultSized(O!Length(c.msg)) ELSE 0) + c.rest
      BY <2>5, SizeOf
    <3> QED BY <2>4, <2>5, <3>1, SizeOf, SizedType DEF Response
  <2>7. old \in Nat /\ new \in Nat /\ len - m <= old - new /\ old - new <= len - m + 6
    BY <1>1, <2>4, SizedShrinks, ResultShrinks
  <2> HIDE DEF len, size, min, tail, m, old, new, rest
  <2>8. (new + rest <= max \/ m <= min) /\ new + rest + 6 >= max
    BY <1>1, <2>3, <2>7, CutSize
  <2>9. Cut(s, c, "stdout", max, prefix)
    BY <1>3, <2>4, <2>5, <2>6, <2>8 DEF Cut, len, size, min
  <2> QED BY <2>9 DEF c
<1> QED BY <1>2, <1>3

(* truncateResponse on the message of the result.                          *)
LEMMA MsgIsCut ==
  ASSUME NEW s \in Response, NEW max \in Nat, NEW prefix \in Nat, s.result
  PROVE  Cut(s, CutField(s, "msg", max, prefix), "msg", max, prefix)
<1> DEFINE c == CutField(s, "msg", max, prefix)
           len == O!Length(s.msg)
           size == O!Size(s)
           min == O!MinFieldLen(prefix)
           tail == O!GetTruncFieldLen(size, len, max, min, prefix)
           m == prefix + tail
           old == ResultSized(len)
           new == ResultSized(m)
           rest == O!Sized(O!Length(s.stderr)) + O!Sized(O!Length(s.stdout)) + s.rest
<1>1. len \in Nat /\ size \in Nat /\ min \in Nat /\ rest \in Nat /\ size = old + rest /\ min >= 1024
  BY SizeOf, SizedType DEF Response, O!MinFieldLen
<1>2. CASE size <= max \/ len <= min
  <2>1. c = s
    BY <1>2 DEF CutField, O!TruncateField
  <2>2. Cut(s, s, "msg", max, prefix)
    BY <1>1, <1>2 DEF Cut
  <2> HIDE DEF c
  <2>3. Cut(s, c, "msg", max, prefix)
    BY <2>1, <2>2
  <2> QED BY <2>3 DEF c
<1>3. CASE ~(size <= max) /\ ~(len <= min)
  <2>1. c = [s EXCEPT !.msg = [pre |-> prefix, tail |-> tail]]
    BY <1>3 DEF CutField, O!TruncateField
  <2>2. len <= old
    BY <1>1, <1>3, SizedGrows
  <2>3. CutTo(len, m, tail, max, min, size)
    <3> HIDE DEF len, size, min, tail, m, old, rest
    <3>1. len <= size /\ old \in Int
      BY <1>1, <2>2, SizedType DEF old
    <3> QED BY <1>1, <1>3, <3>1, CutLength DEF min, tail, m
  <2>4. tail \in Nat /\ m \in Nat /\ m >= 1024 /\ m <= len /\ tail <= len
    BY <2>3 DEF CutTo
  <2>5. /\ c \in Response /\ O!Length(c.msg) = m /\ c.result = s.result /\ c.rest = s.rest
        /\ c.msg.tail = tail /\ c.stderr = s.stderr /\ c.stdout = s.stdout
    <3> HIDE DEF c, len, size, min, tail, m
    <3>1. [pre |-> prefix, tail |-> tail] \in Field
      BY <2>4 DEF Field
    <3>2. c \in Response
      BY <2>1, <3>1 DEF Response
    <3>3. c.msg = [pre |-> prefix, tail |-> tail]
      BY <2>1 DEF Response
    <3>4. c.msg.tail = tail /\ O!Length(c.msg) = m
      BY <3>3 DEF O!Length, m
    <3> QED BY <2>1, <3>2, <3>4 DEF Response
  <2> HIDE DEF c
  <2>6. O!Size(c) = new + rest
    <3>1. O!Size(c) = O!Sized(O!Length(c.stderr)) + O!Sized(O!Length(c.stdout))
                        + (IF c.result THEN ResultSized(O!Length(c.msg)) ELSE 0) + c.rest
      BY <2>5, SizeOf
    <3> QED BY <2>4, <2>5, <3>1, SizeOf, SizedType DEF Response
  <2>7. old \in Nat /\ new \in Nat /\ len - m <= old - new /\ old - new <= len - m + 6
    BY <1>1, <2>4, SizedShrinks, ResultShrinks
  <2> HIDE DEF len, size, min, tail, m, old, new, rest
  <2>8. (new + rest <= max \/ m <= min) /\ new + rest + 6 >= max
    BY <1>1, <2>3, <2>7, CutSize
  <2>9. Cut(s, c, "msg", max, prefix)
    BY <1>3, <2>4, <2>5, <2>6, <2>8 DEF Cut, len, size, min
  <2> QED BY <2>9 DEF c
<1> QED BY <1>2, <1>3


(* truncateResponse: whatever the lengths of its streams and its message   *)
(* and the limit are, a response that fits is not touched, and one that    *)
(* does not is cut from the front of its fields until it fits or nothing is*)
(* left to cut, and never by more than it has to be.                       *)
THEOREM ResponseFitsAlways ==
  ASSUME NEW r \in Response, NEW max \in Nat, NEW prefix \in Nat,
         r.stderr.pre = 0, r.stdout.pre = 0, r.msg.pre = 0
  PROVE  O!ResponseFits(r, max, prefix)
<1> DEFINE a == CutField(r, "stderr", max, prefix)
           b == CutField(a, "stdout", max, prefix)
           s == IF r.result THEN CutField(b, "msg", max, prefix) ELSE b
           min == O!MinFieldLen(prefix)
<1>1. O!TruncateResponse(r, max, prefix) = s
  BY DEF O!TruncateResponse, CutField
<1>2. Cut(r, a, "stderr", max, prefix)
  BY StderrIsCut
<1> HIDE DEF a
<1>3. a \in Response /\ a.result = r.result
  BY <1>2 DEF Cut
<1>4. Cut(a, b, "stdout", max, prefix)
  BY <1>3, StdoutIsCut
<1> HIDE DEF b
<1>5. b \in Response /\ b.result = r.result
  BY <1>3, <1>4 DEF Cut
<1>6. IF r.result THEN Cut(b, s, "msg", max, prefix) ELSE s = b
  BY <1>5, MsgIsCut
<1> HIDE DEF s
<1>7. s \in Response
  BY <1>5, <1>6 DEF Cut
<1>8. O!Size(r) <= max => s = r
  BY <1>2, <1>4, <1>6 DEF Cut
<1>9. /\ O!Length(r.stderr) = r.stderr.tail /\ O!Length(r.stdout) = r.stdout.tail
      /\ O!Length(r.msg) = r.msg.tail
  BY DEF O!Length, Response, Field
<1>10. /\ s.stderr = a.stderr /\ a.stdout = r.stdout /\ s.stdout = b.stdout
       /\ a.msg = r.msg /\ b.msg = r.msg
  BY <1>2, <1>4, <1>6 DEF Cut
<1>11. /\ a.stderr = r.stderr \/ a.stderr.tail <= r.stderr.tail
       /\ b.stdout = r.stdout \/ b.stdout.tail <= r.stdout.tail
       /\ r.result => s.msg = r.msg \/ s.msg.tail <= r.msg.tail
       /\ O!Length(a.stderr) <= O!Length(r.stderr) /\ O!Length(b.stdout) <= O!Length(r.stdout)
       /\ r.result => O!Length(s.msg) <= O!Length(r.msg)
  <2>1. (a = r \/ a.stderr.tail <= O!Length(r.stderr)) /\ O!Length(a.stderr) <= O!Length(r.stderr)
    BY <1>2 DEF Cut
  <2>2. (b = a \/ b.stdout.tail <= O!Length(a.stdout)) /\ O!Length(b.stdout) <= O!Length(a.stdout)
    BY <1>4 DEF Cut
  <2>3. r.result => (s = b \/ s.msg.tail <= O!Length(b.msg)) /\ O!Length(s.msg) <= O!Length(b.msg)
    BY <1>6 DEF Cut
  <2> QED BY <1>9, <1>10, <2>1, <2>2, <2>3
<1>12. s.stderr.tail >= 0 /\ s.stdout.tail >= 0 /\ s.msg.tail >= 0
  BY <1>7 DEF Response, Field
<1>13. O!Size(s) <= max \/ (/\ O!Length(s.stderr) <= min /\ O!Length(s.stdout) <= min
                            /\ r.result => O!Length(s.msg) <= min)
  <2> SUFFICES ASSUME ~(O!Size(s) <= max)
               PROVE  /\ O!Length(s.stderr) <= min /\ O!Length(s.stdout) <= min
                      /\ r.result => O!Length(s.msg) <= min
    OBVIOUS
  <2>1. ~(O!Size(b) <= max) /\ (r.result => O!Length(s.msg) <= min)
    <3>1. O!Size(b) \in Nat
      BY <1>5, SizeOf
    <3> QED BY <1>6, <3>1 DEF Cut
  <2>2. ~(O!Size(a) <= max) /\ O!Length(b.stdout) <= min
    <3>1. O!Size(a) \in Nat
      BY <1>3, SizeOf
    <3> QED BY <1>4, <2>1, <3>1 DEF Cut
  <2>3. O!Length(a.stderr) <= min
    <3>1. O!Size(r) \in Nat
      BY SizeOf
    <3> QED BY <1>2, <2>2, <3>1 DEF Cut
  <2> QED BY <1>10, <2>1, <2>2, <2>3
<1>14. s # r => O!Size(s) + 6 >= max
  BY <1>2, <1>4, <1>6 DEF Cut
<1> DEFINE fields == {"stderr", "stdout"} \cup (IF r.result THEN {"msg"} ELSE {})
           changed == {f \in fields : s[f] # r[f]}
<1>15. \A f \in changed : s[f].tail >= 0 /\ s[f].tail <= r[f].tail /\ O!Length(s[f]) <= O!Length(r[f])
  <2> SUFFICES ASSUME NEW f \in fields, s[f] # r[f]
               PROVE  s[f].tail >= 0 /\ s[f].tail <= r[f].tail /\ O!Length(s[f]) <= O!Length(r[f])
    OBVIOUS
  <2>1. CASE f = "stderr"
    BY <1>10, <1>11, <1>12, <2>1
  <2>2. CASE f = "stdout"
    BY <1>10, <1>11, <1>12, <2>2
  <2>3. CASE f = "msg" /\ r.result
    BY <1>10, <1>11, <1>12, <2>3
  <2> QED BY <2>1, <2>2, <2>3
<1>16. O!Size(s) <= max \/ \A f \in fields : O!Length(s[f]) <= min
  BY <1>13
<1>17. changed # {} => s # r
  OBVIOUS
<1> QED BY <1>1, <1>8, <1>14, <1>15, <1>16, <1>17 DEF O!ResponseFits

-----------------------------------------------------------------------------
(* Paths                                                                   *)

(* Induction over sequences, with a set in place of a predicate.           *)
LEMMA SequenceInduction ==
  ASSUME NEW S, NEW T, <<>> \in T, \A q \in Seq(S), e \in S : q \in T => Append(q, e) \in T
  PROVE  \A q \in Seq(S) : q \in T
<1> SUFFICES ASSUME NEW q \in Seq(S) PROVE q \in T
  OBVIOUS
<1> DEFINE n == Len(q)
           U == {i \in Nat : i <= n => SubSeq(q, 1, i) \in T}
<1>1. n \in Nat /\ U \in SUBSET Nat
  OBVIOUS
<1>2. 0 \in U
  BY SubSeqEmpty, SubSeq(q, 1, 0) = <<>>
<1>3. ASSUME NEW i \in 1..n, i - 1 \in U PROVE i \in U
  <2>1. SubSeq(q, 1, i - 1) \in T /\ SubSeq(q, 1, i - 1) \in Seq(S) /\ q[i] \in S
    BY <1>1, <1>3
  <2>2. SubSeq(q, 1, i) = Append(SubSeq(q, 1, i - 1), q[i])
    <3> DEFINE a == SubSeq(q, 1, i)  b == Append(SubSeq(q, 1, i - 1), q[i])
    <3>1. a \in Seq(S) /\ b \in Seq(S) /\ Len(a) = Len(b) /\ Len(a) = i
      BY <1>1, <2>1
    <3>2. \A j \in 1..i : a[j] = b[j]
      BY <1>1, <2>1
    <3> HIDE DEF a, b
    <3>3. a = b
      BY <3>1, <3>2, SeqEqual
    <3> QED BY <3>3 DEF a, b
  <2>3. Append(SubSeq(q, 1, i - 1), q[i]) \in T
    BY <2>1, Zenon
  <2>4. SubSeq(q, 1, i) \in T
    BY <2>2, <2>3, Zenon
  <2> HIDE DEF n
  <2> QED BY <1>1, <2>4
<1>4. \A i \in 0..n : i \in U
  <2> HIDE DEF U, n
  <2> QED BY <1>1, <1>2, <1>3, InductionUpTo
<1>5. SubSeq(q, 1, n) \in T
  <2>1. n \in U
    BY <1>1, <1>4
  <2> HIDE DEF n
  <2> QED BY <1>1, <2>1
<1> QED BY <1>5, SubSeqFull

(* The elements of a path become clean one by one.                         *)
LEMMA CleanElementType ==
  ASSUME NEW q \in Path, NEW e \in Element
  PROVE  P!CleanElement(q, e) \in Path
<1>1. Append(q, e) \in Path
  BY DEF Path
<1>2. q # <<>> => P!Front(q) \in Path
  BY DEF Path, P!Front
<1> QED BY <1>1, <1>2, Zenon DEF P!CleanElement

CleansTo(g, q) ==
  /\ g \in [0..Len(q) -> Path] /\ g[0] = <<>>
  /\ \A i \in 1..Len(q) : g[i] = P!CleanElement(g[i - 1], q[i])

(* Clean is a loop over the elements.                                      *)
LEMMA CleanIsALoop ==
  ASSUME NEW q \in Path
  PROVE  \E g : CleansTo(g, q) /\ P!Clean(q) = g[Len(q)]
<1> DEFINE n == Len(q)
           Rec(f) == [i \in 0..n |-> IF i = 0 THEN <<>> ELSE P!CleanElement(f[i - 1], q[i])]
           step == [i \in 1..n |-> [x \in Path |-> P!CleanElement(x, q[i])]]
<1>1. n \in Nat /\ <<>> \in Path /\ \A i \in 1..n : q[i] \in Element
  BY DEF Path
<1>2. IsLoop(n, Path, <<>>, step)
  <2> HIDE DEF n
  <2>1. ASSUME NEW i \in 1..n, NEW x \in Path PROVE P!CleanElement(x, q[i]) \in Path
    BY <1>1, CleanElementType
  <2> QED BY <1>1, <2>1 DEF IsLoop
<1>3. PICK f : IsRun(f, n, Path, <<>>, step)
  <2> HIDE DEF step
  <2> QED BY <1>2, LoopRuns, Zenon
<1>4. f = Rec(f)
  <2> HIDE DEF n
  <2>1. ASSUME NEW i \in 1..n PROVE f[i] = P!CleanElement(f[i - 1], q[i])
    <3>1. f[i - 1] \in Path /\ f[i] = step[i][f[i - 1]]
      BY <1>1, <1>3 DEF IsRun
    <3> QED BY <3>1
  <2> QED BY <1>1, <1>3, <2>1 DEF IsRun
<1> DEFINE g == CHOOSE h : h = Rec(h)
<1>5. g = Rec(g)
  <2> HIDE DEF Rec
  <2> QED BY <1>4
<1>6. P!Clean(q) = g[n]
  BY DEF P!Clean
<1> HIDE DEF g
<1>7. g[0] = <<>> /\ (\A i \in 1..n : g[i] = P!CleanElement(g[i - 1], q[i])) /\ g = [i \in 0..n |-> g[i]]
  <2> HIDE DEF n
  <2> QED BY <1>1, <1>5
<1> DEFINE T == {i \in Nat : i <= n => g[i] \in Path}
<1>8. n \in Nat /\ T \in SUBSET Nat /\ 0 \in T
  BY <1>1, <1>7
<1>9. ASSUME NEW i \in 1..n, i - 1 \in T PROVE i \in T
  <2> HIDE DEF n
  <2>1. g[i - 1] \in Path
    BY <1>1, <1>9
  <2>2. g[i] = P!CleanElement(g[i - 1], q[i]) /\ q[i] \in Element
    BY <1>1, <1>7, Zenon
  <2>3. g[i] \in Path
    BY <2>1, <2>2, CleanElementType
  <2> QED BY <2>3
<1>10. \A i \in 0..n : i \in T
  <2> HIDE DEF T, n
  <2> QED BY <1>8, <1>9, InductionUpTo
<1>11. \A i \in 0..n : g[i] \in Path
  <2> HIDE DEF n
  <2> QED BY <1>1, <1>10
<1>12. g \in [0..n -> Path]
  <2> HIDE DEF n
  <2> QED BY <1>7, <1>11
<1>13. CleansTo(g, q)
  BY <1>7, <1>12, Zenon DEF CleansTo
<1> QED BY <1>6, <1>13

(* Clean, element by element.                                              *)
LEMMA CleanOfAppend ==
  /\ P!Clean(<<>>) = <<>>
  /\ \A q \in Path : P!Clean(q) \in Path
  /\ \A q \in Path, e \in Element : P!Clean(Append(q, e)) = P!CleanElement(P!Clean(q), e)
<1>1. P!Clean(<<>>) = <<>>
  <2>1. <<>> \in Path /\ Len(<<>>) = 0
    BY DEF Path
  <2>2. PICK g : CleansTo(g, <<>>) /\ P!Clean(<<>>) = g[Len(<<>>)]
    BY <2>1, CleanIsALoop
  <2> QED BY <2>1, <2>2 DEF CleansTo
<1>2. ASSUME NEW q \in Path PROVE P!Clean(q) \in Path
  <2>1. PICK g : CleansTo(g, q) /\ P!Clean(q) = g[Len(q)]
    BY CleanIsALoop
  <2>2. Len(q) \in 0..Len(q)
    BY DEF Path
  <2> QED BY <2>1, <2>2 DEF CleansTo
<1>3. ASSUME NEW q \in Path, NEW e \in Element
      PROVE  P!Clean(Append(q, e)) = P!CleanElement(P!Clean(q), e)
  <2> DEFINE p == Append(q, e)
             n == Len(q)
  <2>1. p \in Path /\ n \in Nat /\ Len(p) = n + 1 /\ p[n + 1] = e /\ \A i \in 1..n : p[i] = q[i]
    BY AppendProperties, LenProperties DEF Path
  <2> HIDE DEF p
  <2>2. PICK g : CleansTo(g, q) /\ P!Clean(q) = g[Len(q)]
    BY CleanIsALoop
  <2>3. PICK h : CleansTo(h, p) /\ P!Clean(p) = h[Len(p)]
    BY <2>1, CleanIsALoop
  <2> HIDE DEF n
  <2> DEFINE T == {i \in Nat : i <= n => g[i] = h[i]}
  <2>4. T \in SUBSET Nat /\ 0 \in T
    BY <2>2, <2>3 DEF CleansTo
  <2>5. ASSUME NEW i \in 1..n, i - 1 \in T PROVE i \in T
    <3>1. g[i - 1] = h[i - 1]
      BY <2>1, <2>5
    <3>2. g[i] = P!CleanElement(g[i - 1], q[i])
      BY <2>2 DEF CleansTo, n
    <3>3. h[i] = P!CleanElement(h[i - 1], p[i]) /\ p[i] = q[i]
      BY <2>1, <2>3 DEF CleansTo
    <3> QED BY <3>1, <3>2, <3>3
  <2>6. n \in T
    <3> HIDE DEF T
    <3>1. \A i \in 0..n : i \in T
      BY <2>1, <2>4, <2>5, InductionUpTo
    <3> QED BY <2>1, <3>1
  <2>7. h[n + 1] = P!CleanElement(h[n], e)
    <3>1. n + 1 \in 1..Len(p) /\ (n + 1) - 1 = n
      BY <2>1
    <3>2. h[n + 1] = P!CleanElement(h[(n + 1) - 1], p[n + 1])
      BY <2>3, <3>1 DEF CleansTo
    <3> QED BY <2>1, <3>1, <3>2
  <2>8. g[n] = h[n]
    BY <2>1, <2>6
  <2>9. P!Clean(p) = P!CleanElement(P!Clean(q), e)
    BY <2>1, <2>2, <2>3, <2>7, <2>8 DEF n
  <2> QED BY <2>9 DEF p
<1> QED BY <1>1, <1>2, <1>3

-----------------------------------------------------------------------------
(* A clean path has no dots, and climbs only at its beginning.             *)
Normal(q) ==
  \A i \in 1..Len(q) : q[i] \notin Dots /\ (q[i] = P!Up => i = 1 \/ q[i - 1] = P!Up)

(* What Append does to a path.                                             *)
LEMMA AppendFacts ==
  ASSUME NEW q \in Path, NEW e \in Element
  PROVE  /\ Append(q, e) \in Path /\ Len(q) \in Nat /\ Len(Append(q, e)) = Len(q) + 1
         /\ Append(q, e)[Len(q) + 1] = e /\ \A i \in 1..Len(q) : Append(q, e)[i] = q[i]
         /\ P!Last(Append(q, e)) = e /\ P!Front(Append(q, e)) = q /\ Append(q, e) # <<>>
<1> DEFINE p == Append(q, e)
           n == Len(q)
<1>1. p \in Path /\ n \in Nat /\ Len(p) = n + 1 /\ p[n + 1] = e /\ (\A i \in 1..n : p[i] = q[i]) /\ p # <<>>
  BY AppendProperties, LenProperties DEF Path
<1> HIDE DEF p
<1>2. P!Last(p) = e
  BY <1>1 DEF P!Last
<1>3. P!Front(p) = q
  <2>1. P!Front(p) = SubSeq(p, 1, n)
    BY <1>1 DEF P!Front
  <2>2. SubSeq(p, 1, n) \in Seq(Element) /\ Len(SubSeq(p, 1, n)) = n /\ \A i \in 1..n : SubSeq(p, 1, n)[i] = p[i]
    BY <1>1 DEF Path
  <2>3. q \in Seq(Element)
    BY DEF Path
  <2> QED BY <1>1, <2>1, <2>2, <2>3, SeqEqual
<1> QED BY <1>1, <1>2, <1>3 DEF p

(* A path with one more element is one.                                    *)
LEMMA AppendIsPath == \A q \in Path, e \in Element : Append(q, e) \in Path
BY AppendFacts
(* Last and Front take it away again.                                      *)
LEMMA LastFront ==
  \A q \in Path, e \in Element : /\ P!Last(Append(q, e)) = e /\ P!Front(Append(q, e)) = q
                                 /\ Append(q, e) # <<>>
BY AppendFacts

(* A path that is not empty is its front and its last element.             *)
LEMMA FrontFacts ==
  \A q \in Path : q # <<>> =>
     /\ P!Front(q) \in Path /\ P!Last(q) \in Element /\ q = Append(P!Front(q), P!Last(q))
     /\ Len(q) = Len(P!Front(q)) + 1 /\ Len(P!Front(q)) \in Nat
<1> SUFFICES ASSUME NEW q \in Path, q # <<>>
             PROVE  /\ P!Front(q) \in Path /\ P!Last(q) \in Element /\ q = Append(P!Front(q), P!Last(q))
                    /\ Len(q) = Len(P!Front(q)) + 1 /\ Len(P!Front(q)) \in Nat
  OBVIOUS
<1>1. PICK f \in Seq(Element), e \in Element : q = Append(f, e)
  BY SequenceEmptyOrAppend DEF Path
<1>2. f \in Path
  BY DEF Path
<1>3. P!Last(q) = e /\ P!Front(q) = f
  BY <1>1, <1>2, LastFront, Zenon
<1>4. Len(q) = Len(f) + 1 /\ Len(f) \in Nat
  BY <1>1, <1>2, AppendFacts
<1> QED BY <1>1, <1>2, <1>3, <1>4

(* When a clean path with one more element is clean.                       *)
LEMMA NormalOfAppend ==
  \A q \in Path, e \in Element :
     Normal(Append(q, e)) <=> /\ Normal(q) /\ e \notin Dots
                              /\ e = P!Up => q = <<>> \/ P!Last(q) = P!Up
<1> TAKE q \in Path, e \in Element
<1> DEFINE p == Append(q, e)
           n == Len(q)
<1>1. p \in Path /\ n \in Nat /\ Len(p) = n + 1 /\ p[n + 1] = e /\ \A i \in 1..n : p[i] = q[i]
  BY AppendFacts
<1>2. P!Last(q) = q[n]
  BY DEF P!Last
<1>3. q = <<>> <=> n = 0
  BY EmptySeq DEF Path
<1> HIDE DEF p, n
<1>4. ASSUME Normal(p) PROVE Normal(q) /\ e \notin Dots /\ (e = P!Up => q = <<>> \/ P!Last(q) = P!Up)
  <2>1. n + 1 \in 1..Len(p) /\ (n + 1) - 1 = n
    BY <1>1
  <2>2. e \notin Dots /\ (e = P!Up => n + 1 = 1 \/ p[n] = P!Up)
    BY <1>1, <1>4, <2>1 DEF Normal
  <2>3. e = P!Up => q = <<>> \/ P!Last(q) = P!Up
    BY <1>1, <1>2, <1>3, <2>2
  <2>4. ASSUME NEW i \in 1..n PROVE q[i] \notin Dots /\ (q[i] = P!Up => i = 1 \/ q[i - 1] = P!Up)
    <3>1. p[i] \notin Dots /\ (p[i] = P!Up => i = 1 \/ p[i - 1] = P!Up)
      BY <1>1, <1>4 DEF Normal
    <3> QED BY <1>1, <3>1
  <2> QED BY <2>2, <2>3, <2>4 DEF Normal, n
<1>5. ASSUME Normal(q), e \notin Dots, e = P!Up => q = <<>> \/ P!Last(q) = P!Up PROVE Normal(p)
  <2> SUFFICES ASSUME NEW i \in 1..(n + 1)
               PROVE  p[i] \notin Dots /\ (p[i] = P!Up => i = 1 \/ p[i - 1] = P!Up)
    BY <1>1 DEF Normal
  <2>1. CASE i = n + 1
    BY <1>1, <1>2, <1>3, <1>5, <2>1
  <2>2. CASE i # n + 1
    <3>1. i \in 1..n /\ q[i] \notin Dots /\ (q[i] = P!Up => i = 1 \/ q[i - 1] = P!Up)
      BY <1>1, <1>5, <2>2 DEF Normal, n
    <3> QED BY <1>1, <3>1
  <2> QED BY <2>1, <2>2
<1> QED BY <1>4, <1>5 DEF p

(* The front of a clean path is clean.                                     *)
LEMMA NormalFront ==
  \A q \in Path : Normal(q) /\ q # <<>> => Normal(P!Front(q)) /\ P!Last(q) \notin Dots
<1> SUFFICES ASSUME NEW q \in Path, Normal(q), q # <<>> PROVE Normal(P!Front(q)) /\ P!Last(q) \notin Dots
  OBVIOUS
<1> DEFINE f == P!Front(q)  x == P!Last(q)
<1>1. f \in Path /\ x \in Element /\ q = Append(f, x)
  BY FrontFacts, Zenon
<1> HIDE DEF f, x
<1>2. Normal(Append(f, x))
  BY <1>1
<1>3. Normal(f) /\ x \notin Dots
  BY <1>1, <1>2, NormalOfAppend, Zenon
<1> QED BY <1>3 DEF f, x

(* Clean makes a path clean ...                                            *)
LEMMA CleanIsNormal ==
  \A q \in Path : Normal(P!Clean(q))
<1> DEFINE T == {q \in Path : Normal(P!Clean(q))}
<1>1. <<>> \in T
  BY CleanOfAppend DEF Normal, Path
<1>2. ASSUME NEW q \in Path, NEW e \in Element, q \in T PROVE Append(q, e) \in T
  <2> DEFINE c == P!Clean(q)
  <2>1. c \in Path /\ Normal(c) /\ P!Clean(Append(q, e)) = P!CleanElement(c, e) /\ Append(q, e) \in Path
    BY <1>2, CleanOfAppend, AppendIsPath, Zenon
  <2> HIDE DEF c
  <2>2. CASE P!CleanElement(c, e) = Append(c, e)
    <3>1. e \notin Dots /\ (e = P!Up => c = <<>> \/ P!Last(c) = P!Up)
      <4>1. Append(c, e) # c
        BY <2>1, AppendFacts
      <4>2. e \notin Dots /\ P!CleanElement(c, e) # c
        BY <2>2, <4>1 DEF P!CleanElement, Dots
      <4>3. ASSUME e = P!Up, c # <<>>, P!Last(c) # P!Up PROVE FALSE
        <5>1. P!CleanElement(c, e) = P!Front(c)
          BY <4>2, <4>3 DEF P!CleanElement, Dots
        <5>2. Len(P!Front(c)) < Len(c)
          BY <2>1, <4>3, FrontFacts
        <5>3. Len(P!Front(c)) = Len(c) + 1 /\ Len(c) \in Nat
          BY <2>1, <2>2, <5>1, AppendFacts
        <5> QED BY <5>2, <5>3
      <4> QED BY <4>2, <4>3
    <3> QED BY <2>1, <2>2, <3>1, NormalOfAppend
  <2>3. CASE P!CleanElement(c, e) = c
    BY <2>1, <2>3
  <2>4. CASE c # <<>> /\ P!CleanElement(c, e) = P!Front(c)
    <3>1. Normal(P!Front(c))
      BY <2>1, <2>4, NormalFront, Zenon
    <3> QED BY <2>1, <2>4, <3>1
  <2> QED BY <2>2, <2>3, <2>4 DEF P!CleanElement
<1> HIDE DEF T
<1>3. \A q \in Path : q \in T
  BY <1>1, <1>2, SequenceInduction DEF Path
<1> QED BY <1>3 DEF T

(* ... and leaves a clean one alone.                                       *)
LEMMA NormalIsClean ==
  \A q \in Path : Normal(q) => P!Clean(q) = q
<1> DEFINE T == {q \in Path : Normal(q) => P!Clean(q) = q}
<1>1. <<>> \in T
  BY CleanOfAppend DEF Path
<1>2. ASSUME NEW q \in Path, NEW e \in Element, q \in T PROVE Append(q, e) \in T
  <2>1. Append(q, e) \in Path
    BY AppendFacts
  <2>2. ASSUME Normal(Append(q, e)) PROVE P!Clean(Append(q, e)) = Append(q, e)
    <3>1. P!Clean(q) = q /\ e \notin Dots /\ (e = P!Up => q = <<>> \/ P!Last(q) = P!Up)
      BY <1>2, <2>2, NormalOfAppend
    <3>2. P!Clean(Append(q, e)) = P!CleanElement(q, e)
      BY <3>1, CleanOfAppend
    <3> QED BY <3>1, <3>2 DEF P!CleanElement, Dots
  <2> QED BY <2>1, <2>2
<1> HIDE DEF T
<1>3. \A q \in Path : q \in T
  BY <1>1, <1>2, SequenceInduction DEF Path
<1> QED BY <1>3 DEF T

(* Two paths put together are one.                                         *)
LEMMA ConcatType == \A a, b \in Path : a \o b \in Path
BY ConcatProperties DEF Path
(* The elements of two paths put together.                                 *)
LEMMA ConcatElements ==
  \A a, b \in Path :
     /\ a \o b \in Path /\ Len(a \o b) = Len(a) + Len(b)
     /\ \A i \in 1..(Len(a) + Len(b)) : (a \o b)[i] = IF i <= Len(a) THEN a[i] ELSE b[i - Len(a)]
BY ConcatProperties DEF Path

(* The empty path adds nothing.                                            *)
LEMMA ConcatEmpty == \A a \in Path : a \o <<>> = a /\ <<>> \o a = a
BY ConcatEmptySeq DEF Path
(* Paths are put together in any order.                                    *)
LEMMA ConcatConcat == \A a, b, c \in Path : (a \o b) \o c = a \o (b \o c)
BY ConcatAssociative DEF Path
(* An element at the end stays there.                                      *)
LEMMA ConcatAppend == \A a, b \in Path, e \in Element : a \o Append(b, e) = Append(a \o b, e)
<1> SUFFICES ASSUME NEW a \in Path, NEW b \in Path, NEW e \in Element
             PROVE  a \o Append(b, e) = Append(a \o b, e)
  OBVIOUS
<1>1. Append(b, e) = b \o <<e>> /\ <<e>> \in Path
  BY AppendIsConcat DEF Path
<1>2. Append(a \o b, e) = (a \o b) \o <<e>>
  BY ConcatType, AppendIsConcat DEF Path
<1>3. (a \o b) \o <<e>> = a \o (b \o <<e>>)
  BY <1>1, ConcatConcat, Zenon
<1> QED BY <1>1, <1>2, <1>3

(* The beginning of a path may be cleaned first.                           *)
LEMMA CleanLeft ==
  \A a \in Path, b \in Path : P!Clean(P!Clean(a) \o b) = P!Clean(a \o b)
<1> SUFFICES ASSUME NEW a \in Path PROVE \A b \in Path : P!Clean(P!Clean(a) \o b) = P!Clean(a \o b)
  OBVIOUS
<1> DEFINE c == P!Clean(a)
           T == {b \in Path : P!Clean(c \o b) = P!Clean(a \o b)}
<1>1. c \in Path /\ P!Clean(c) = c
  BY CleanOfAppend, CleanIsNormal, NormalIsClean
<1>2. <<>> \in T
  <2>1. <<>> \in Path
    BY DEF Path
  <2> QED BY <1>1, <2>1, ConcatEmpty
<1>3. ASSUME NEW b \in Path, NEW e \in Element, b \in T PROVE Append(b, e) \in T
  <2> HIDE DEF c
  <2>1. c \o Append(b, e) = Append(c \o b, e) /\ a \o Append(b, e) = Append(a \o b, e)
         /\ c \o b \in Path /\ a \o b \in Path /\ Append(b, e) \in Path
    BY <1>1, ConcatType, ConcatAppend, AppendIsPath, Zenon
  <2>2. P!Clean(c \o Append(b, e)) = P!CleanElement(P!Clean(c \o b), e)
         /\ P!Clean(a \o Append(b, e)) = P!CleanElement(P!Clean(a \o b), e)
    BY <2>1, CleanOfAppend
  <2> QED BY <1>3, <2>1, <2>2
<1> HIDE DEF T
<1>4. \A b \in Path : b \in T
  BY <1>2, <1>3, SequenceInduction DEF Path
<1> QED BY <1>4 DEF T

(* So may its end.                                                         *)
LEMMA CleanRight ==
  \A a \in Path, b \in Path : P!Clean(a \o P!Clean(b)) = P!Clean(a \o b)
<1> SUFFICES ASSUME NEW a \in Path PROVE \A b \in Path : P!Clean(a \o P!Clean(b)) = P!Clean(a \o b)
  OBVIOUS
<1> DEFINE T == {b \in Path : P!Clean(a \o P!Clean(b)) = P!Clean(a \o b)}
<1>1. <<>> \in T
  <2>1. <<>> \in Path
    BY DEF Path
  <2> QED BY <2>1, CleanOfAppend
<1>2. ASSUME NEW b \in Path, NEW e \in Element, b \in T PROVE Append(b, e) \in T
  <2> DEFINE c == P!Clean(b)
             d == P!Clean(a \o c)
  <2>1. /\ c \in Path /\ Append(b, e) \in Path /\ P!Clean(a \o b) = d
        /\ P!Clean(Append(b, e)) = P!CleanElement(c, e)
    BY <1>2, CleanOfAppend, AppendIsPath, Zenon
  <2>2. P!Clean(a \o Append(b, e)) = P!CleanElement(d, e)
    <3>1. a \o Append(b, e) = Append(a \o b, e) /\ a \o b \in Path
      BY ConcatType, ConcatAppend, Zenon
    <3> QED BY <2>1, <3>1, CleanOfAppend
  <2> HIDE DEF c
  <2>3. P!Clean(a \o P!CleanElement(c, e)) = P!CleanElement(d, e)
    <3>1. CASE P!CleanElement(c, e) = Append(c, e)
      <4>1. a \o Append(c, e) = Append(a \o c, e) /\ a \o c \in Path
        BY <2>1, ConcatType, ConcatAppend, Zenon
      <4> QED BY <3>1, <4>1, CleanOfAppend
    <3>2. CASE e \in Dots
      BY <3>2 DEF P!CleanElement, Dots
    <3>3. CASE c # <<>> /\ e = P!Up /\ P!Last(c) \notin Dots \cup {P!Up}
      <4> DEFINE f == P!Front(c)
                 x == P!Last(c)
      <4>1. f \in Path /\ x \in Element /\ c = Append(f, x)
        BY <2>1, <3>3, FrontFacts
      <4> HIDE DEF f
      <4>2. a \o c = Append(a \o f, x) /\ a \o f \in Path /\ P!Clean(a \o f) \in Path
        <5>1. a \o Append(f, x) = Append(a \o f, x) /\ a \o f \in Path
          BY <4>1, ConcatType, ConcatAppend, Zenon
        <5> QED BY <4>1, <5>1, CleanOfAppend
      <4>3. d = P!CleanElement(P!Clean(a \o f), x)
        BY <4>1, <4>2, CleanOfAppend
      <4>4. d = Append(P!Clean(a \o f), x)
        BY <3>3, <4>3 DEF P!CleanElement, Dots
      <4>5. d # <<>> /\ P!Last(d) = x /\ P!Front(d) = P!Clean(a \o f)
        <5> DEFINE y == P!Clean(a \o f)
        <5>1. y \in Path /\ d = Append(y, x)
          BY <4>2, <4>4
        <5> HIDE DEF y, d, x
        <5>2. P!Last(Append(y, x)) = x /\ P!Front(Append(y, x)) = y /\ Append(y, x) # <<>>
          BY <4>1, <5>1, LastFront, Zenon
        <5>3. d # <<>> /\ P!Last(d) = x /\ P!Front(d) = y
          BY <5>1, <5>2
        <5> QED BY <5>3 DEF y
      <4> HIDE DEF d
      <4>6. CASE x = P!Root
        <5>1. P!CleanElement(c, e) = c /\ P!CleanElement(d, e) = d
          BY <3>3, <4>5, <4>6 DEF P!CleanElement, P!Up, P!Root
        <5> QED BY <5>1 DEF d
      <4>7. CASE x # P!Root
        <5>1. P!CleanElement(c, e) = f /\ P!CleanElement(d, e) = P!Clean(a \o f)
          BY <3>3, <4>5, <4>7 DEF P!CleanElement, P!Up, f
        <5> QED BY <5>1
      <4> QED BY <4>6, <4>7
    <3>4. c # <<>> => P!Last(c) \notin Dots
      <4>1. Normal(c)
        BY CleanIsNormal DEF c
      <4> QED BY <2>1, <4>1, NormalFront, Zenon
    <3> QED BY <3>1, <3>2, <3>3, <3>4 DEF P!CleanElement, Dots
  <2> QED BY <2>1, <2>2, <2>3 DEF c
<1> HIDE DEF T
<1>3. \A b \in Path : b \in T
  BY <1>1, <1>2, SequenceInduction DEF Path
<1> QED BY <1>3 DEF T

-----------------------------------------------------------------------------
(* The elements of a path.                                                 *)
LEMMA PathFacts ==
  \A q \in Path : Len(q) \in Nat /\ (q = <<>> <=> Len(q) = 0) /\ \A i \in 1..Len(q) : q[i] \in Element
BY EmptySeq DEF Path

(* Paths with the same elements are the same.                              *)
LEMMA PathsEqual ==
  \A p, q \in Path : Len(p) = Len(q) /\ (\A i \in 1..Len(p) : p[i] = q[i]) => p = q
BY SeqEqual DEF Path

(* The elements of a part of a path.                                       *)
LEMMA SubPath ==
  ASSUME NEW q \in Path, NEW m \in 1..(Len(q) + 1), NEW n \in (m - 1)..Len(q)
  PROVE  /\ SubSeq(q, m, n) \in Path /\ Len(SubSeq(q, m, n)) = n - m + 1
         /\ \A i \in 1..(n - m + 1) : SubSeq(q, m, n)[i] = q[m + i - 1]
<1>1. Len(q) \in Nat /\ \A i \in 1..Len(q) : q[i] \in Element
  BY PathFacts, Zenon
<1>2. m \in Int /\ n \in Int /\ \A i \in m..n : q[i] \in Element
  BY <1>1
<1>3. /\ SubSeq(q, m, n) \in Seq(Element)
      /\ Len(SubSeq(q, m, n)) = IF m <= n THEN n - m + 1 ELSE 0
      /\ \A i \in 1..n - m + 1 : SubSeq(q, m, n)[i] = q[m + i - 1]
  BY <1>2, SubSeqProperties
<1>4. Len(SubSeq(q, m, n)) = n - m + 1
  BY <1>1, <1>3
<1> QED BY <1>3, <1>4, Zenon DEF Path

(* An absolute clean path is clean.                                        *)
LEMMA RootedIsClean ==
  \A q : Rooted(q) => P!Clean(q) = q
<1> SUFFICES ASSUME NEW q, Rooted(q) PROVE P!Clean(q) = q
  OBVIOUS
<1>1. q \in Path /\ Len(q) \in Nat
  BY PathFacts DEF Rooted
<1>2. ASSUME NEW i \in 1..Len(q) PROVE q[i] \notin Dots /\ q[i] # P!Up
  <2>1. CASE i = 1
    BY <2>1 DEF Rooted, Dots, P!Up, P!Root
  <2>2. CASE i # 1
    <3>1. i \in 2..Len(q)
      BY <1>1, <2>2
    <3> QED BY <3>1 DEF Rooted, Special
  <2> QED BY <2>1, <2>2
<1>3. Normal(q)
  BY <1>2 DEF Normal
<1> QED BY <1>1, <1>3, NormalIsClean

(* What is above it is one, too.                                           *)
LEMMA RootedPrefix ==
  ASSUME NEW q, Rooted(q), NEW n \in 1..Len(q)
  PROVE  Rooted(SubSeq(q, 1, n)) /\ Len(SubSeq(q, 1, n)) = n /\ P!Last(SubSeq(q, 1, n)) = q[n]
<1>1. q \in Path /\ Len(q) \in Nat
  BY PathFacts DEF Rooted
<1> DEFINE s == SubSeq(q, 1, n)
<1>2. s \in Path /\ Len(s) = n /\ \A i \in 1..n : s[i] = q[i]
  <2>1. 1 \in 1..(Len(q) + 1) /\ n \in (1 - 1)..Len(q)
    BY <1>1
  <2>2. /\ s \in Path /\ Len(s) = n - 1 + 1
        /\ \A i \in 1..(n - 1 + 1) : s[i] = q[1 + i - 1]
    BY <1>1, <2>1, SubPath
  <2> HIDE DEF s
  <2> QED BY <2>2
<1> HIDE DEF s
<1>3. Rooted(s)
  BY <1>1, <1>2 DEF Rooted
<1> QED BY <1>2, <1>3 DEF s, P!Last

(* An element leads from one to another.                                   *)
LEMMA RootedElement ==
  \A c, e : Rooted(c) /\ e \in Element /\ e # P!Root => Rooted(P!CleanElement(c, e))
<1> SUFFICES ASSUME NEW c, Rooted(c), NEW e \in Element, e # P!Root PROVE Rooted(P!CleanElement(c, e))
  OBVIOUS
<1>1. c \in Path /\ Len(c) \in Nat /\ c # <<>> /\ P!Last(c) = c[Len(c)]
  BY PathFacts DEF Rooted, P!Last
<1>2. CASE e \in Dots
  BY <1>2 DEF P!CleanElement, Dots
<1>3. CASE e \notin Dots /\ e # P!Up
  <2>1. P!CleanElement(c, e) = Append(c, e)
    BY <1>3 DEF P!CleanElement, Dots
  <2> DEFINE d == Append(c, e)
  <2>2. d \in Path /\ Len(d) = Len(c) + 1 /\ d[Len(c) + 1] = e /\ \A i \in 1..Len(c) : d[i] = c[i]
    BY <1>1, AppendFacts
  <2> HIDE DEF d
  <2>3. d[1] = P!Root
    BY <1>1, <2>2 DEF Rooted
  <2>4. ASSUME NEW i \in 2..Len(d) PROVE d[i] \notin Special
    <3>1. CASE i = Len(c) + 1
      BY <1>3, <2>2, <3>1 DEF Special
    <3>2. CASE i # Len(c) + 1
      <4>1. i \in 2..Len(c) /\ d[i] = c[i]
        BY <1>1, <2>2, <3>2
      <4> QED BY <4>1 DEF Rooted
    <3> QED BY <3>1, <3>2
  <2>5. Rooted(d)
    BY <1>1, <2>2, <2>3, <2>4 DEF Rooted
  <2> QED BY <2>1, <2>5 DEF d
<1>4. CASE e = P!Up
  <2>1. P!Last(c) # P!Up
    <3>1. CASE Len(c) = 1
      BY <1>1, <3>1 DEF Rooted, P!Root, P!Up
    <3>2. CASE Len(c) # 1
      <4>1. Len(c) \in 2..Len(c)
        BY <1>1, <3>2 DEF Rooted
      <4> QED BY <1>1, <4>1 DEF Rooted, Special
    <3> QED BY <3>1, <3>2
  <2>2. CASE P!Last(c) = P!Root
    <3>1. P!CleanElement(c, e) = c
      BY <1>1, <1>4, <2>1, <2>2 DEF P!CleanElement, P!Up
    <3> QED BY <3>1
  <2>3. CASE P!Last(c) # P!Root
    <3>1. P!CleanElement(c, e) = P!Front(c)
      BY <1>1, <1>4, <2>1, <2>3 DEF P!CleanElement, P!Up
    <3>2. Len(c) - 1 \in 1..Len(c)
      <4>1. Len(c) # 1
        BY <1>1, <2>3 DEF Rooted
      <4>2. Len(c) >= 1
        BY DEF Rooted
      <4> QED BY <1>1, <4>1, <4>2
    <3>3. Rooted(SubSeq(c, 1, Len(c) - 1))
      BY <3>2, RootedPrefix
    <3> QED BY <3>1, <3>3 DEF P!Front
  <2> QED BY <2>2, <2>3
<1> QED BY <1>2, <1>3, <1>4

(* What a relative path leads to from an absolute one is absolute.         *)
LEMMA CleanRooted ==
  \A a, b : Rooted(a) /\ Relative(b) => Rooted(P!Clean(a \o b))
<1> SUFFICES ASSUME NEW a, Rooted(a) PROVE \A b : Relative(b) => Rooted(P!Clean(a \o b))
  OBVIOUS
<1> DEFINE T == {b \in Path : Relative(b) => Rooted(P!Clean(a \o b))}
<1>0. a \in Path
  BY DEF Rooted
<1>1. <<>> \in T
  <2>1. a \o <<>> = a /\ <<>> \in Path
    BY <1>0, ConcatEmpty DEF Path
  <2> QED BY <2>1, RootedIsClean
<1>2. ASSUME NEW b \in Path, NEW e \in Element, b \in T PROVE Append(b, e) \in T
  <2>1. Append(b, e) \in Path
    BY AppendIsPath
  <2>2. ASSUME Relative(Append(b, e)) PROVE Rooted(P!Clean(a \o Append(b, e)))
    <3> DEFINE p == Append(b, e)
    <3>1. Len(b) \in Nat /\ Len(p) = Len(b) + 1 /\ p[Len(b) + 1] = e /\ \A i \in 1..Len(b) : p[i] = b[i]
      BY AppendFacts
    <3> HIDE DEF p
    <3>2. e # P!Root /\ Relative(b)
      BY <2>2, <3>1 DEF p, Relative
    <3>3. a \o p = Append(a \o b, e) /\ a \o b \in Path
      BY <1>0, ConcatAppend, ConcatType DEF p
    <3>4. P!Clean(a \o p) = P!CleanElement(P!Clean(a \o b), e)
      BY <3>3, CleanOfAppend
    <3>5. Rooted(P!Clean(a \o b))
      BY <1>2, <3>2
    <3>6. Rooted(P!CleanElement(P!Clean(a \o b), e))
      BY <3>2, <3>5, RootedElement
    <3> QED BY <3>4, <3>6 DEF p
  <2> QED BY <2>1, <2>2
<1> HIDE DEF T
<1>3. \A b \in Path : b \in T
  BY <1>1, <1>2, SequenceInduction DEF Path
<1> QED BY <1>3 DEF T, Relative

(* An absolute path as it is given: only its first element is the root.    *)
LEMMA AbsoluteIsRooted ==
  ASSUME NEW q \in Path, P!IsAbs(q), \A i \in 2..Len(q) : q[i] # P!Root
  PROVE  Rooted(P!Clean(q))
<1>1. Len(q) \in Nat \ {0} /\ q[1] = P!Root /\ q \in Seq(Element)
  BY PathFacts DEF P!IsAbs, Path
<1> DEFINE h == <<q[1]>>
           t == SubSeq(q, 2, Len(q))
<1>2. t \in Path /\ Len(t) = Len(q) - 1 /\ \A i \in 1..(Len(q) - 1) : t[i] = q[i + 1]
  <2>1. 2 \in 1..(Len(q) + 1) /\ Len(q) \in (2 - 1)..Len(q)
    BY <1>1
  <2>2. /\ t \in Path /\ Len(t) = Len(q) - 2 + 1
        /\ \A i \in 1..(Len(q) - 2 + 1) : t[i] = q[2 + i - 1]
    BY <2>1, SubPath
  <2> HIDE DEF t
  <2> QED BY <1>1, <2>2
<1>3. q[1] \in Element
  BY <1>1, PathFacts
<1>4. h \in Path /\ Len(h) = 1 /\ h[1] = q[1]
  BY <1>3 DEF Path
<1>5. Relative(t)
  <2> HIDE DEF t
  <2>1. ASSUME NEW i \in 1..Len(t) PROVE t[i] # P!Root
    <3>1. i + 1 \in 2..Len(q) /\ t[i] = q[i + 1]
      BY <1>1, <1>2
    <3> QED BY <3>1
  <2> QED BY <1>2, <2>1 DEF Relative
<1>6. Rooted(h)
  <2> HIDE DEF h
  <2> QED BY <1>1, <1>4 DEF Rooted
<1>7. q = h \o t
  <2> HIDE DEF h, t
  <2>1. h \o t \in Path /\ Len(h \o t) = Len(h) + Len(t)
          /\ \A i \in 1..(Len(h) + Len(t)) : (h \o t)[i] = IF i <= Len(h) THEN h[i] ELSE t[i - Len(h)]
    <3>1. h \in Path /\ t \in Path
      BY <1>2, <1>4
    <3> QED BY <3>1, ConcatElements, Zenon
  <2>2. ASSUME NEW i \in 1..Len(q) PROVE q[i] = (h \o t)[i]
    <3>1. CASE i = 1
      BY <1>1, <1>2, <1>4, <2>1, <3>1
    <3>2. CASE i # 1
      <4>1. (h \o t)[i] = t[i - 1] /\ i - 1 \in 1..(Len(q) - 1)
        BY <1>1, <1>2, <1>4, <2>1, <3>2
      <4>2. t[i - 1] = q[(i - 1) + 1]
        BY <1>2, <4>1
      <4> QED BY <4>1, <4>2
    <3> QED BY <3>1, <3>2
  <2>3. Len(q) = Len(h \o t)
    BY <1>1, <1>2, <1>4, <2>1
  <2> QED BY <2>1, <2>2, <2>3, PathsEqual
<1> HIDE DEF h, t
<1> QED BY <1>5, <1>6, <1>7, CleanRooted

(* Climbing from a clean path leads to those above it.                     *)
Ups(k) == [i \in 1..k |-> P!Up]
(* One more way up.                                                        *)
LEMMA UpsFacts ==
  ASSUME NEW k \in Nat
  PROVE  Ups(k) \in Path /\ Len(Ups(k)) = k /\ (k > 0 => Ups(k) = Append(Ups(k - 1), P!Up))
<1>1. P!Up \in Element
  BY DEF Element
<1>2. \A n \in Nat : Ups(n) \in Path /\ Len(Ups(n)) = n /\ \A i \in 1..n : Ups(n)[i] = P!Up
  BY <1>1 DEF Ups, Path
<1>3. ASSUME k > 0 PROVE Ups(k) = Append(Ups(k - 1), P!Up)
  <2> DEFINE u == Ups(k - 1)  v == Append(u, P!Up)  w == Ups(k)
  <2>1. u \in Path /\ Len(u) = k - 1 /\ (\A i \in 1..(k - 1) : u[i] = P!Up)
           /\ w \in Path /\ Len(w) = k /\ \A i \in 1..k : w[i] = P!Up
    BY <1>2, <1>3
  <2> HIDE DEF u, w
  <2>2. v \in Path /\ Len(v) = Len(u) + 1 /\ v[Len(u) + 1] = P!Up /\ \A i \in 1..Len(u) : v[i] = u[i]
    BY <1>1, <2>1, AppendFacts
  <2> HIDE DEF v
  <2>3. Len(w) = Len(v) /\ \A i \in 1..Len(w) : w[i] = v[i]
    BY <2>1, <2>2
  <2>4. w = v
    BY <2>1, <2>2, <2>3, PathsEqual, Zenon
  <2> QED BY <2>4 DEF u, v, w
<1> QED BY <1>2, <1>3

(* Climbing leads to the paths above.                                      *)
LEMMA ClimbsUp ==
  ASSUME NEW a \in Path, Normal(a), NEW k \in 0..Len(a), \A j \in (Len(a) - k + 1)..Len(a) : a[j] \notin Special
  PROVE  P!Clean(a \o Ups(k)) = SubSeq(a, 1, Len(a) - k)
<1> DEFINE n == k
           T == {i \in Nat : i <= n => P!Clean(a \o Ups(i)) = SubSeq(a, 1, Len(a) - i)}
<1>1. a \in Path /\ Len(a) \in Nat /\ n \in Nat /\ n <= Len(a) /\ T \in SUBSET Nat
  BY PathFacts
<1>2. 0 \in T
  <2>1. Ups(0) = <<>>
    BY UpsFacts, PathFacts
  <2>2. a \o Ups(0) = a
    BY <1>1, <2>1, ConcatEmpty
  <2>3. SubSeq(a, 1, Len(a) - 0) = a
    BY <1>1, SubSeqFull DEF Path
  <2>4. P!Clean(a) = a
    BY NormalIsClean
  <2> QED BY <2>2, <2>3, <2>4
<1>3. ASSUME NEW i \in 1..n, i - 1 \in T PROVE i \in T
  <2> DEFINE u == Ups(i - 1)
             m == Len(a) - i + 1
             s == SubSeq(a, 1, m)
  <2>1. i \in Nat /\ i - 1 \in Nat /\ i > 0 /\ m \in 1..Len(a) /\ m = Len(a) - (i - 1) /\ m - 1 = Len(a) - i
    BY <1>1
  <2>2. u \in Path /\ Ups(i) = Append(u, P!Up) /\ P!Up \in Element
    <3>1. P!Up \in Element
      BY DEF Element
    <3>2. i > 0 => Ups(i) = Append(Ups(i - 1), P!Up)
      BY <2>1, UpsFacts
    <3>3. u \in Path
      BY <2>1, UpsFacts
    <3> QED BY <2>1, <3>1, <3>2, <3>3
  <2>3. P!Clean(a \o u) = s
    BY <1>1, <1>3, <2>1
  <2> HIDE DEF u
  <2>4. P!Clean(a \o Ups(i)) = P!CleanElement(s, P!Up)
    <3>1. a \o Append(u, P!Up) = Append(a \o u, P!Up) /\ a \o u \in Path
      BY <1>1, <2>2, ConcatAppend, ConcatType, Zenon
    <3>2. P!Clean(Append(a \o u, P!Up)) = P!CleanElement(P!Clean(a \o u), P!Up)
      BY <2>2, <3>1, CleanOfAppend, Zenon
    <3> QED BY <2>2, <2>3, <3>1, <3>2
  <2>5. s \in Path /\ Len(s) = m /\ P!Last(s) = a[m]
    <3>1. 1 \in 1..(Len(a) + 1) /\ m \in (1 - 1)..Len(a)
      BY <1>1, <2>1
    <3>2. s \in Path /\ Len(s) = m - 1 + 1 /\ \A j \in 1..(m - 1 + 1) : s[j] = a[1 + j - 1]
      BY <3>1, SubPath
    <3> HIDE DEF s
    <3>3. m - 1 + 1 = m /\ m \in 1..m /\ 1 + m - 1 = m
      BY <1>1, <2>1
    <3>4. Len(s) = m /\ s[m] = a[m]
      BY <3>2, <3>3
    <3> QED BY <3>2, <3>4 DEF P!Last
  <2>6. a[m] \notin Special
    <3>1. m \in (Len(a) - k + 1)..Len(a)
      BY <1>1
    <3> QED BY <3>1
  <2>7. s \in Path /\ s # <<>>
    <3> HIDE DEF s, m
    <3> QED BY <2>1, <2>5, PathFacts
  <2>8. P!CleanElement(s, P!Up) = P!Front(s)
    <3> HIDE DEF s
    <3> QED BY <2>5, <2>6, <2>7 DEF P!CleanElement, P!Up, Special
  <2>9. P!Front(s) = SubSeq(a, 1, m - 1)
    <3>1. P!Front(s) = SubSeq(s, 1, m - 1)
      BY <2>5 DEF P!Front
    <3> HIDE DEF s, m
    <3>2. m - 1 \in (1 - 1)..Len(s) /\ m - 1 \in (1 - 1)..Len(a) /\ 1 \in 1..(Len(s) + 1) /\ 1 \in 1..(Len(a) + 1)
      BY <1>1, <2>1, <2>5
    <3> DEFINE x == SubSeq(s, 1, m - 1)  y == SubSeq(a, 1, m - 1)
    <3>3. x \in Path /\ Len(x) = (m - 1) - 1 + 1 /\ \A j \in 1..((m - 1) - 1 + 1) : x[j] = s[1 + j - 1]
      BY <2>7, <3>2, SubPath
    <3>4. y \in Path /\ Len(y) = (m - 1) - 1 + 1 /\ \A j \in 1..((m - 1) - 1 + 1) : y[j] = a[1 + j - 1]
      BY <1>1, <3>2, SubPath
    <3>5. \A j \in 1..((m - 1) - 1 + 1) : s[1 + j - 1] = a[1 + j - 1]
      <4>1. m \in (1 - 1)..Len(a)
        BY <1>1, <2>1
      <4>2. \A j \in 1..(m - 1 + 1) : s[j] = a[1 + j - 1]
        BY <1>1, <3>2, <4>1, SubPath DEF s
      <4>3. \A j \in 1..((m - 1) - 1 + 1) : 1 + j - 1 \in 1..(m - 1 + 1) /\ 1 + (1 + j - 1) - 1 = 1 + j - 1
        BY <1>1, <2>1
      <4> QED BY <4>2, <4>3
    <3> HIDE DEF x, y
    <3>6. x = y
      BY <3>3, <3>4, <3>5, PathsEqual
    <3> QED BY <3>1, <3>6 DEF x, y
  <2>10. P!Clean(a \o Ups(i)) = SubSeq(a, 1, Len(a) - i)
    BY <2>1, <2>4, <2>8, <2>9
  <2> QED BY <2>1, <2>10
<1>4. \A i \in 0..n : i \in T
  <2> HIDE DEF T, n
  <2> QED BY <1>1, <1>2, <1>3, InductionUpTo
<1>5. k \in T /\ k <= n
  BY <1>1, <1>4
<1> QED BY <1>5

(* An absolute path has no other way up.                                   *)
LEMMA RootedClimbsUp ==
  ASSUME NEW a, Rooted(a), NEW k \in 0..(Len(a) - 1)
  PROVE  P!Clean(a \o Ups(k)) = SubSeq(a, 1, Len(a) - k)
<1>1. a \in Path /\ Len(a) \in Nat /\ Normal(a)
  <2>1. a \in Path /\ Len(a) \in Nat
    BY PathFacts DEF Rooted
  <2>2. P!Clean(a) = a /\ Normal(P!Clean(a))
    BY <2>1, RootedIsClean, CleanIsNormal, Zenon
  <2> QED BY <2>1, <2>2
<1>2. k \in 0..Len(a) /\ \A j \in (Len(a) - k + 1)..Len(a) : j \in 2..Len(a)
  BY <1>1
<1>3. \A j \in (Len(a) - k + 1)..Len(a) : a[j] \notin Special
  BY <1>2 DEF Rooted
<1> QED BY <1>1, <1>2, <1>3, ClimbsUp

(* A set of natural numbers that is bounded has a greatest one.            *)
LEMMA GreatestNumber ==
  ASSUME NEW b \in Nat, NEW T, T \subseteq 0..b, T # {}
  PROVE  \E n \in T : \A m \in T : m <= n
<1> DEFINE U == {b - m : m \in T}
<1>1. PICK u \in U : \A v \in U : u <= v
  <2>1. U \subseteq Nat /\ U # {}
    <3>1. \A m \in T : m \in 0..b
      OBVIOUS
    <3>2. \A m \in T : b - m \in Nat
      BY <3>1
    <3>3. PICK m \in T : TRUE
      OBVIOUS
    <3>4. b - m \in U
      BY <3>3
    <3> QED BY <3>2, <3>4
  <2> HIDE DEF U
  <2> QED BY <2>1, LeastNumber
<1>2. PICK n \in T : u = b - n
  OBVIOUS
<1>3. ASSUME NEW m \in T PROVE m <= n
  <2>1. b - m \in U
    OBVIOUS
  <2>2. b - n <= b - m
    BY <1>1, <1>2, <2>1
  <2>3. m \in 0..b /\ n \in 0..b
    OBVIOUS
  <2> QED BY <2>2, <2>3
<1> QED BY <1>3

(* CommonPrefix finds the longest one.                                     *)
LEMMA CommonPrefixFacts ==
  ASSUME NEW a, Rooted(a), NEW b, Rooted(b)
  PROVE  LET n == P!CommonPrefix(a, b) IN
         /\ n \in 1..Len(a) /\ n <= Len(b) /\ SubSeq(a, 1, n) = SubSeq(b, 1, n)
         /\ n = Len(a) <=> P!IsPrefix(a, b)
         /\ \A k \in 0..Len(a) : k <= Len(b) /\ SubSeq(a, 1, k) = SubSeq(b, 1, k) => k <= n
<1> DEFINE lens == {n \in 0..Len(a) : n <= Len(b) /\ SubSeq(a, 1, n) = SubSeq(b, 1, n)}
           n == P!CommonPrefix(a, b)
<1>1. a \in Path /\ b \in Path /\ Len(a) \in Nat \ {0} /\ Len(b) \in Nat \ {0}
  BY PathFacts DEF Rooted
<1>2. 1 \in lens
  <2> DEFINE x == SubSeq(a, 1, 1)  y == SubSeq(b, 1, 1)
  <2>1. x \in Path /\ Len(x) = 1 /\ x[1] = a[1] /\ y \in Path /\ Len(y) = 1 /\ y[1] = b[1]
    BY <1>1 DEF Path
  <2>2. a[1] = b[1]
    BY DEF Rooted
  <2> HIDE DEF x, y
  <2>3. x = y
    BY <2>1, <2>2, PathsEqual
  <2> QED BY <1>1, <2>3 DEF x, y
<1>3. n \in lens /\ \A k \in lens : k <= n
  <2>1. n = CHOOSE m \in lens : \A k \in lens : k <= m
    BY DEF P!CommonPrefix
  <2>2. lens \subseteq 0..Len(a) /\ lens # {}
    BY <1>2
  <2> HIDE DEF lens, n
  <2>3. \E m \in lens : \A k \in lens : k <= m
    BY <1>1, <2>2, GreatestNumber
  <2> QED BY <2>1, <2>3
<1>4. n \in 1..Len(a) /\ n <= Len(b) /\ SubSeq(a, 1, n) = SubSeq(b, 1, n)
  <2> HIDE DEF n
  <2>1. n \in 0..Len(a) /\ n <= Len(b) /\ SubSeq(a, 1, n) = SubSeq(b, 1, n) /\ 1 <= n
    BY <1>2, <1>3
  <2> HIDE DEF lens
  <2> QED BY <1>1, <2>1
<1> HIDE DEF n
<1>5. ASSUME P!IsPrefix(a, b) PROVE n = Len(a)
  <2>1. Len(a) \in lens
    BY <1>1, <1>5 DEF P!IsPrefix
  <2>2. Len(a) <= n
    BY <1>3, <2>1
  <2> QED BY <1>1, <1>4, <2>2
<1>6. ASSUME n = Len(a) PROVE P!IsPrefix(a, b)
  BY <1>4, <1>6 DEF P!IsPrefix
<1>7. \A k \in 0..Len(a) : k <= Len(b) /\ SubSeq(a, 1, k) = SubSeq(b, 1, k) => k <= n
  BY <1>3
<1> QED BY <1>4, <1>5, <1>6, <1>7 DEF n

(* Rel leads from base to target, is relative, and starts with dots if the *)
(* target is not under base or has such a name there.                      *)
Leads(r, base, target) ==
  /\ r \in Path /\ ~P!IsAbs(r) /\ r # P!NoPath /\ P!Clean(base \o r) = target
  /\ P!StartsWithDots(r) <=> \/ ~P!IsPrefix(base, target)
                             \/ Len(target) > Len(base) /\ target[Len(base) + 1] = "..x"
(* Rel does what Leads says.                                               *)
LEMMA RelLeads ==
  \A base, target : Rooted(base) /\ Rooted(target) => Leads(P!Rel(base, target), base, target)
<1> SUFFICES ASSUME NEW base, Rooted(base), NEW target, Rooted(target)
             PROVE  Leads(P!Rel(base, target), base, target)
  OBVIOUS
<1> DEFINE n == P!CommonPrefix(base, target)
           k == Len(base) - n
           u == Ups(k)
           t == SubSeq(target, n + 1, Len(target))
           r == P!Rel(base, target)
           b == Len(base)
           l == Len(target)
<1>1. base \in Path /\ target \in Path /\ b \in Nat \ {0} /\ l \in Nat \ {0}
  BY PathFacts DEF Rooted
<1>2. /\ n \in 1..b /\ n <= l /\ SubSeq(base, 1, n) = SubSeq(target, 1, n)
      /\ n = b <=> P!IsPrefix(base, target)
  BY CommonPrefixFacts
<1>3. r = u \o t
  BY DEF P!Rel, Ups
<1> HIDE DEF n, r, b, l
<1>4. k \in 0..(b - 1) /\ k \in Nat /\ b - k = n
  BY <1>1, <1>2 DEF b
<1>5. u \in Path /\ Len(u) = k /\ \A i \in 1..k : u[i] = P!Up
  <2>1. u \in Path /\ Len(u) = k
    <3> HIDE DEF k
    <3> QED BY <1>4, UpsFacts
  <2> QED BY <2>1 DEF Ups
<1>6. t \in Path /\ Len(t) = l - n /\ \A i \in 1..(l - n) : t[i] = target[n + i]
  <2>1. n + 1 \in 1..(l + 1) /\ l \in ((n + 1) - 1)..l
    BY <1>1, <1>2
  <2>2. /\ t \in Path /\ Len(t) = l - (n + 1) + 1
        /\ \A i \in 1..(l - (n + 1) + 1) : t[i] = target[(n + 1) + i - 1]
    BY <1>1, <2>1, SubPath DEF l
  <2> HIDE DEF t
  <2>3. l - (n + 1) + 1 = l - n
    BY <1>1, <1>2
  <2>4. ASSUME NEW i \in 1..(l - n) PROVE t[i] = target[n + i]
    <3>1. (n + 1) + i - 1 = n + i
      BY <1>1, <1>2
    <3>2. t[i] = target[(n + 1) + i - 1]
      BY <2>2, <2>3
    <3> QED BY <3>1, <3>2
  <2> QED BY <2>2, <2>3, <2>4
<1> DEFINE h == SubSeq(target, 1, n)
<1>7. /\ h \in Path /\ Len(h) = n /\ (\A i \in 1..n : h[i] = target[i])
      /\ SubSeq(base, 1, b - k) = h
  <2>1. h \in Path /\ Len(h) = n /\ \A i \in 1..n : h[i] = target[i]
    <3>1. 1 \in 1..(l + 1) /\ n \in (1 - 1)..l
      BY <1>1, <1>2
    <3>2. h \in Path /\ Len(h) = n - 1 + 1 /\ \A i \in 1..(n - 1 + 1) : h[i] = target[1 + i - 1]
      BY <1>1, <3>1, SubPath DEF l
    <3> HIDE DEF h
    <3> QED BY <1>2, <3>2
  <2> HIDE DEF k
  <2> QED BY <1>2, <1>4, <2>1
<1>8. h \o t = target
  <2> HIDE DEF h, t
  <2>1. h \o t \in Path /\ Len(h \o t) = Len(h) + Len(t)
          /\ \A i \in 1..(Len(h) + Len(t)) : (h \o t)[i] = IF i <= Len(h) THEN h[i] ELSE t[i - Len(h)]
    <3>1. h \in Path /\ t \in Path
      BY <1>6, <1>7
    <3> QED BY <3>1, ConcatElements, Zenon
  <2>2. Len(h \o t) = l
    BY <1>1, <1>2, <1>6, <1>7, <2>1
  <2>3. ASSUME NEW i \in 1..l PROVE (h \o t)[i] = target[i]
    <3>1. CASE i <= n
      <4>1. i \in 1..n /\ i \in 1..(Len(h) + Len(t)) /\ i <= Len(h)
        BY <1>1, <1>2, <1>6, <1>7, <3>1
      <4>2. (h \o t)[i] = h[i]
        BY <2>1, <4>1
      <4> QED BY <1>7, <4>1, <4>2
    <3>2. CASE ~(i <= n)
      <4>1. (h \o t)[i] = t[i - n] /\ i - n \in 1..(l - n) /\ n + (i - n) = i
        BY <1>1, <1>2, <1>6, <1>7, <2>1, <3>2
      <4>2. t[i - n] = target[n + (i - n)]
        BY <1>6, <4>1
      <4> QED BY <4>1, <4>2
    <3> QED BY <3>1, <3>2
  <2> QED BY <1>1, <2>1, <2>2, <2>3, PathsEqual DEF l
<1>9. P!Clean(base \o r) = target
  <2>1. P!Clean(base \o u) = h
    <3> HIDE DEF k, h
    <3>1. P!Clean(base \o u) = SubSeq(base, 1, Len(base) - k)
      BY <1>4, RootedClimbsUp DEF b
    <3> QED BY <1>7, <3>1 DEF b
  <2> HIDE DEF u, t, h
  <2>2. base \o r = (base \o u) \o t /\ base \o u \in Path
    <3>1. base \in Path /\ u \in Path /\ t \in Path
      BY <1>1, <1>5, <1>6
    <3>2. (base \o u) \o t = base \o (u \o t)
      BY <3>1, ConcatConcat, Zenon
    <3>3. base \o u \in Path
      BY <3>1, ConcatType, Zenon
    <3> QED BY <1>3, <3>2, <3>3
  <2>3. P!Clean((base \o u) \o t) = P!Clean(P!Clean(base \o u) \o t)
    BY <1>6, <2>2, CleanLeft
  <2> QED BY <1>8, <2>1, <2>2, <2>3, RootedIsClean
<1>10. r \in Path /\ Len(r) = k + (l - n) /\ \A i \in 1..Len(r) : r[i] = IF i <= k THEN P!Up ELSE target[n + (i - k)]
  <2> HIDE DEF u, t, k
  <2>1. u \o t \in Path /\ Len(u \o t) = Len(u) + Len(t)
          /\ \A i \in 1..(Len(u) + Len(t)) : (u \o t)[i] = IF i <= Len(u) THEN u[i] ELSE t[i - Len(u)]
    <3>1. u \in Path /\ t \in Path
      BY <1>5, <1>6
    <3> QED BY <3>1, ConcatElements, Zenon
  <2>2. ASSUME NEW i \in 1..Len(r) PROVE r[i] = IF i <= k THEN P!Up ELSE target[n + (i - k)]
    <3>1. i \in 1..(k + (l - n)) /\ r[i] = IF i <= k THEN u[i] ELSE t[i - k]
      BY <1>3, <1>5, <1>6, <2>1
    <3>2. i <= k => i \in 1..k
      BY <1>4, <3>1
    <3>3. ~(i <= k) => i - k \in 1..(l - n)
      BY <1>1, <1>2, <1>4, <3>1
    <3> QED BY <1>5, <1>6, <3>1, <3>2, <3>3
  <2> QED BY <1>3, <1>5, <1>6, <2>1, <2>2
<1>11. \A j \in (n + 1)..l : target[j] \notin Special
  BY <1>1, <1>2 DEF Rooted, l
<1> DEFINE e == r[1]
<1>12. r = <<>> <=> k = 0 /\ l = n
  <2> HIDE DEF k
  <2> QED BY <1>1, <1>2, <1>4, <1>10, PathFacts
<1>13. ASSUME k > 0 PROVE r # <<>> /\ e = P!Up
  <2> HIDE DEF k
  <2> QED BY <1>1, <1>2, <1>4, <1>10, <1>12, <1>13
<1>14. ASSUME k = 0, l # n PROVE r # <<>> /\ e = target[n + 1] /\ n + 1 \in (n + 1)..l
  <2> HIDE DEF k
  <2> QED BY <1>1, <1>2, <1>4, <1>10, <1>12, <1>14
<1>15. ~P!IsAbs(r) /\ r # P!NoPath
  <2> HIDE DEF k
  <2> SUFFICES ASSUME r # <<>> PROVE e # P!Root /\ e # ""
    <3>1. ASSUME r = P!NoPath PROVE r # <<>> /\ e = ""
      BY <3>1 DEF P!NoPath
    <3>2. ASSUME P!IsAbs(r) PROVE r # <<>> /\ e = P!Root
      BY <3>2 DEF P!IsAbs
    <3> QED BY <3>1, <3>2
  <2>1. CASE k > 0
    BY <1>13, <2>1 DEF P!Up, P!Root
  <2>2. CASE k = 0 /\ l # n
    BY <1>11, <1>14, <2>2 DEF Special, Dots
  <2>3. k = 0 \/ k > 0
    BY <1>4
  <2> QED BY <1>12, <2>1, <2>2, <2>3, Zenon
<1>16. P!StartsWithDots(r) <=> k > 0 \/ (l > n /\ target[n + 1] = "..x")
  <2> HIDE DEF k
  <2>1. CASE k > 0
    <3>1. r # <<>> /\ r[1] = P!Up
      BY <1>13, <2>1
    <3>2. P!StartsWithDots(r)
      BY <3>1 DEF P!StartsWithDots
    <3> QED BY <2>1, <3>2, Zenon
  <2>2. CASE k = 0 /\ l # n
    <3>1. l > n
      BY <1>1, <1>2, <2>2
    <3> QED BY <1>11, <1>14, <2>2, <3>1 DEF P!StartsWithDots, Special
  <2>3. CASE k = 0 /\ l = n
    BY <1>12, <2>3, <1>1, <1>2 DEF P!StartsWithDots
  <2> QED BY <1>4, <2>1, <2>2, <2>3
<1>17. P!StartsWithDots(r) <=> ~P!IsPrefix(base, target) \/ (l > b /\ target[b + 1] = "..x")
  <2>1. k > 0 <=> n # b
    BY <1>1, <1>2 DEF b
  <2> HIDE DEF k
  <2>2. CASE n = b
    BY <1>2, <1>16, <2>1, <2>2
  <2>3. CASE n # b
    BY <1>2, <1>16, <2>1, <2>3, Zenon
  <2> QED BY <2>2, <2>3
<1> QED BY <1>9, <1>10, <1>15, <1>17 DEF Leads, r, b, l

-----------------------------------------------------------------------------
(* A path that does not begin with the root does not have it.              *)
LEMMA GivenIsRelative ==
  \A p : Given(p) /\ ~P!IsAbs(p) => Relative(p)
<1> SUFFICES ASSUME NEW p, Given(p), ~P!IsAbs(p) PROVE Relative(p)
  OBVIOUS
<1>1. p \in Path /\ Len(p) \in Nat /\ (p = <<>> <=> Len(p) = 0)
  BY PathFacts DEF Given
<1>2. ASSUME NEW i \in 1..Len(p) PROVE p[i] # P!Root
  <2>1. CASE i = 1
    <3>1. p # <<>>
      BY <1>1
    <3> QED BY <2>1, <3>1 DEF P!IsAbs
  <2>2. CASE i # 1
    <3>1. i \in 2..Len(p)
      BY <1>1, <2>2
    <3> QED BY <3>1 DEF Given
  <2> QED BY <2>1, <2>2
<1> QED BY <1>1, <1>2 DEF Relative

(* A path means an absolute one.                                           *)
LEMMA MeantIsRooted ==
  ASSUME NEW execRoot, Rooted(execRoot), NEW wd, Relative(wd), NEW p, Given(p)
  PROVE  /\ Rooted(P!Join(execRoot, wd)) /\ Rooted(P!Meant(execRoot, wd, p))
         /\ P!IsAbs(p) => P!Meant(execRoot, wd, p) = P!Clean(p)
         /\ ~P!IsAbs(p) => P!Meant(execRoot, wd, p) = P!Clean(execRoot \o wd \o p)
         /\ \A q \in Path : P!Clean(P!Join(execRoot, wd) \o q) = P!Clean(execRoot \o wd \o q)
<1>1. execRoot \in Path /\ wd \in Path /\ p \in Path /\ execRoot \o wd \in Path
  BY ConcatType DEF Rooted, Relative, Given
<1>2. Rooted(P!Join(execRoot, wd))
  BY CleanRooted DEF P!Join
<1>3. \A q \in Path : P!Clean(P!Join(execRoot, wd) \o q) = P!Clean(execRoot \o wd \o q)
  BY <1>1, CleanLeft, Zenon DEF P!Join
<1>4. CASE P!IsAbs(p)
  <2>1. Rooted(P!Clean(p))
    BY <1>1, <1>4, AbsoluteIsRooted DEF Given
  <2> QED BY <1>2, <1>3, <1>4, <2>1 DEF P!Meant
<1>5. CASE ~P!IsAbs(p)
  <2>1. Rooted(P!Clean(P!Join(execRoot, wd) \o p))
    BY <1>2, <1>5, GivenIsRelative, CleanRooted
  <2>2. Rooted(P!Clean(execRoot \o wd \o p))
    BY <1>1, <1>3, <2>1
  <2> QED BY <1>2, <1>3, <1>5, <2>2 DEF P!Meant
<1> QED BY <1>4, <1>5

(* The translations of a path name the file it meant.                      *)
LEMMA TranslationKeepsFile ==
  ASSUME NEW execRoot, Rooted(execRoot), NEW wd, Relative(wd), NEW p, Given(p)
  PROVE  P!TranslationKeepsFile(execRoot, wd, p)
<1> DEFINE meant == P!Meant(execRoot, wd, p)
           rp == P!RelToExecRoot(execRoot, wd, p)
           r == P!Rel(execRoot, meant)
           dir == P!Join(execRoot, wd)
           w == P!Rel(dir, meant)
           dotted == Len(meant) > Len(execRoot) /\ meant[Len(execRoot) + 1] = "..x"
<1>1. /\ Rooted(dir) /\ Rooted(meant) /\ (P!IsAbs(p) => meant = P!Clean(p))
      /\ \A q \in Path : P!Clean(dir \o q) = P!Clean(execRoot \o wd \o q)
  BY MeantIsRooted
<1>2. rp = IF p = <<>> \/ P!StartsWithDots(r) THEN P!NoPath ELSE r
  BY DEF P!RelToExecRoot, P!Meant, P!Outside
<1> HIDE DEF meant, dir
<1>3. /\ r \in Path /\ ~P!IsAbs(r) /\ r # P!NoPath /\ P!Clean(execRoot \o r) = meant
      /\ P!StartsWithDots(r) <=> ~P!IsPrefix(execRoot, meant) \/ dotted
  <2>1. Leads(r, execRoot, meant)
    BY <1>1, RelLeads
  <2> QED BY <2>1, Zenon DEF Leads
<1>4. w \in Path /\ ~P!IsAbs(w) /\ P!Clean(dir \o w) = meant
  <2>1. Leads(w, dir, meant)
    BY <1>1, RelLeads
  <2> QED BY <2>1, Zenon DEF Leads
<1>5. P!Clean(execRoot \o wd \o w) = meant
  BY <1>1, <1>4
<1> HIDE DEF r, w, rp, dotted
<1>6. P!Meant(execRoot, wd, w) = meant
  BY <1>4, <1>5 DEF P!Meant
<1>7. p # <<>> => (rp = P!NoPath <=> ~P!IsPrefix(execRoot, meant) \/ dotted)
  BY <1>2, <1>3
<1>8. ASSUME rp # P!NoPath
      PROVE  P!Clean(execRoot \o rp) = meant /\ P!Clean(execRoot \o wd \o P!RelToWorkingDir(execRoot, wd, rp)) = meant
  <2>1. rp = r
    BY <1>2, <1>8
  <2>2. P!RelToWorkingDir(execRoot, wd, r) = w
    BY <1>3 DEF P!RelToWorkingDir, P!Join, w, dir
  <2> QED BY <1>3, <1>5, <2>1, <2>2
<1>9. P!IsAbs(p) => P!RelToWorkingDir(execRoot, wd, p) = w /\ P!CleanIncludePath(execRoot, wd, p) = w
  BY <1>1 DEF P!RelToWorkingDir, P!CleanIncludePath, w, dir
<1>10. P!Meant(execRoot, wd, P!RewriteEnvironmentVariable(execRoot, wd, p)) = meant
  BY <1>6, <1>9 DEF P!RewriteEnvironmentVariable, meant
<1>11. P!Meant(execRoot, wd, P!CleanIncludePath(execRoot, wd, p)) = meant
  <2>1. ~P!IsAbs(p) => P!CleanIncludePath(execRoot, wd, p) = p
    BY DEF P!CleanIncludePath
  <2> QED BY <1>6, <1>9, <2>1 DEF meant
<1> QED BY <1>7, <1>8, <1>10, <1>11, Zenon DEF P!TranslationKeepsFile, meant, rp, dotted

(* VirtualInputs: the directory that a path leads to, and no other.        *)
LEMMA VirtualInputLeads ==
  ASSUME NEW execRoot, Rooted(execRoot), NEW wd, Relative(wd), NEW p, Given(p)
  PROVE  {P!Clean(execRoot \o v) : v \in P!VirtualInputs(execRoot, wd, p)} = {P!Meant(execRoot, wd, p)}
<1> DEFINE meant == P!Meant(execRoot, wd, p)
           dir == P!Join(execRoot, wd)
           given == IF P!IsAbs(p) THEN P!Rel(dir, P!Clean(p)) ELSE p
           j == P!Join(wd, given)
<1>1. /\ Rooted(dir) /\ Rooted(meant) /\ (P!IsAbs(p) => meant = P!Clean(p))
      /\ (~P!IsAbs(p) => meant = P!Clean(execRoot \o wd \o p))
      /\ \A q \in Path : P!Clean(dir \o q) = P!Clean(execRoot \o wd \o q)
  BY MeantIsRooted
<1>2. execRoot \in Path /\ wd \in Path /\ p \in Path
  BY DEF Rooted, Relative, Given
<1> HIDE DEF meant, dir
<1>3. given \in Path /\ P!Clean(execRoot \o wd \o given) = meant
  <2>1. CASE P!IsAbs(p)
    <3>1. given = P!Rel(dir, meant)
      BY <1>1, <2>1
    <3>2. Leads(P!Rel(dir, meant), dir, meant)
      BY <1>1, RelLeads
    <3> HIDE DEF given
    <3>3. given \in Path /\ P!Clean(dir \o given) = meant
      BY <3>1, <3>2 DEF Leads
    <3> QED BY <1>1, <3>3
  <2>2. CASE ~P!IsAbs(p)
    BY <1>1, <1>2, <2>2
  <2> QED BY <2>1, <2>2
<1> HIDE DEF given
<1>4. wd \o given \in Path /\ j \in Path /\ Normal(j) /\ P!Clean(j) = j
  BY <1>2, <1>3, ConcatType, CleanOfAppend, CleanIsNormal, NormalIsClean DEF P!Join
<1>5. P!Clean(execRoot \o j) = meant
  <2>1. P!Clean(execRoot \o P!Clean(wd \o given)) = P!Clean(execRoot \o (wd \o given))
    BY <1>2, <1>4, CleanRight, Zenon
  <2>2. execRoot \o (wd \o given) = execRoot \o wd \o given
    BY <1>2, <1>3, ConcatConcat
  <2> QED BY <1>3, <2>1, <2>2 DEF P!Join
<1> HIDE DEF j
<1>6. ASSUME NEW i \in 1..Len(j) PROVE ~P!Leaves(j, i)
  <2>1. j[i] = P!Up => i = 1 \/ j[i - 1] = P!Up
    BY <1>4 DEF Normal
  <2>2. CASE i = 1
    BY <2>2 DEF P!Leaves
  <2>3. CASE j[i - 1] = P!Up
    BY <2>3, Zenon DEF P!Leaves
  <2>4. CASE j[i] # P!Up
    BY <2>4, Zenon DEF P!Leaves
  <2> QED BY <2>1, <2>2, <2>3, <2>4
<1>7. P!ExtractVirtualSubdirectories(j) = {j}
  BY <1>4, <1>6 DEF P!ExtractVirtualSubdirectories
<1>8. P!VirtualInputs(execRoot, wd, p) = {j}
  BY <1>7 DEF P!VirtualInputs, j, given, dir
<1> QED BY <1>5, <1>8 DEF meant

(* toRemoteWorkingDir: a path that climbs out of the working directory     *)
(* leads to the same place from every directory of its depth.  It does    *)
(* not depend on the one that it climbs out of.                            *)
LEMMA ClimbsOut ==
  ASSUME NEW execRoot, Rooted(execRoot), NEW w, Plain(w), NEW p \in Path,
         \A i \in 1..Len(w) : i <= Len(P!Clean(p)) /\ P!Clean(p)[i] = P!Up
  PROVE  P!Clean(execRoot \o w \o p)
           = P!Clean(execRoot \o SubSeq(P!Clean(p), Len(w) + 1, Len(P!Clean(p))))
<1> DEFINE c == P!Clean(p)
           k == Len(w)
           l == Len(c)
           t == SubSeq(c, k + 1, l)
           a == execRoot \o w
           b == Len(execRoot)
<1>1. /\ c \in Path /\ l \in Nat /\ k \in Nat /\ w \in Path /\ a \in Path /\ execRoot \in Path /\ b \in Nat \ {0}
      /\ Len(a) = b + k /\ \A i \in 1..(b + k) : a[i] = IF i <= b THEN execRoot[i] ELSE w[i - b]
  <2>1. c \in Path /\ w \in Path /\ execRoot \in Path
    BY CleanOfAppend DEF Plain, Rooted
  <2>2. l \in Nat /\ k \in Nat /\ b \in Nat \ {0}
    BY <2>1, PathFacts DEF Rooted
  <2>3. /\ a \in Path /\ Len(a) = b + k
        /\ \A i \in 1..(b + k) : a[i] = IF i <= b THEN execRoot[i] ELSE w[i - b]
    BY <2>1, ConcatElements, Zenon
  <2> QED BY <2>1, <2>2, <2>3
<1>2. k <= l
  <2>1. CASE k = 0
    BY <1>1, <2>1
  <2>2. CASE k # 0
    <3>1. k \in 1..k
      BY <1>1, <2>2
    <3> QED BY <3>1
  <2> QED BY <2>1, <2>2
<1>3. \A i \in 1..k : c[i] = P!Up
  OBVIOUS
<1> HIDE DEF c, k, l, a, b
<1>4. Rooted(a)
  <2>1. a[1] = P!Root /\ Len(a) >= 1
    BY <1>1 DEF Rooted
  <2>2. ASSUME NEW i \in 2..Len(a) PROVE a[i] \notin Special
    <3>1. CASE i <= b
      <4>1. i \in 2..b /\ a[i] = execRoot[i]
        BY <1>1, <3>1
      <4> QED BY <4>1 DEF Rooted, b
    <3>2. CASE ~(i <= b)
      <4>1. i - b \in 1..k /\ a[i] = w[i - b]
        BY <1>1, <3>2
      <4> QED BY <4>1 DEF Plain, k
    <3> QED BY <3>1, <3>2
  <2> QED BY <1>1, <2>1, <2>2 DEF Rooted
<1>5. t \in Path /\ Len(t) = l - k /\ \A i \in 1..(l - k) : t[i] = c[k + i]
  <2>1. k + 1 \in 1..(l + 1) /\ l \in ((k + 1) - 1)..l
    BY <1>1, <1>2
  <2>2. /\ t \in Path /\ Len(t) = l - (k + 1) + 1
        /\ \A i \in 1..(l - (k + 1) + 1) : t[i] = c[(k + 1) + i - 1]
    BY <1>1, <2>1, SubPath DEF l
  <2> HIDE DEF t
  <2>3. l - (k + 1) + 1 = l - k
    BY <1>1
  <2>4. ASSUME NEW i \in 1..(l - k) PROVE t[i] = c[k + i]
    <3>1. (k + 1) + i - 1 = k + i
      BY <1>1
    <3>2. t[i] = c[(k + 1) + i - 1]
      BY <2>2, <2>3
    <3> QED BY <3>1, <3>2
  <2> QED BY <2>2, <2>3, <2>4
<1>6. c = Ups(k) \o t
  <2> HIDE DEF t
  <2> DEFINE u == Ups(k)
  <2>1. u \in Path /\ Len(u) = k /\ \A i \in 1..k : u[i] = P!Up
    <3>1. u \in Path /\ Len(u) = k
      BY <1>1, UpsFacts
    <3> QED BY <3>1 DEF Ups
  <2> HIDE DEF u
  <2>2. u \o t \in Path /\ Len(u \o t) = Len(u) + Len(t)
          /\ \A i \in 1..(Len(u) + Len(t)) : (u \o t)[i] = IF i <= Len(u) THEN u[i] ELSE t[i - Len(u)]
    <3>1. u \in Path /\ t \in Path
      BY <1>5, <2>1
    <3> QED BY <3>1, ConcatElements, Zenon
  <2>3. Len(u \o t) = l
    BY <1>1, <1>2, <1>5, <2>1, <2>2
  <2>4. ASSUME NEW i \in 1..l PROVE c[i] = (u \o t)[i]
    <3>1. CASE i <= k
      <4>1. i \in 1..k /\ i \in 1..(Len(u) + Len(t)) /\ i <= Len(u)
        BY <1>1, <1>2, <1>5, <2>1, <3>1
      <4>2. (u \o t)[i] = u[i]
        BY <2>2, <4>1
      <4> QED BY <1>3, <2>1, <4>1, <4>2
    <3>2. CASE ~(i <= k)
      <4>1. (u \o t)[i] = t[i - k] /\ i - k \in 1..(l - k) /\ k + (i - k) = i
        BY <1>1, <1>2, <1>5, <2>1, <2>2, <3>2
      <4>2. t[i - k] = c[k + (i - k)]
        BY <1>5, <4>1
      <4> QED BY <4>1, <4>2
    <3> QED BY <3>1, <3>2
  <2>5. c = u \o t
    BY <1>1, <2>2, <2>3, <2>4, PathsEqual DEF l
  <2> QED BY <2>5 DEF u
<1>7. P!Clean(a \o Ups(k)) = execRoot
  <2>1. k \in 0..(Len(a) - 1) /\ Len(a) - k = b
    BY <1>1
  <2>2. P!Clean(a \o Ups(k)) = SubSeq(a, 1, b)
    BY <1>4, <2>1, RootedClimbsUp
  <2> DEFINE s == SubSeq(a, 1, b)
  <2>3. s \in Path /\ Len(s) = b /\ \A i \in 1..b : s[i] = a[i]
    BY <1>1 DEF Path
  <2> HIDE DEF s
  <2>4. s = execRoot
    BY <1>1, <2>3, PathsEqual DEF b
  <2> QED BY <2>2, <2>4 DEF s
<1> HIDE DEF t
<1>8. P!Clean(a \o c) = P!Clean(execRoot \o t)
  <2>1. Ups(k) \in Path /\ a \o Ups(k) \in Path
    BY <1>1, UpsFacts, ConcatType
  <2>2. a \o c = (a \o Ups(k)) \o t
    <3>1. (a \o Ups(k)) \o t = a \o (Ups(k) \o t)
      <4>1. a \in Path /\ Ups(k) \in Path /\ t \in Path
        BY <1>1, <1>5, <2>1
      <4> QED BY <4>1, ConcatConcat, Zenon
    <3> QED BY <1>6, <3>1
  <2>3. P!Clean(P!Clean(a \o Ups(k)) \o t) = P!Clean((a \o Ups(k)) \o t)
    BY <1>5, <2>1, CleanLeft, Zenon
  <2> QED BY <1>7, <2>2, <2>3
<1>9. P!Clean(a \o c) = P!Clean(a \o p)
  BY <1>1, CleanRight DEF c
<1> QED BY <1>8, <1>9 DEF a, c, t, k, l

(* Path translation: whatever path a request, a flag or an environment     *)
(* variable has, its translations name the file it meant, and an include   *)
(* path has the directory it meant as its virtual input, for any exec root *)
(* and working directory.                                                  *)
THEOREM PathsNameTheirFile ==
  ASSUME NEW execRoot, Rooted(execRoot), NEW wd, Plain(wd) \/ wd = <<".">>, NEW p, Given(p)
  PROVE  P!PathsKeepTheirFile(execRoot, wd, p)
<1> DEFINE meant == P!Meant(execRoot, wd, p)
           climbs == \A i \in 1..Len(P!Clean(wd)) : i <= Len(P!Clean(p)) /\ P!Clean(p)[i] = P!Up
           rwd == P!ToRemoteWorkingDir(wd)
<1>1. Relative(wd)
  <2>1. CASE wd = <<".">>
    <3>1. wd \in Path /\ Len(wd) = 1 /\ wd[1] = "."
      BY <2>1 DEF Path, Element
    <3>2. \A i \in 1..Len(wd) : wd[i] # P!Root
      BY <3>1 DEF P!Root
    <3> QED BY <3>1, <3>2 DEF Relative
  <2>2. CASE Plain(wd)
    BY <2>2 DEF Plain, Relative, Special
  <2> QED BY <2>1, <2>2
<1>2. P!TranslationKeepsFile(execRoot, wd, p)
  BY <1>1, TranslationKeepsFile
<1>3. {P!Clean(execRoot \o v) : v \in P!VirtualInputs(execRoot, wd, p)} = {meant}
  BY <1>1, VirtualInputLeads
<1>4. ASSUME ~P!IsAbs(p), climbs PROVE P!Clean(execRoot \o rwd \o p) = meant
  <2>1. meant = P!Clean(execRoot \o wd \o p)
    BY <1>1, <1>4, MeantIsRooted
  <2>2. CASE wd \in {<<>>, <<".">>}
    BY <2>1, <2>2 DEF P!ToRemoteWorkingDir
  <2>3. CASE wd \notin {<<>>, <<".">>}
    <3>1. Plain(wd) /\ wd \in Path /\ Len(wd) \in Nat /\ p \in Path
      BY <2>3, PathFacts DEF Plain, Given
    <3>2. P!Clean(wd) = wd
      <4>1. Normal(wd)
        BY <3>1 DEF Normal, Plain, Special
      <4> QED BY <3>1, <4>1, NormalIsClean
    <3>3. rwd = [i \in 1..Len(wd) |-> IF i = 1 THEN "set_by_reclient" ELSE "a"]
      BY <2>3, <3>2 DEF P!ToRemoteWorkingDir, P!Depth
    <3>4. Len(rwd) = Len(wd) /\ Plain(rwd)
      <4>1. "set_by_reclient" \in Element \ Special /\ "a" \in Element \ Special
        BY DEF Element, Special, Dots, P!Up, P!Root
      <4>2. rwd \in Seq(Element) /\ Len(rwd) = Len(wd) /\ \A i \in 1..Len(rwd) : rwd[i] \in Element \ Special
        BY <3>1, <3>3, <4>1
      <4> QED BY <4>2 DEF Plain, Path
    <3> HIDE DEF rwd
    <3> DEFINE c == P!Clean(p)
    <3>5. \A i \in 1..Len(wd) : i <= Len(c) /\ c[i] = P!Up
      BY <1>4, <3>2
    <3>6. P!Clean(execRoot \o wd \o p) = P!Clean(execRoot \o SubSeq(c, Len(wd) + 1, Len(c)))
      BY <3>1, <3>5, ClimbsOut
    <3>7. P!Clean(execRoot \o rwd \o p) = P!Clean(execRoot \o SubSeq(c, Len(rwd) + 1, Len(c)))
      BY <3>1, <3>4, <3>5, ClimbsOut
    <3> QED BY <2>1, <3>4, <3>6, <3>7
  <2> QED BY <2>2, <2>3
<1> QED BY <1>2, <1>3, <1>4 DEF P!PathsKeepTheirFile


(* saveDeps: the deps cache gets the files of the scan that are under the  *)
(* exec root, each under the name that it has for the scanner, whatever    *)
(* was scanned and however it was spelled.                                 *)
THEOREM DepsSavedAreScanned ==
  ASSUME NEW execRoot, Rooted(execRoot), NEW wd, Relative(wd),
         NEW scanned, \A p \in scanned : Given(p) /\ p # <<>>
  PROVE  P!SavedDepsAreScanned(execRoot, wd, scanned)
<1> DEFINE dir == P!Join(execRoot, wd)
           rel(p) == P!RelToExecRoot(execRoot, wd, p)
           file(p) == P!Absolute(dir, p)
           under(f) == P!IsPrefix(execRoot, f) /\ ~(Len(f) > Len(execRoot) /\ f[Len(execRoot) + 1] = "..x")
<1>1. ASSUME NEW p \in scanned
      PROVE  /\ rel(p) = P!NoPath <=> ~under(file(p))
             /\ rel(p) # P!NoPath => P!Absolute(execRoot, rel(p)) = file(p)
  <2> DEFINE meant == P!Meant(execRoot, wd, p)
             r == P!Rel(execRoot, meant)
             rp == P!RelToExecRoot(execRoot, wd, p)
  <2>1. Given(p) /\ p # <<>> /\ p \in Path
    BY DEF Given
  <2>2. /\ Rooted(meant) /\ (P!IsAbs(p) => meant = P!Clean(p))
        /\ (~P!IsAbs(p) => meant = P!Clean(execRoot \o wd \o p))
        /\ \A q \in Path : P!Clean(dir \o q) = P!Clean(execRoot \o wd \o q)
    BY <2>1, MeantIsRooted
  <2>3. rp = IF P!StartsWithDots(r) THEN P!NoPath ELSE r
    BY <2>1 DEF P!RelToExecRoot, P!Meant, P!Outside
  <2> HIDE DEF meant, dir, rp
  <2>4. file(p) = meant
    <3>1. CASE P!IsAbs(p)
      BY <2>2, <3>1 DEF P!Absolute
    <3>2. CASE ~P!IsAbs(p)
      BY <2>1, <2>2, <3>2 DEF P!Absolute, P!Join
    <3> QED BY <3>1, <3>2
  <2>5. /\ ~P!IsAbs(r) /\ r # P!NoPath /\ P!Clean(execRoot \o r) = meant
        /\ P!StartsWithDots(r) <=> ~under(meant)
    <3>1. Leads(r, execRoot, meant)
      BY <2>2, RelLeads
    <3> QED BY <3>1, Zenon DEF Leads
  <2> HIDE DEF r, under
  <2>6. rp = P!NoPath <=> ~under(meant)
    BY <2>3, <2>5
  <2>7. ASSUME rp # P!NoPath PROVE P!Absolute(execRoot, rp) = meant
    <3>1. rp = r
      BY <2>3, <2>7
    <3> QED BY <2>5, <3>1 DEF P!Absolute, P!Join
  <2> HIDE DEF file
  <2> QED BY <2>4, <2>6, <2>7 DEF rp
<1> HIDE DEF rel, file, under
<1>2. {P!Absolute(execRoot, d) : d \in {rel(p) : p \in scanned} \ {P!NoPath}}
        = {f \in {file(p) : p \in scanned} : under(f)}
  BY <1>1
<1> QED BY <1>2 DEF P!SavedDepsAreScanned, P!SaveDeps, P!ListRelToExecRoot, rel, file, under

-----------------------------------------------------------------------------
(* What a path begins with                                                 *)

(* What a path starts with, element by element.                            *)
Begins(q, v) == Len(q) <= Len(v) /\ \A i \in 1..Len(q) : q[i] = v[i]
(* That is what IsPrefix says.                                             *)
LEMMA BeginsIsPrefix ==
  \A q, v \in Path : Begins(q, v) => P!IsPrefix(q, v)
<1> SUFFICES ASSUME NEW q \in Path, NEW v \in Path, Begins(q, v) PROVE P!IsPrefix(q, v)
  OBVIOUS
<1> DEFINE n == Len(q)  x == SubSeq(q, 1, n)  y == SubSeq(v, 1, n)
<1>1. n \in Nat /\ Len(v) \in Nat /\ n <= Len(v) /\ \A i \in 1..n : q[i] = v[i]
  BY PathFacts DEF Begins
<1> HIDE DEF n
<1>2. x \in Path /\ Len(x) = n - 1 + 1 /\ \A i \in 1..(n - 1 + 1) : x[i] = q[1 + i - 1]
  <2>1. 1 \in 1..(Len(q) + 1) /\ n \in (1 - 1)..Len(q)
    BY <1>1 DEF n
  <2> QED BY <2>1, SubPath
<1>3. y \in Path /\ Len(y) = n - 1 + 1 /\ \A i \in 1..(n - 1 + 1) : y[i] = v[1 + i - 1]
  <2>1. 1 \in 1..(Len(v) + 1) /\ n \in (1 - 1)..Len(v)
    BY <1>1
  <2> QED BY <2>1, SubPath
<1> HIDE DEF x, y
<1>4. x = y
  <2>1. Len(x) = Len(y)
    BY <1>2, <1>3
  <2>2. ASSUME NEW i \in 1..Len(x) PROVE x[i] = y[i]
    <3>1. i \in 1..n /\ 1 + i - 1 = i /\ i \in 1..(n - 1 + 1)
      BY <1>1, <1>2
    <3> QED BY <1>1, <1>2, <1>3, <3>1
  <2> QED BY <1>2, <1>3, <2>1, <2>2, PathsEqual
<1> QED BY <1>1, <1>4 DEF P!IsPrefix, x, y, n

-----------------------------------------------------------------------------
(* clang-cl: the greatest version                                          *)


(* version.gt is a strict order, and a total one.                          *)
LEMMA GtIsAnOrder ==
  /\ P!Zero \in Version
  /\ \A a \in Version : a # <<>> /\ ~P!Gt(a, a)
  /\ \A a, b \in Version : a = b \/ P!Gt(a, b) \/ P!Gt(b, a)
  /\ \A a, b, c \in Version : P!Gt(a, b) /\ P!Gt(b, c) => P!Gt(a, c)
<1>1. P!Zero \in Version
  BY DEF P!Zero, Version
<1>2. ASSUME NEW a \in Version PROVE Len(a) = 4 /\ a # <<>>
  <2>1. a \in Seq(Nat)
    BY SeqDef DEF Version
  <2>2. Len(a) \in Nat /\ DOMAIN a = 1..Len(a) /\ DOMAIN a = 1..4
    BY <2>1, LenProperties DEF Version
  <2>3. 4 \in 1..Len(a)
    <3>1. 4 \in 1..4
      OBVIOUS
    <3> QED BY <2>2, <3>1, Zenon
  <2>4. Len(a) > 0 => Len(a) \in 1..4
    <3>1. Len(a) > 0 => Len(a) \in 1..Len(a)
      BY <2>2
    <3> QED BY <2>2, <3>1, Zenon
  <2>5. Len(a) = 4
    BY <2>2, <2>3, <2>4
  <2>6. Len(<<>>) = 0
    OBVIOUS
  <2> QED BY <2>5, <2>6
<1>3. ASSUME NEW a \in Version, NEW b \in Version
      PROVE  P!Gt(a, b) <=> \/ a[1] > b[1]
                            \/ a[1] = b[1] /\ a[2] > b[2]
                            \/ a[1] = b[1] /\ a[2] = b[2] /\ a[3] > b[3]
                            \/ a[1] = b[1] /\ a[2] = b[2] /\ a[3] = b[3] /\ a[4] > b[4]
  <2>1. \A k \in 1..4 : k = 1 \/ k = 2 \/ k = 3 \/ k = 4
    OBVIOUS
  <2>2. P!Gt(a, b) <=> \E k \in 1..4 : a[k] > b[k] /\ \A j \in 1..(k - 1) : a[j] = b[j]
    BY <1>2 DEF P!Gt
  <2>3. /\ \A j \in 1..(1 - 1) : FALSE
        /\ \A j \in 1..(2 - 1) : j = 1
        /\ \A j \in 1..(3 - 1) : j = 1 \/ j = 2
        /\ \A j \in 1..(4 - 1) : j = 1 \/ j = 2 \/ j = 3
        /\ 1 \in 1..(2 - 1) /\ 1 \in 1..(3 - 1) /\ 2 \in 1..(3 - 1)
        /\ 1 \in 1..(4 - 1) /\ 2 \in 1..(4 - 1) /\ 3 \in 1..(4 - 1)
    OBVIOUS
  <2>4. ASSUME P!Gt(a, b)
        PROVE  \/ a[1] > b[1]
               \/ a[1] = b[1] /\ a[2] > b[2]
               \/ a[1] = b[1] /\ a[2] = b[2] /\ a[3] > b[3]
               \/ a[1] = b[1] /\ a[2] = b[2] /\ a[3] = b[3] /\ a[4] > b[4]
    <3>1. PICK k \in 1..4 : a[k] > b[k] /\ \A j \in 1..(k - 1) : a[j] = b[j]
      BY <2>2, <2>4
    <3>2. CASE k = 1
      BY <3>1, <3>2
    <3>3. CASE k = 2
      BY <2>3, <3>1, <3>3
    <3>4. CASE k = 3
      BY <2>3, <3>1, <3>4
    <3>5. CASE k = 4
      BY <2>3, <3>1, <3>5
    <3> QED BY <2>1, <3>2, <3>3, <3>4, <3>5
  <2>5. ASSUME a[1] > b[1] PROVE P!Gt(a, b)
    <3>1. 1 \in 1..4 /\ \A j \in 1..(1 - 1) : a[j] = b[j]
      BY <2>3
    <3> QED BY <2>2, <2>5, <3>1
  <2>6. ASSUME a[1] = b[1], a[2] > b[2] PROVE P!Gt(a, b)
    <3>1. 2 \in 1..4 /\ \A j \in 1..(2 - 1) : a[j] = b[j]
      BY <2>3, <2>6
    <3> QED BY <2>2, <2>6, <3>1
  <2>7. ASSUME a[1] = b[1], a[2] = b[2], a[3] > b[3] PROVE P!Gt(a, b)
    <3>1. 3 \in 1..4 /\ \A j \in 1..(3 - 1) : a[j] = b[j]
      BY <2>3, <2>7
    <3> QED BY <2>2, <2>7, <3>1
  <2>8. ASSUME a[1] = b[1], a[2] = b[2], a[3] = b[3], a[4] > b[4] PROVE P!Gt(a, b)
    <3>1. 4 \in 1..4 /\ \A j \in 1..(4 - 1) : a[j] = b[j]
      BY <2>3, <2>8
    <3> QED BY <2>2, <2>8, <3>1
  <2> QED BY <2>4, <2>5, <2>6, <2>7, <2>8
<1>4. \A a \in Version : a[1] \in Nat /\ a[2] \in Nat /\ a[3] \in Nat /\ a[4] \in Nat
  BY DEF Version
<1>5. ASSUME NEW a \in Version PROVE ~P!Gt(a, a)
  BY <1>3, <1>4
<1>6. ASSUME NEW a \in Version, NEW b \in Version, ~P!Gt(a, b), ~P!Gt(b, a) PROVE a = b
  <2>1. a[1] = b[1] /\ a[2] = b[2] /\ a[3] = b[3] /\ a[4] = b[4]
    BY <1>3, <1>4, <1>6
  <2>2. \A k \in 1..4 : k = 1 \/ k = 2 \/ k = 3 \/ k = 4
    OBVIOUS
  <2>3. \A k \in 1..4 : a[k] = b[k]
    BY <2>1, <2>2
  <2> QED BY <2>3 DEF Version
<1>7. ASSUME NEW a \in Version, NEW b \in Version, NEW c \in Version, P!Gt(a, b), P!Gt(b, c) PROVE P!Gt(a, c)
  BY <1>3, <1>4, <1>7
<1> QED BY <1>1, <1>2, <1>5, <1>6, <1>7

(* Zero exceeds nothing.                                                   *)
LEMMA NothingBelowZero == \A a \in Version : ~P!Gt(P!Zero, a)
<1> SUFFICES ASSUME NEW a \in Version, NEW k \in 1..4, P!Zero[k] > a[k] PROVE FALSE
  BY DEF P!Gt, P!Zero
<1>1. \A j \in 1..4 : j = 1 \/ j = 2 \/ j = 3 \/ j = 4
  OBVIOUS
<1>2. P!Zero[k] = 0
  BY <1>1 DEF P!Zero
<1> QED BY <1>2 DEF Version

(* getMaxVersionFromPath is a loop over the names.                         *)
Newer(m, e) == IF e # <<>> /\ P!Gt(e, m) THEN e ELSE m
LEMMA MaxIsALoop ==
  ASSUME NEW q \in Listing
  PROVE  \E g : /\ g[0] = P!Zero /\ P!GetMaxVersionFromPath(q) = g[Len(q)]
                /\ \A i \in 1..Len(q) : g[i] = Newer(g[i - 1], q[i])
<1> DEFINE n == Len(q)
           Rec(f) == [i \in 0..n |-> IF i = 0 THEN P!Zero
                                     ELSE IF q[i] # <<>> /\ P!Gt(q[i], f[i - 1]) THEN q[i] ELSE f[i - 1]]
           step == [i \in 1..n |-> [x \in Version |-> Newer(x, q[i])]]
<1>1. n \in Nat /\ P!Zero \in Version /\ \A i \in 1..n : q[i] \in Version \cup {<<>>}
  BY GtIsAnOrder DEF Listing
<1>2. IsLoop(n, Version, P!Zero, step)
  <2> HIDE DEF n
  <2>1. ASSUME NEW i \in 1..n, NEW x \in Version PROVE Newer(x, q[i]) \in Version
    BY <1>1 DEF Newer
  <2> QED BY <1>1, <2>1 DEF IsLoop
<1>3. PICK f : IsRun(f, n, Version, P!Zero, step)
  <2> HIDE DEF step
  <2> QED BY <1>2, LoopRuns, Zenon
<1>4. f = Rec(f)
  <2> HIDE DEF n
  <2>1. ASSUME NEW i \in 1..n PROVE f[i] = Newer(f[i - 1], q[i])
    <3>1. f[i - 1] \in Version /\ f[i] = step[i][f[i - 1]]
      BY <1>1, <1>3 DEF IsRun
    <3> QED BY <3>1
  <2> QED BY <1>1, <1>3, <2>1 DEF IsRun, Newer
<1> DEFINE g == CHOOSE h : h = Rec(h)
<1>5. g = Rec(g)
  <2> HIDE DEF Rec
  <2> QED BY <1>4
<1>6. P!GetMaxVersionFromPath(q) = g[n]
  BY DEF P!GetMaxVersionFromPath
<1> HIDE DEF g
<1>7. g[0] = P!Zero /\ \A i \in 1..n : g[i] = Newer(g[i - 1], q[i])
  <2> HIDE DEF n
  <2> QED BY <1>1, <1>5 DEF Newer
<1> QED BY <1>6, <1>7

(* getMaxVersionFromPath: the version it returns is one of the directory,  *)
(* and none there is greater, whatever the names and their order.          *)
THEOREM MaxVersionIsFound ==
  \A entries \in Listing : P!MaxVersionFound(entries) /\ P!GetMaxVersionFromPath(entries) \in Version
<1> TAKE q \in Listing
<1> DEFINE n == Len(q)
<1>1. PICK g : /\ g[0] = P!Zero /\ P!GetMaxVersionFromPath(q) = g[Len(q)]
               /\ \A i \in 1..Len(q) : g[i] = Newer(g[i - 1], q[i])
  BY MaxIsALoop
<1>2. n \in Nat /\ \A i \in 1..n : q[i] \in Version \cup {<<>>}
  BY DEF Listing
<1> DEFINE good(i) == /\ g[i] \in Version
                      /\ g[i] # P!Zero => \E j \in 1..n : q[j] = g[i]
                      /\ \A j \in 1..i : q[j] # <<>> => ~P!Gt(q[j], g[i])
           T == {i \in 0..n : good(i)}
<1>3. 0 \in T
  BY <1>1, <1>2, GtIsAnOrder
<1>4. ASSUME NEW i \in 1..n, i - 1 \in T PROVE i \in T
  <2> HIDE DEF n
  <2>1. /\ g[i - 1] \in Version
        /\ g[i - 1] # P!Zero => \E j \in 1..n : q[j] = g[i - 1]
        /\ \A j \in 1..(i - 1) : q[j] # <<>> => ~P!Gt(q[j], g[i - 1])
    BY <1>4
  <2>2. g[i] = Newer(g[i - 1], q[i]) /\ q[i] \in Version \cup {<<>>} /\ i \in 0..n
    BY <1>1, <1>2 DEF n
  <2>3. \A j \in 1..i : j \in 1..(i - 1) \/ j = i
    BY <1>2
  <2>4. CASE q[i] # <<>> /\ P!Gt(q[i], g[i - 1])
    <3>1. g[i] = q[i] /\ g[i] \in Version
      BY <2>2, <2>4 DEF Newer
    <3>2. ASSUME NEW j \in 1..i, q[j] # <<>>, P!Gt(q[j], g[i]) PROVE FALSE
      <4>1. j \in 1..n
        BY <1>2
      <4>2. q[j] \in Version
        BY <1>2, <3>2, <4>1
      <4>3. P!Gt(q[j], g[i - 1])
        BY <2>1, <2>4, <3>1, <3>2, <4>2, GtIsAnOrder
      <4>4. CASE j = i
        BY <3>1, <3>2, <4>4, GtIsAnOrder
      <4>5. CASE j \in 1..(i - 1)
        BY <2>1, <3>2, <4>3, <4>5
      <4> QED BY <2>3, <4>4, <4>5
    <3>3. good(i)
      BY <3>1, <3>2
    <3> QED BY <2>2, <3>3
  <2>5. CASE ~(q[i] # <<>> /\ P!Gt(q[i], g[i - 1]))
    <3>1. g[i] = g[i - 1]
      BY <2>2, <2>5 DEF Newer
    <3>2. ASSUME NEW j \in 1..i, q[j] # <<>> PROVE ~P!Gt(q[j], g[i])
      BY <2>1, <2>3, <2>5, <3>1, <3>2
    <3>3. good(i)
      BY <2>1, <3>1, <3>2
    <3> QED BY <2>2, <3>3
  <2> QED BY <2>4, <2>5
<1>5. n \in T
  <2>1. T \in SUBSET Nat
    BY <1>2
  <2> HIDE DEF T, n
  <2>2. \A i \in 0..n : i \in T
    BY <1>2, <1>3, <1>4, <2>1, InductionUpTo
  <2> QED BY <1>2, <2>2
<1> DEFINE max == P!GetMaxVersionFromPath(q)
<1>6. max = g[n]
  BY <1>1
<1> HIDE DEF max
<1>7. /\ max \in Version /\ (max # P!Zero => \E j \in 1..n : q[j] = max)
      /\ \A j \in 1..n : q[j] # <<>> => ~P!Gt(q[j], max)
  <2> HIDE DEF n
  <2> QED BY <1>5, <1>6
<1> QED BY <1>7 DEF P!MaxVersionFound, P!Contains, max

(* Where the versions in a directory are looked for.                       *)
Name == {"Windows Kits", "Include", "VC", "Tools", "MSVC", ""} \cup Version
Dir == Seq(Name)
(* One name is a path.                                                     *)
LEMMA OneName == \A x \in Name : <<x>> \in Dir
BY DEF Dir
(* A path with one more name is longer.                                    *)
LEMMA LongerDir ==
  \A d \in Dir, x \in Name : Append(d, x) \in Dir /\ (d # <<>> => Append(d, x) # P!NoPath)
<1> TAKE d \in Dir, x \in Name
<1>1. Append(d, x) \in Dir /\ Len(Append(d, x)) = Len(d) + 1 /\ Len(d) \in Nat
  BY AppendProperties, LenProperties DEF Dir
<1>2. d # <<>> => Len(d) # 0
  BY EmptySeq DEF Dir
<1>3. Len(P!NoPath) = 1
  BY DEF P!NoPath
<1> QED BY <1>1, <1>2, <1>3

(* getMaxVersionDir finds the directory of the greatest version, the only  *)
(* one, as far as there is one.                                            *)
LEMMA MaxVersionDirIsBest ==
  ASSUME NEW tree, DOMAIN tree \subseteq Dir, \A d \in DOMAIN tree : tree[d] \in Listing,
         NEW dir \in Dir, dir # <<>>, dir # P!NoPath
  PROVE  /\ P!GetMaxVersionDir(tree, dir) \in Dir
         /\ P!BestIn(tree, {dir}) = {P!GetMaxVersionDir(tree, dir)} \ {P!NoPath}
<1>0. P!NoPath \in Dir
  <2>1. "" \in Name
    BY DEF Name
  <2> QED BY <2>1, OneName, Zenon DEF P!NoPath
<1>1. CASE dir \notin DOMAIN tree
  BY <1>0, <1>1 DEF P!GetMaxVersionDir, P!BestIn
<1>2. CASE dir \in DOMAIN tree
  <2> DEFINE q == tree[dir]
             max == P!GetMaxVersionFromPath(q)
             found == {w \in P!ToSet(q) \ {<<>>, P!Zero} : \A x \in P!ToSet(q) \ {<<>>} : ~P!Gt(x, w)}
             got == P!GetMaxVersionDir(tree, dir)
  <2>1. q \in Listing
    BY <1>2
  <2>2. got = IF max = P!Zero THEN P!NoPath ELSE Append(dir, max)
    BY <1>2 DEF P!GetMaxVersionDir
  <2>3. P!BestIn(tree, {dir}) = {Append(dir, v) : v \in found}
    BY <1>2 DEF P!BestIn, P!Best
  <2> HIDE DEF q, got
  <2>4. max \in Version /\ P!MaxVersionFound(q)
    BY <2>1, MaxVersionIsFound
  <2> HIDE DEF max
  <2>5. (max # P!Zero => max \in P!ToSet(q)) /\ \A x \in P!ToSet(q) : x # <<>> => ~P!Gt(x, max)
    <3>1. DOMAIN q = 1..Len(q)
      BY <2>1 DEF Listing
    <3> QED BY <2>4, <3>1 DEF P!MaxVersionFound, P!Contains, P!ToSet, max
  <2>6. P!ToSet(q) \subseteq Version \cup {<<>>}
    BY <2>1 DEF Listing, P!ToSet
  <2>7. \A w \in found : w = max
    <3> SUFFICES ASSUME NEW w \in found PROVE w = max
      OBVIOUS
    <3>1. w \in Version /\ w \in P!ToSet(q) /\ w # P!Zero /\ w # <<>>
      BY <2>6
    <3>2. ~P!Gt(w, max)
      BY <2>5, <3>1
    <3>3. CASE max = P!Zero
      <4>1. ~P!Gt(max, w)
        BY <3>1, <3>3, NothingBelowZero
      <4> QED BY <2>4, <3>1, <3>2, <4>1, GtIsAnOrder
    <3>4. CASE max # P!Zero
      <4>1. max \in P!ToSet(q) \ {<<>>}
        BY <2>4, <2>5, <3>4, GtIsAnOrder
      <4>2. ~P!Gt(max, w)
        BY <4>1
      <4> QED BY <2>4, <3>1, <3>2, <4>2, GtIsAnOrder
    <3> QED BY <3>3, <3>4
  <2>8. max # P!Zero => max \in found
    BY <2>4, <2>5, GtIsAnOrder
  <2>9. \A w \in found : w # P!Zero
    OBVIOUS
  <2>10. Append(dir, max) \in Dir /\ Append(dir, max) # P!NoPath
    BY <2>4, LongerDir DEF Name
  <2> HIDE DEF found
  <2>11. CASE max = P!Zero
    <3>1. found = {}
      BY <2>7, <2>9, <2>11
    <3> QED BY <1>0, <2>2, <2>3, <2>11, <3>1 DEF got
  <2>12. CASE max # P!Zero
    <3>1. found = {max}
      BY <2>7, <2>8, <2>12
    <3> QED BY <2>2, <2>3, <2>10, <2>12, <3>1 DEF got
  <2> QED BY <2>11, <2>12
<1> QED BY <1>1, <1>2

(* -winsysroot: whatever is in the directory, what is sent of it is the    *)
(* greatest SDK of the greatest kit and the greatest toolchain, and        *)
(* nothing where there is none.                                            *)
THEOREM GreatestSDKIsFound ==
  ASSUME NEW tree, DOMAIN tree \subseteq Dir, \A d \in DOMAIN tree : tree[d] \in Listing
  PROVE  P!SDKFound(tree)
<1> DEFINE kits == <<"Windows Kits">>
           kit == P!GetMaxVersionDir(tree, kits)
           inc == Append(kit, "Include")
           msvc == <<"VC", "Tools", "MSVC">>
<1>1. kits \in Dir /\ kits # <<>> /\ kits # P!NoPath
  <2>1. kits[1] # P!NoPath[1]
    BY DEF P!NoPath
  <2>2. "Windows Kits" \in Name
    BY DEF Name
  <2>3. kits \in Dir
    BY <2>2, OneName, Zenon
  <2> QED BY <2>1, <2>3
<1>2. msvc \in Dir /\ msvc # <<>> /\ msvc # P!NoPath
  <2>1. Len(msvc) # Len(P!NoPath)
    BY DEF P!NoPath
  <2>2. "VC" \in Name /\ "Tools" \in Name /\ "MSVC" \in Name
    BY DEF Name
  <2>3. msvc \in Dir
    BY <2>2 DEF Dir
  <2> QED BY <2>1, <2>3
<1>3. P!VcToolchainDir(tree) = P!GetMaxVersionDir(tree, msvc)
  BY DEF P!VcToolchainDir
<1>4. P!WinSDKDir(tree) = IF kit = P!NoPath THEN P!NoPath ELSE P!GetMaxVersionDir(tree, inc)
  BY DEF P!WinSDKDir
<1> HIDE DEF kits, msvc
<1>5. kit \in Dir /\ P!BestIn(tree, {kits}) = {kit} \ {P!NoPath}
  BY <1>1, MaxVersionDirIsBest
<1>6. P!BestIn(tree, {msvc}) = {P!VcToolchainDir(tree)} \ {P!NoPath}
  BY <1>2, <1>3, MaxVersionDirIsBest
<1> HIDE DEF kit
<1>7. P!BestIn(tree, {Append(k, "Include") : k \in P!BestIn(tree, {kits})}) = {P!WinSDKDir(tree)} \ {P!NoPath}
  <2>1. CASE kit = P!NoPath
    BY <1>4, <1>5, <2>1 DEF P!BestIn
  <2>2. CASE kit # P!NoPath
    <3>1. {Append(k, "Include") : k \in P!BestIn(tree, {kits})} = {inc}
      BY <1>5, <2>2
    <3>2. inc \in Dir /\ inc # <<>> /\ inc # P!NoPath
      <4>0. "Include" \in Name
        BY DEF Name
      <4>1. inc \in Dir /\ Len(inc) = Len(kit) + 1 /\ inc[Len(kit) + 1] = "Include"
        BY <1>5, <4>0, AppendProperties DEF Dir
      <4>2. inc[Len(inc)] = "Include" /\ P!NoPath[1] = "" /\ Len(P!NoPath) = 1
        BY <4>1 DEF P!NoPath
      <4>3. inc # P!NoPath
        <5> HIDE DEF inc
        <5> QED BY <4>2
      <4>4. Len(inc) # 0
        <5>1. Len(kit) \in Nat
          BY <1>5 DEF Dir
        <5> QED BY <4>1, <5>1
      <4>5. inc # <<>>
        <5> HIDE DEF inc
        <5> QED BY <4>4
      <4> QED BY <4>1, <4>3, <4>5
    <3> HIDE DEF inc
    <3>3. P!BestIn(tree, {inc}) = {P!GetMaxVersionDir(tree, inc)} \ {P!NoPath}
      BY <3>2, MaxVersionDirIsBest
    <3> QED BY <1>4, <2>2, <3>1, <3>3 DEF inc
  <2> QED BY <2>1, <2>2
<1>8. P!AppendVirtualInput(tree) = ({P!WinSDKDir(tree)} \ {P!NoPath}) \cup ({P!VcToolchainDir(tree)} \ {P!NoPath})
  BY DEF P!AppendVirtualInput
<1> QED BY <1>6, <1>7, <1>8 DEF P!SDKFound, kits, msvc

-----------------------------------------------------------------------------
(* Plain paths                                                             *)

(* A plain path is clean, and so are two of them put together.             *)
LEMMA PlainIsClean ==
  \A q : Plain(q) => q \in Path /\ P!Clean(q) = q
<1> SUFFICES ASSUME NEW q, Plain(q) PROVE q \in Path /\ P!Clean(q) = q
  OBVIOUS
<1>1. q \in Path /\ Normal(q)
  BY DEF Normal, Plain, Special
<1> QED BY <1>1, NormalIsClean
(* Put together.                                                           *)
LEMMA PlainConcat ==
  \A a, b : Plain(a) /\ Plain(b) => Plain(a \o b)
<1> SUFFICES ASSUME NEW a, Plain(a), NEW b, Plain(b) PROVE Plain(a \o b)
  OBVIOUS
<1>1. a \in Path /\ b \in Path /\ Len(a) \in Nat /\ Len(b) \in Nat
  BY PathFacts DEF Plain
<1>2. /\ a \o b \in Path /\ Len(a \o b) = Len(a) + Len(b)
      /\ \A i \in 1..(Len(a) + Len(b)) : (a \o b)[i] = IF i <= Len(a) THEN a[i] ELSE b[i - Len(a)]
  BY <1>1, ConcatElements, Zenon
<1>3. ASSUME NEW i \in 1..(Len(a) + Len(b)) PROVE (a \o b)[i] \notin Special
  <2>1. CASE i <= Len(a)
    <3>1. i \in 1..Len(a) /\ (a \o b)[i] = a[i]
      BY <1>1, <1>2, <2>1
    <3> QED BY <3>1 DEF Plain
  <2>2. CASE ~(i <= Len(a))
    <3>1. i - Len(a) \in 1..Len(b) /\ (a \o b)[i] = b[i - Len(a)]
      BY <1>1, <1>2, <2>2
    <3> QED BY <3>1 DEF Plain
  <2> QED BY <2>1, <2>2
<1> QED BY <1>2, <1>3 DEF Plain

(* IsPrefix says that a path begins another.                               *)
LEMMA PrefixBegins ==
  \A q, v \in Path : P!IsPrefix(q, v) <=> Begins(q, v)
<1> SUFFICES ASSUME NEW q \in Path, NEW v \in Path, P!IsPrefix(q, v) PROVE Begins(q, v)
  BY BeginsIsPrefix
<1> DEFINE n == Len(q)  x == SubSeq(q, 1, n)  y == SubSeq(v, 1, n)
<1>1. n \in Nat /\ Len(v) \in Nat /\ n <= Len(v) /\ x = y
  BY PathFacts DEF P!IsPrefix
<1> HIDE DEF n
<1>2. \A i \in 1..(n - 1 + 1) : x[i] = q[1 + i - 1]
  <2>1. 1 \in 1..(Len(q) + 1) /\ n \in (1 - 1)..Len(q)
    BY <1>1 DEF n
  <2> QED BY <2>1, SubPath
<1>3. \A i \in 1..(n - 1 + 1) : y[i] = v[1 + i - 1]
  <2>1. 1 \in 1..(Len(v) + 1) /\ n \in (1 - 1)..Len(v)
    BY <1>1
  <2> QED BY <2>1, SubPath
<1> HIDE DEF x, y
<1>4. ASSUME NEW i \in 1..n PROVE q[i] = v[i]
  <2>1. i \in 1..(n - 1 + 1) /\ 1 + i - 1 = i
    BY <1>1
  <2> QED BY <1>1, <1>2, <1>3, <2>1
<1> QED BY <1>1, <1>4 DEF Begins, n

(* In a directory, names differ as they do there, and are under others as  *)
(* they are there.                                                         *)
LEMMA SameInDirectory ==
  \A a, q, d \in Path : /\ a \o q = a \o d => q = d
                        /\ P!Under(a \o q, a \o d) <=> P!Under(q, d)
<1> SUFFICES ASSUME NEW a \in Path, NEW q \in Path, NEW d \in Path
             PROVE  /\ a \o q = a \o d => q = d
                    /\ P!Under(a \o q, a \o d) <=> P!Under(q, d)
  OBVIOUS
<1> DEFINE n == Len(a)  k == Len(q)  l == Len(d)  x == a \o q  y == a \o d
<1>1. n \in Nat /\ k \in Nat /\ l \in Nat
  BY PathFacts
<1>2. x \in Path /\ Len(x) = n + k /\ \A i \in 1..(n + k) : x[i] = IF i <= n THEN a[i] ELSE q[i - n]
  BY ConcatElements, Zenon
<1>3. y \in Path /\ Len(y) = n + l /\ \A i \in 1..(n + l) : y[i] = IF i <= n THEN a[i] ELSE d[i - n]
  BY ConcatElements, Zenon
<1> HIDE DEF n, k, l, x, y
<1>4. ASSUME NEW i \in 1..k PROVE x[n + i] = q[i]
  <2>1. n + i \in 1..(n + k) /\ ~(n + i <= n) /\ (n + i) - n = i
    BY <1>1
  <2> QED BY <1>2, <2>1
<1>5. ASSUME NEW i \in 1..l PROVE y[n + i] = d[i]
  <2>1. n + i \in 1..(n + l) /\ ~(n + i <= n) /\ (n + i) - n = i
    BY <1>1
  <2> QED BY <1>3, <2>1
<1>6. ASSUME x = y PROVE q = d
  <2>1. k = l
    BY <1>1, <1>2, <1>3, <1>6
  <2>2. \A i \in 1..k : q[i] = d[i]
    BY <1>4, <1>5, <1>6, <2>1
  <2> QED BY <2>1, <2>2, PathsEqual DEF k, l
<1>7. ASSUME k > l PROVE Begins(y, x) <=> Begins(d, q)
  <2>1. ASSUME Begins(y, x) PROVE Begins(d, q)
    <3>1. ASSUME NEW i \in 1..l PROVE d[i] = q[i]
      <4>1. i \in 1..k /\ n + i \in 1..Len(y)
        BY <1>1, <1>3, <1>7
      <4>2. y[n + i] = x[n + i]
        BY <2>1, <4>1 DEF Begins
      <4> QED BY <1>4, <1>5, <4>1, <4>2
    <3> QED BY <1>1, <1>7, <3>1 DEF Begins, k, l
  <2>2. ASSUME Begins(d, q) PROVE Begins(y, x)
    <3>1. ASSUME NEW i \in 1..(n + l) PROVE y[i] = x[i]
      <4>1. i \in 1..(n + k)
        BY <1>1, <1>7
      <4>2. CASE i <= n
        BY <1>2, <1>3, <4>1, <4>2
      <4>3. CASE ~(i <= n)
        <5>1. i - n \in 1..l /\ y[i] = d[i - n] /\ x[i] = q[i - n]
          BY <1>1, <1>2, <1>3, <4>1, <4>3
        <5> QED BY <2>2, <5>1 DEF Begins, l
      <4> QED BY <4>2, <4>3
    <3> QED BY <1>1, <1>2, <1>3, <1>7, <3>1 DEF Begins
  <2> QED BY <2>1, <2>2
<1>8. P!Under(x, y) <=> P!Under(q, d)
  <2>1. P!Under(x, y) <=> k > l /\ Begins(y, x)
    BY <1>1, <1>2, <1>3, PrefixBegins DEF P!Under
  <2>2. P!Under(q, d) <=> k > l /\ Begins(d, q)
    BY PrefixBegins DEF P!Under, k, l
  <2> QED BY <1>7, <2>1, <2>2
<1> QED BY <1>6, <1>8 DEF x, y

-----------------------------------------------------------------------------
(* The outputs of an action                                                *)

(* One function over another, where each has a value.                      *)
LEMMA OverAt ==
  ASSUME NEW f, NEW g
  PROVE  /\ DOMAIN P!Over(f, g) = DOMAIN f \cup DOMAIN g
         /\ \A x \in DOMAIN f : P!Over(f, g)[x] = f[x]
         /\ \A x \in DOMAIN g : x \notin DOMAIN f => P!Over(f, g)[x] = g[x]
BY DEF P!Over

(* The outputs a result has were asked for: by their name or by that of a  *)
(* directory.  Names are different files of the exec root, in the same     *)
(* directories.                                                            *)
Distinct(o, wd) == \A q, r \in DOMAIN o : P!At(wd, q) = P!At(wd, r) => q = r
Asked(o, wd, files, outDirs) ==
  /\ Distinct(o, wd)
  /\ \A q \in DOMAIN o, d \in outDirs : P!Under(P!At(wd, q), P!At(wd, d)) <=> P!Under(q, d)
  /\ \A q \in DOMAIN o : q \in files \/ \E d \in outDirs : P!Under(q, d)
(* A part of the outputs.                                                  *)
PartOf(o, outs) == DOMAIN o \subseteq DOMAIN outs /\ \A q \in DOMAIN o : o[q] = outs[q]

(* What was asked for stays so for a part.                                 *)
LEMMA PartIsAsked ==
  ASSUME NEW outs, NEW wd, NEW files, NEW outDirs, Asked(outs, wd, files, outDirs),
         NEW o, PartOf(o, outs)
  PROVE  Asked(o, wd, files, outDirs)
<1>1. DOMAIN o \subseteq DOMAIN outs
  BY DEF PartOf
<1>2. Distinct(o, wd)
  BY <1>1 DEF Asked, Distinct
<1>3. \A q \in DOMAIN o, d \in outDirs : P!Under(P!At(wd, q), P!At(wd, d)) <=> P!Under(q, d)
  BY <1>1 DEF Asked
<1>4. \A q \in DOMAIN o : q \in files \/ \E d \in outDirs : P!Under(q, d)
  BY <1>1 DEF Asked
<1> QED BY <1>2, <1>3, <1>4 DEF Asked

(* The filters leave a part.                                               *)
LEMMA FiltersLeaveAPart ==
  ASSUME NEW outs
  PROVE  /\ \A filter, download : PartOf(P!ExcludeOutputsViaFilter(outs, filter, download), outs)
         /\ \A disk, wd :
              /\ PartOf(P!ExcludeUnchangedOutputs(disk, wd, outs), outs)
              /\ \A q \in DOMAIN outs : q \in DOMAIN P!ExcludeUnchangedOutputs(disk, wd, outs)
                                          <=> ~P!Unchanged(disk, P!At(wd, q), outs[q])
<1>1. ASSUME NEW filter, NEW download PROVE PartOf(P!ExcludeOutputsViaFilter(outs, filter, download), outs)
  BY DEF P!ExcludeOutputsViaFilter, PartOf
<1>2. ASSUME NEW disk, NEW wd
      PROVE  /\ PartOf(P!ExcludeUnchangedOutputs(disk, wd, outs), outs)
             /\ \A q \in DOMAIN outs : q \in DOMAIN P!ExcludeUnchangedOutputs(disk, wd, outs)
                                          <=> ~P!Unchanged(disk, P!At(wd, q), outs[q])
  BY DEF P!ExcludeUnchangedOutputs, PartOf
<1> QED BY <1>1, <1>2

(* What is written.                                                        *)
LEMMA WrittenAt ==
  ASSUME NEW wd, NEW o, Distinct(o, wd)
  PROVE  /\ DOMAIN P!Written(wd, o) = {P!At(wd, q) : q \in DOMAIN o}
         /\ \A q \in DOMAIN o : /\ P!Written(wd, o)[P!At(wd, q)].d = o[q].d
                                /\ P!Written(wd, o)[P!At(wd, q)].t = P!New
<1>1. DOMAIN P!Written(wd, o) = {P!At(wd, q) : q \in DOMAIN o}
  BY DEF P!Written
<1>2. ASSUME NEW q \in DOMAIN o
      PROVE  /\ P!Written(wd, o)[P!At(wd, q)].d = o[q].d /\ P!Written(wd, o)[P!At(wd, q)].t = P!New
  <2> DEFINE p == P!At(wd, q)
             c == CHOOSE r \in DOMAIN o : P!At(wd, r) = p
  <2>1. c \in DOMAIN o /\ P!At(wd, c) = p
    OBVIOUS
  <2>2. c = q
    <3> HIDE DEF c
    <3> QED BY <2>1 DEF Distinct
  <2>3. P!Written(wd, o)[p] = [d |-> o[c].d, t |-> P!New]
    BY DEF P!Written
  <2> HIDE DEF c
  <2> QED BY <2>2, <2>3
<1> QED BY <1>1, <1>2

(* An output that has a name of its own and one in an output directory.    *)
NamedTwice(q, files, outDirs) == q \in files /\ \E d \in outDirs : P!Under(q, d)

(* Some outputs are written over files, of which some are kept.            *)
Overlay(disk, wd, o, some, kept) ==
  P!Over(P!Written(wd, [q \in some |-> o[q]]), [p \in kept |-> disk[p]])
(* What is then where.                                                     *)
Overlaid(m, disk, wd, o, some, kept) ==
  /\ \A q \in some : P!At(wd, q) \in DOMAIN m /\ m[P!At(wd, q)].d = o[q].d /\ m[P!At(wd, q)].t = P!New
  /\ \A p \in kept : (\A q \in some : p # P!At(wd, q)) => p \in DOMAIN m /\ m[p] = disk[p]
(* For any outputs with different names.                                   *)
LEMMA WrittenOver ==
  ASSUME NEW disk, NEW wd, NEW o, Distinct(o, wd),
         NEW some \in SUBSET DOMAIN o, NEW kept \in SUBSET DOMAIN disk
  PROVE  Overlaid(Overlay(disk, wd, o, some, kept), disk, wd, o, some, kept)
<1> DEFINE oo == [q \in some |-> o[q]]
           w == P!Written(wd, oo)
           k == [p \in kept |-> disk[p]]
           m == P!Over(w, k)
<1>1. DOMAIN oo = some /\ \A q \in some : oo[q] = o[q]
  OBVIOUS
<1> HIDE DEF oo
<1>2. Distinct(oo, wd)
  BY <1>1 DEF Distinct
<1>3. /\ DOMAIN w = {P!At(wd, q) : q \in DOMAIN oo}
      /\ \A q \in DOMAIN oo : w[P!At(wd, q)].d = oo[q].d /\ w[P!At(wd, q)].t = P!New
  BY <1>2, WrittenAt
<1>4. DOMAIN k = kept /\ \A p \in kept : k[p] = disk[p]
  OBVIOUS
<1> HIDE DEF w, k
<1>5. /\ DOMAIN m = DOMAIN w \cup DOMAIN k
      /\ \A x \in DOMAIN w : m[x] = w[x]
      /\ \A x \in DOMAIN k : x \notin DOMAIN w => m[x] = k[x]
  BY OverAt
<1> HIDE DEF m
<1>6. ASSUME NEW q \in some
      PROVE  P!At(wd, q) \in DOMAIN m /\ m[P!At(wd, q)].d = o[q].d /\ m[P!At(wd, q)].t = P!New
  <2>1. P!At(wd, q) \in DOMAIN w /\ w[P!At(wd, q)].d = o[q].d /\ w[P!At(wd, q)].t = P!New
    BY <1>1, <1>3
  <2> QED BY <1>5, <2>1
<1>7. ASSUME NEW p \in kept, \A q \in some : p # P!At(wd, q) PROVE p \in DOMAIN m /\ m[p] = disk[p]
  <2>1. p \in DOMAIN k /\ k[p] = disk[p] /\ p \notin DOMAIN w
    BY <1>1, <1>3, <1>4, <1>7
  <2> QED BY <1>5, <2>1
<1> QED BY <1>6, <1>7 DEF m, w, k, oo, Overlay, Overlaid

(* What is moved from a temporary directory: all but the outputs that have *)
(* two names.                                                              *)
LEMMA MovedAt ==
  ASSUME NEW disk, NEW wd, NEW o, NEW files, NEW outDirs, Asked(o, wd, files, outDirs)
  PROVE  LET m == P!MoveOutputsFromTemp(disk, wd, o, files, outDirs)
         IN /\ \A q \in DOMAIN o : ~NamedTwice(q, files, outDirs) =>
                 /\ P!At(wd, q) \in DOMAIN m
                 /\ m[P!At(wd, q)].d = o[q].d /\ m[P!At(wd, q)].t = P!New
            /\ \A p \in DOMAIN disk :
                 (/\ \A q \in DOMAIN o : p # P!At(wd, q)
                  /\ \A d \in outDirs : (\E q \in DOMAIN o : P!Under(q, d)) => ~P!Under(p, P!At(wd, d)))
                 => p \in DOMAIN m /\ m[p] = disk[p]
<1> DEFINE m == P!MoveOutputsFromTemp(disk, wd, o, files, outDirs)
           single == DOMAIN o \cap files
           f == P!MoveFiles(disk, wd, o, files)
           moved == {q \in DOMAIN o \ files : \E d \in outDirs : P!Under(q, d)}
           replaced == {d \in outDirs : \E q \in DOMAIN o : P!Under(q, d)}
           kept == {p \in DOMAIN f : \A d \in replaced : ~P!Under(p, P!At(wd, d))}
<1>1. /\ Distinct(o, wd)
      /\ \A q \in DOMAIN o : q \in files \/ \E d \in outDirs : P!Under(q, d)
      /\ \A q \in DOMAIN o, d \in outDirs : P!Under(P!At(wd, q), P!At(wd, d)) <=> P!Under(q, d)
  BY DEF Asked
<1>2. /\ \A q \in single : P!At(wd, q) \in DOMAIN f /\ f[P!At(wd, q)].d = o[q].d /\ f[P!At(wd, q)].t = P!New
      /\ \A p \in DOMAIN disk : (\A q \in single : p # P!At(wd, q)) => p \in DOMAIN f /\ f[p] = disk[p]
  <2> DEFINE all == DOMAIN disk
  <2>1. f = Overlay(disk, wd, o, single, all)
    BY DEF P!MoveFiles, P!Over, Overlay
  <2>2. single \in SUBSET DOMAIN o /\ all \in SUBSET DOMAIN disk
    OBVIOUS
  <2>3. Distinct(o, wd)
    BY <1>1
  <2> HIDE DEF f, single, all
  <2>4. Overlaid(Overlay(disk, wd, o, single, all), disk, wd, o, single, all)
    BY <2>2, <2>3, WrittenOver
  <2> QED BY <2>1, <2>4 DEF Overlaid, all
<1>3. /\ \A q \in moved : P!At(wd, q) \in DOMAIN m /\ m[P!At(wd, q)].d = o[q].d /\ m[P!At(wd, q)].t = P!New
      /\ \A p \in kept : (\A q \in moved : p # P!At(wd, q)) => p \in DOMAIN m /\ m[p] = f[p]
  <2>1. m = Overlay(f, wd, o, moved, kept)
    BY DEF P!MoveOutputsFromTemp, P!MoveDirs, Overlay
  <2>2. moved \in SUBSET DOMAIN o /\ kept \in SUBSET DOMAIN f
    OBVIOUS
  <2>3. Distinct(o, wd)
    BY <1>1
  <2> HIDE DEF m, moved, kept, f
  <2>4. Overlaid(Overlay(f, wd, o, moved, kept), f, wd, o, moved, kept)
    BY <2>2, <2>3, WrittenOver
  <2> QED BY <2>1, <2>4 DEF Overlaid
<1> HIDE DEF m, f
<1>4. ASSUME NEW q \in DOMAIN o, ~NamedTwice(q, files, outDirs)
      PROVE  P!At(wd, q) \in DOMAIN m /\ m[P!At(wd, q)].d = o[q].d /\ m[P!At(wd, q)].t = P!New
  <2>1. CASE q \notin files
    <3>1. q \in moved
      BY <1>1, <2>1
    <3> HIDE DEF moved
    <3> QED BY <1>3, <3>1
  <2>2. CASE q \in files
    <3>1. \A d \in outDirs : ~P!Under(q, d)
      BY <1>4, <2>2 DEF NamedTwice
    <3>2. \A d \in outDirs : ~P!Under(P!At(wd, q), P!At(wd, d))
      BY <1>1, <3>1
    <3>3. P!At(wd, q) \in DOMAIN f /\ f[P!At(wd, q)].d = o[q].d /\ f[P!At(wd, q)].t = P!New
      BY <1>2, <2>2
    <3>4. P!At(wd, q) \in kept
      BY <3>2, <3>3
    <3>5. \A r \in moved : P!At(wd, q) # P!At(wd, r)
      BY <1>1, <2>2 DEF Distinct
    <3> HIDE DEF moved, kept
    <3>6. P!At(wd, q) \in DOMAIN m /\ m[P!At(wd, q)] = f[P!At(wd, q)]
      BY <1>3, <3>4, <3>5
    <3> QED BY <3>3, <3>6
  <2> QED BY <2>1, <2>2
<1>5. ASSUME NEW p \in DOMAIN disk, \A q \in DOMAIN o : p # P!At(wd, q),
             \A d \in outDirs : (\E q \in DOMAIN o : P!Under(q, d)) => ~P!Under(p, P!At(wd, d))
      PROVE  p \in DOMAIN m /\ m[p] = disk[p]
  <2>1. p \in DOMAIN f /\ f[p] = disk[p]
    BY <1>2, <1>5
  <2>2. p \in kept
    BY <1>5, <2>1
  <2>3. \A q \in moved : p # P!At(wd, q)
    BY <1>5
  <2> HIDE DEF moved, kept
  <2> QED BY <1>3, <2>1, <2>2, <2>3
<1> QED BY <1>4, <1>5 DEF m

(* An output that was asked for is in the list of files ...                *)
LEMMA OutputsAreListed ==
  ASSUME NEW disk, NEW wd, NEW o, NEW files, NEW outDirs, Asked(o, wd, files, outDirs)
  PROVE  /\ \A q \in DOMAIN o : P!At(wd, q) \in DOMAIN disk => P!At(wd, q) \in P!FileList(disk, wd, files, outDirs)
         /\ \A p \in DOMAIN disk : p \notin P!FileList(disk, wd, files, outDirs) =>
              /\ \A q \in DOMAIN o : p # P!At(wd, q)
              /\ \A d \in outDirs : ~P!Under(p, P!At(wd, d))
<1>1. ASSUME NEW q \in DOMAIN o, P!At(wd, q) \in DOMAIN disk
      PROVE  P!At(wd, q) \in P!FileList(disk, wd, files, outDirs)
  <2>1. CASE q \in files
    BY <2>1 DEF P!FileList
  <2>2. CASE q \notin files
    <3>1. PICK d \in outDirs : P!Under(q, d)
      BY <2>2 DEF Asked
    <3>2. P!Under(P!At(wd, q), P!At(wd, d))
      BY <3>1 DEF Asked
    <3> QED BY <1>1, <3>2 DEF P!FileList
  <2> QED BY <2>1, <2>2
<1>2. ASSUME NEW p \in DOMAIN disk, p \notin P!FileList(disk, wd, files, outDirs), NEW d \in outDirs
      PROVE  ~P!Under(p, P!At(wd, d))
  BY <1>2 DEF P!FileList
<1> QED BY <1>1, <1>2

(* runRemote delivers the outputs that were asked for.                     *)
LEMMA RunRemoteDelivers ==
  ASSUME NEW disk, Earlier(disk), NEW wd, NEW outs, NEW files, NEW outDirs,
         Asked(outs, wd, files, outDirs), NEW opt \in Option,
         NEW except, opt.atomic => \A q \in DOMAIN outs \ except : ~NamedTwice(q, files, outDirs),
         opt.atomic /\ opt.preserve => \A q \in DOMAIN outs \ except, d \in outDirs : ~P!Under(q, d)
  PROVE  P!Delivered(disk, P!RunRemote(disk, wd, outs, files, outDirs, opt), wd, outs, files,
                     outDirs, opt, except)
<1> DEFINE wanted == P!ExcludeOutputsViaFilter(outs, opt.filter, opt.download)
           skips == opt.download /\ opt.preserve
           rest == IF skips THEN P!ExcludeUnchangedOutputs(disk, wd, wanted) ELSE wanted
           after == P!RunRemote(disk, wd, outs, files, outDirs, opt)
           listed == P!FileList(disk, wd, files, outDirs)
<1>1. PartOf(wanted, outs) /\ Asked(wanted, wd, files, outDirs)
  <2>1. PartOf(wanted, outs)
    BY FiltersLeaveAPart
  <2> HIDE DEF wanted
  <2> QED BY <2>1, PartIsAsked
<1>2. after = IF opt.atomic THEN P!MoveOutputsFromTemp(disk, wd, rest, files, outDirs)
              ELSE P!Over(P!Written(wd, rest), disk)
  BY DEF P!RunRemote
<1> HIDE DEF wanted, after
<1>3. /\ PartOf(rest, wanted)
      /\ skips => \A q \in DOMAIN wanted : q \in DOMAIN rest <=> ~P!Unchanged(disk, P!At(wd, q), wanted[q])
      /\ ~skips => rest = wanted
  <2>1. CASE skips
    BY <2>1, FiltersLeaveAPart
  <2>2. CASE ~skips
    BY <2>2 DEF PartOf
  <2> QED BY <2>1, <2>2
<1> HIDE DEF rest
<1>4. Asked(rest, wd, files, outDirs)
  BY <1>1, <1>3, PartIsAsked
<1>5. ASSUME NEW q \in DOMAIN rest, q \notin except
      PROVE  P!At(wd, q) \in DOMAIN after /\ after[P!At(wd, q)].d = rest[q].d /\ after[P!At(wd, q)].t = P!New
  <2>1. CASE opt.atomic
    <3>1. ~NamedTwice(q, files, outDirs)
      BY <1>1, <1>3, <1>5, <2>1 DEF PartOf
    <3> QED BY <1>2, <1>4, <2>1, <3>1, MovedAt
  <2>2. CASE ~opt.atomic
    <3> DEFINE w == P!Written(wd, rest)
    <3>0. Distinct(rest, wd)
      BY <1>4 DEF Asked
    <3>1. /\ DOMAIN w = {P!At(wd, r) : r \in DOMAIN rest}
          /\ \A r \in DOMAIN rest : w[P!At(wd, r)].d = rest[r].d /\ w[P!At(wd, r)].t = P!New
      BY <3>0, WrittenAt
    <3>2. after = P!Over(w, disk)
      BY <1>2, <2>2
    <3>4. /\ DOMAIN P!Over(w, disk) = DOMAIN w \cup DOMAIN disk
          /\ \A x \in DOMAIN w : P!Over(w, disk)[x] = w[x]
      BY OverAt
    <3> HIDE DEF w
    <3>3. P!At(wd, q) \in DOMAIN after /\ after[P!At(wd, q)] = w[P!At(wd, q)]
      BY <3>1, <3>2, <3>4
    <3> QED BY <3>1, <3>3
  <2> QED BY <2>1, <2>2
<1>6. ASSUME NEW p \in DOMAIN disk, \A q \in DOMAIN rest : p # P!At(wd, q),
             opt.atomic => \A d \in outDirs : (\E q \in DOMAIN rest : P!Under(q, d)) => ~P!Under(p, P!At(wd, d))
      PROVE  p \in DOMAIN after /\ after[p] = disk[p]
  <2>1. CASE opt.atomic
    BY <1>2, <1>4, <1>6, <2>1, MovedAt
  <2>2. CASE ~opt.atomic
    <3> DEFINE w == P!Written(wd, rest)
    <3>0. Distinct(rest, wd)
      BY <1>4 DEF Asked
    <3>1. DOMAIN w = {P!At(wd, r) : r \in DOMAIN rest}
      BY <3>0, WrittenAt
    <3>2. after = P!Over(w, disk)
      BY <1>2, <2>2
    <3>3. /\ DOMAIN P!Over(w, disk) = DOMAIN w \cup DOMAIN disk
          /\ \A x \in DOMAIN disk : x \notin DOMAIN w => P!Over(w, disk)[x] = disk[x]
      BY OverAt
    <3> HIDE DEF w
    <3>4. p \notin DOMAIN w
      BY <1>6, <3>1
    <3> QED BY <3>2, <3>3, <3>4
  <2> QED BY <2>1, <2>2
<1>7. ASSUME NEW q \in DOMAIN wanted, q \notin except
      PROVE  LET p == P!At(wd, q) IN
             /\ p \in DOMAIN after /\ after[p].d = wanted[q].d
             /\ (opt.preserve /\ opt.download) => (after[p].t # P!New <=> p \in DOMAIN disk /\ disk[p].d = wanted[q].d)
  <2> DEFINE p == P!At(wd, q)
  <2>1. CASE q \in DOMAIN rest
    <3>1. p \in DOMAIN after /\ after[p].d = wanted[q].d /\ after[p].t = P!New
      BY <1>3, <1>5, <1>7, <2>1 DEF PartOf
    <3>2. skips => ~(p \in DOMAIN disk /\ disk[p].d = wanted[q].d)
      BY <1>3, <2>1 DEF P!Unchanged
    <3> QED BY <3>1, <3>2
  <2>2. CASE q \notin DOMAIN rest
    <3>1. skips /\ p \in DOMAIN disk /\ disk[p].d = wanted[q].d
      BY <1>3, <2>2 DEF P!Unchanged
    <3>2. \A r \in DOMAIN rest : p # P!At(wd, r)
      BY <1>1, <1>3, <2>2 DEF Asked, Distinct, PartOf
    <3>3. opt.atomic => \A d \in outDirs : ~P!Under(p, P!At(wd, d))
      <4>1. q \in DOMAIN outs \ except
        BY <1>1, <1>7 DEF PartOf
      <4>2. opt.atomic => \A d \in outDirs : ~P!Under(q, d)
        BY <3>1, <4>1
      <4> QED BY <1>1, <4>2 DEF Asked
    <3>4. p \in DOMAIN after /\ after[p] = disk[p]
      BY <1>6, <3>1, <3>2, <3>3
    <3> QED BY <3>1, <3>4 DEF Earlier
  <2> QED BY <2>1, <2>2
<1>8. ASSUME NEW p \in DOMAIN disk, p \notin listed PROVE p \in DOMAIN after /\ after[p] = disk[p]
  <2>1. (\A q \in DOMAIN rest : p # P!At(wd, q)) /\ \A d \in outDirs : ~P!Under(p, P!At(wd, d))
    BY <1>4, <1>8, OutputsAreListed
  <2> QED BY <1>6, <2>1
<1> QED BY <1>7, <1>8 DEF P!Delivered, wanted, after

(* So does the end of a race that the remote result wins, but for the      *)
(* outputs with two names.                                                 *)
LEMMA RaceDelivers ==
  ASSUME NEW disk, Earlier(disk), NEW wd, NEW outs, NEW files, NEW outDirs,
         Asked(outs, wd, files, outDirs), NEW opt \in Option
  PROVE  P!Delivered(disk, P!RemoteWinsRace(disk, wd, outs, files, outDirs, opt), wd, outs, files,
                     outDirs, opt, P!NamedInDirs(outs, files, outDirs))
<1> DEFINE wanted == P!ExcludeOutputsViaFilter(outs, opt.filter, opt.download)
           m == P!MoveOutputsFromTemp(disk, wd, wanted, files, outDirs)
           pre == P!GetPreExecOutsInfo(disk, wd, files, outDirs)
           back == P!RestoreUnchangedOutputMtimes(m, pre, wd, files, outDirs)
           after == P!RemoteWinsRace(disk, wd, outs, files, outDirs, opt)
           listed == P!FileList(disk, wd, files, outDirs)
           except == P!NamedInDirs(outs, files, outDirs)
<1>1. Asked(wanted, wd, files, outDirs) /\ \A q \in DOMAIN wanted \ except : ~NamedTwice(q, files, outDirs)
  <2>1. PartOf(wanted, outs)
    BY FiltersLeaveAPart
  <2> HIDE DEF wanted
  <2>2. Asked(wanted, wd, files, outDirs)
    BY <2>1, PartIsAsked
  <2>3. \A q \in DOMAIN wanted : q \in DOMAIN outs
    BY <2>1 DEF PartOf
  <2> QED BY <2>2, <2>3 DEF NamedTwice, P!NamedInDirs, P!InDirs
<1> HIDE DEF except
<1>2. after = IF opt.preserve THEN back ELSE m
  BY DEF P!RemoteWinsRace
<1> HIDE DEF wanted, after
<1>3. ASSUME NEW q \in DOMAIN wanted, q \notin except
      PROVE  P!At(wd, q) \in DOMAIN m /\ m[P!At(wd, q)].d = wanted[q].d /\ m[P!At(wd, q)].t = P!New
  BY <1>1, <1>3, MovedAt
<1>4. ASSUME NEW p \in DOMAIN disk, p \notin listed PROVE p \in DOMAIN m /\ m[p] = disk[p]
  <2>1. (\A q \in DOMAIN wanted : p # P!At(wd, q)) /\ \A d \in outDirs : ~P!Under(p, P!At(wd, d))
    BY <1>1, <1>4, OutputsAreListed
  <2> QED BY <1>1, <2>1, MovedAt
<1> HIDE DEF m
<1>5. /\ DOMAIN pre = listed \cap DOMAIN disk
      /\ \A p \in listed \cap DOMAIN disk : pre[p].d = disk[p].d /\ pre[p].t = disk[p].t
  BY DEF P!GetPreExecOutsInfo
<1> HIDE DEF pre
<1>6. /\ DOMAIN back = DOMAIN m
      /\ \A p \in DOMAIN m :
           back[p] = IF p \in P!FileList(m, wd, files, outDirs) /\ p \in DOMAIN pre /\ pre[p].d = m[p].d
                     THEN [m[p] EXCEPT !.t = pre[p].t] ELSE m[p]
  BY DEF P!RestoreUnchangedOutputMtimes
<1> HIDE DEF back
<1>7. ASSUME NEW q \in DOMAIN wanted, q \notin except
      PROVE  LET p == P!At(wd, q) IN
             /\ p \in DOMAIN after /\ after[p].d = wanted[q].d
             /\ (opt.preserve /\ opt.download) => (after[p].t # P!New <=> p \in DOMAIN disk /\ disk[p].d = wanted[q].d)
  <2> DEFINE p == P!At(wd, q)
  <2>1. p \in DOMAIN m /\ m[p].d = wanted[q].d /\ m[p].t = P!New
    BY <1>3, <1>7
  <2>2. p \in P!FileList(m, wd, files, outDirs) /\ (p \in DOMAIN disk => p \in listed)
    BY <1>1, <2>1, OutputsAreListed
  <2>3. CASE ~opt.preserve
    BY <1>2, <2>1, <2>3
  <2>4. CASE opt.preserve /\ p \in DOMAIN disk /\ disk[p].d = wanted[q].d
    <3>1. p \in DOMAIN pre /\ pre[p].d = m[p].d /\ pre[p].t = disk[p].t
      BY <1>5, <2>1, <2>2, <2>4
    <3>2. after[p] = [m[p] EXCEPT !.t = pre[p].t] /\ p \in DOMAIN after
      BY <1>2, <1>6, <2>1, <2>2, <2>4, <3>1
    <3>3. after[p].d = m[p].d /\ after[p].t = disk[p].t
      BY <2>1, <3>1, <3>2
    <3> QED BY <2>1, <2>4, <3>2, <3>3 DEF Earlier
  <2>5. CASE opt.preserve /\ ~(p \in DOMAIN disk /\ disk[p].d = wanted[q].d)
    <3>1. ~(p \in DOMAIN pre /\ pre[p].d = m[p].d)
      BY <1>5, <2>1, <2>5
    <3>2. after[p] = m[p] /\ p \in DOMAIN after
      BY <1>2, <1>6, <2>1, <2>5, <3>1
    <3> QED BY <2>1, <2>5, <3>2
  <2> QED BY <2>3, <2>4, <2>5
<1>8. ASSUME NEW p \in DOMAIN disk, p \notin listed PROVE p \in DOMAIN after /\ after[p] = disk[p]
  <2>1. p \in DOMAIN m /\ m[p] = disk[p] /\ p \notin DOMAIN pre
    BY <1>4, <1>5, <1>8
  <2> QED BY <1>2, <1>6, <2>1
<1> QED BY <1>7, <1>8 DEF P!Delivered, wanted, after, except

(* Names are plain paths of the working directory.                         *)
LEMMA PlainAt ==
  \A wd, q : Plain(wd) /\ Plain(q) => P!At(wd, q) = wd \o q
BY PlainConcat, PlainIsClean, Zenon DEF P!At, P!Join

(* Whatever is on the disk before an action, and whatever outputs its      *)
(* result has of those that it was asked for, runRemote and a race that    *)
(* the remote result wins bring the wanted ones to the disk, with the time *)
(* that they should have, and touch no other file.  Excepted are, where    *)
(* outputs are moved from a temporary directory, those asked for by their  *)
(* names that are in an output directory, and, with atomic downloads that  *)
(* preserve times, all that are in one.                                    *)
THEOREM OutputsAreDelivered ==
  ASSUME NEW disk, Earlier(disk), NEW wd, Plain(wd), NEW outs, \A q \in DOMAIN outs : Plain(q),
         NEW files, NEW outDirs, \A d \in outDirs : Plain(d),
         \A q \in DOMAIN outs : q \in files \/ \E d \in outDirs : P!Under(q, d),
         NEW opt \in Option
  PROVE  P!OutputsDelivered(disk, wd, outs, files, outDirs, opt)
<1>1. Asked(outs, wd, files, outDirs)
  <2>1. \A q \in DOMAIN outs : q \in Path /\ P!At(wd, q) = wd \o q
    BY PlainAt, PlainIsClean
  <2>2. \A d \in outDirs : d \in Path /\ P!At(wd, d) = wd \o d
    BY PlainAt, PlainIsClean
  <2>3. wd \in Path
    BY PlainIsClean
  <2>4. Distinct(outs, wd)
    BY <2>1, <2>3, SameInDirectory DEF Distinct
  <2>5. ASSUME NEW q \in DOMAIN outs, NEW d \in outDirs
        PROVE  P!Under(P!At(wd, q), P!At(wd, d)) <=> P!Under(q, d)
    <3>1. P!Under(wd \o q, wd \o d) <=> P!Under(q, d)
      BY <2>1, <2>2, <2>3, SameInDirectory, Zenon
    <3> QED BY <2>1, <2>2, <3>1
  <2> QED BY <2>4, <2>5 DEF Asked
<1> DEFINE inDirs == P!InDirs(outs, outDirs)
           twice == P!NamedInDirs(outs, files, outDirs)
           except == IF ~opt.atomic THEN {} ELSE IF opt.preserve THEN inDirs ELSE twice
<1>2. /\ opt.atomic => \A q \in DOMAIN outs \ except : ~NamedTwice(q, files, outDirs)
      /\ opt.atomic /\ opt.preserve => \A q \in DOMAIN outs \ except, d \in outDirs : ~P!Under(q, d)
  BY DEF NamedTwice, P!NamedInDirs, P!InDirs
<1> HIDE DEF except
<1>3. P!Delivered(disk, P!RunRemote(disk, wd, outs, files, outDirs, opt), wd, outs, files, outDirs, opt, except)
  BY <1>1, <1>2, RunRemoteDelivers
<1>4. P!Delivered(disk, P!RemoteWinsRace(disk, wd, outs, files, outDirs, opt), wd, outs, files, outDirs, opt, twice)
  BY <1>1, RaceDelivers
<1> QED BY <1>3, <1>4 DEF P!OutputsDelivered, except

(* downloadVirtualInputs: whatever files there are and whatever is to be   *)
(* there, each path once, a command that runs in the exec root finds the   *)
(* virtual inputs that its remote tree has, and its files.                 *)
THEOREM VirtualInputsAreThere ==
  ASSUME NEW disk, NEW dirs, NEW vis,
         \A v \in vis : IsVirtual(v),
         \A v, u \in vis : v.path = u.path => v = u
  PROVE  P!VirtualInputsThere(disk, dirs, vis)
<1> DEFINE tree == P!FilterVirtualInputs(dirs, vis)
           outs == {v \in tree : v.digest # "" /\ v.contents = ""}
           at(v) == P!At(<<>>, v.path)
           chosen(p) == CHOOSE v \in outs : at(v) = p
           rec(p) == [d |-> chosen(p).digest, t |-> IF chosen(p).mtime # 0 THEN chosen(p).mtime ELSE P!New]
           brought == [p \in {at(v) : v \in outs} |-> rec(p)]
           after == P!DownloadVirtualInputs(disk, <<>>, tree)
<1>1. after = P!Over(brought, disk)
  BY DEF P!DownloadVirtualInputs
<1>2. tree \subseteq vis /\ \A v \in tree : v.dir => v.path \in dirs
  BY DEF P!FilterVirtualInputs
<1> HIDE DEF tree
<1>3. \A v \in tree : at(v) = v.path
  <2> SUFFICES ASSUME NEW v \in tree PROVE P!Clean(<<>> \o v.path) = v.path
    BY DEF P!At, P!Join
  <2>1. v.path \in Path /\ P!Clean(v.path) = v.path
    BY <1>2, PlainIsClean DEF IsVirtual
  <2>2. <<>> \o v.path = v.path
    BY <2>1, ConcatEmpty, Zenon
  <2> QED BY <2>1, <2>2
<1> HIDE DEF at
<1>4. DOMAIN brought = {v.path : v \in outs} /\ \A v \in outs : brought[v.path].d = v.digest
  <2>1. {at(v) : v \in outs} = {v.path : v \in outs}
    <3>1. \A v \in outs : at(v) = v.path
      BY <1>3
    <3> HIDE DEF outs
    <3> QED BY <3>1
  <2>2. ASSUME NEW v \in outs PROVE brought[v.path].d = v.digest
    <3> DEFINE c == chosen(v.path)
    <3>1. at(v) = v.path
      BY <1>3
    <3>2. rec(v.path).d = c.digest
      <4> HIDE DEF chosen
      <4> QED OBVIOUS
    <3> HIDE DEF outs
    <3>3. c \in outs /\ at(c) = v.path
      BY <3>1
    <3> HIDE DEF chosen, rec
    <3>4. brought[v.path] = rec(v.path)
      BY <3>1
    <3>5. c = v
      BY <1>2, <1>3, <3>3 DEF outs
    <3> HIDE DEF brought
    <3> QED BY <3>2, <3>4, <3>5
  <2> HIDE DEF outs, rec
  <2> QED BY <2>1, <2>2
<1> HIDE DEF brought, after
<1>5. /\ \A x \in DOMAIN brought : after[x] = brought[x]
      /\ \A x \in DOMAIN disk : x \notin DOMAIN brought => after[x] = disk[x]
  <2>1. /\ \A x \in DOMAIN brought : P!Over(brought, disk)[x] = brought[x]
        /\ \A x \in DOMAIN disk : x \notin DOMAIN brought => P!Over(brought, disk)[x] = disk[x]
    BY OverAt
  <2> QED BY <1>1, <2>1
<1>6. ASSUME NEW v \in tree PROVE IF v.dir THEN v.path \in dirs ELSE v.contents = "" => after[v.path].d = v.digest
  <2>1. CASE v.dir
    BY <1>2, <2>1
  <2>2. CASE ~v.dir
    <3>1. v.contents = "" => v \in outs
      BY <1>2, <2>2 DEF IsVirtual
    <3> QED BY <1>4, <1>5, <2>2, <3>1
  <2> QED BY <1>2, <2>1, <2>2
<1>7. ASSUME NEW p \in DOMAIN disk, \A v \in tree : v.path # p PROVE after[p] = disk[p]
  <2>1. p \notin DOMAIN brought
    BY <1>4, <1>7
  <2> QED BY <1>5, <2>1
<1> QED BY <1>6, <1>7 DEF P!VirtualInputsThere, tree, after

(* What begins a plain path is plain.                                      *)
LEMMA PlainBegins ==
  \A c, i : c \in Path /\ Plain(i) /\ Begins(c, i) => Plain(c)
<1> SUFFICES ASSUME NEW c \in Path, NEW i, Plain(i), Begins(c, i) PROVE Plain(c)
  OBVIOUS
<1>1. i \in Path /\ Len(i) \in Nat /\ Len(c) \in Nat
  BY PathFacts DEF Plain
<1>2. ASSUME NEW j \in 1..Len(c) PROVE c[j] \notin Special
  <2>1. j \in 1..Len(i) /\ c[j] = i[j]
    BY <1>1 DEF Begins
  <2> QED BY <2>1 DEF Plain
<1> QED BY <1>2 DEF Plain

(* A plain path of an absolute directory.                                  *)
LEMMA RootedConcat ==
  \A a, t : Rooted(a) /\ Plain(t) => Rooted(a \o t)
<1> SUFFICES ASSUME NEW a, Rooted(a), NEW t, Plain(t) PROVE Rooted(a \o t)
  OBVIOUS
<1> DEFINE x == a \o t
<1>1. a \in Path /\ t \in Path /\ Len(a) \in Nat \ {0} /\ Len(t) \in Nat
  BY PathFacts DEF Rooted, Plain
<1>2. /\ x \in Path /\ Len(x) = Len(a) + Len(t)
      /\ \A i \in 1..(Len(a) + Len(t)) : x[i] = IF i <= Len(a) THEN a[i] ELSE t[i - Len(a)]
  BY <1>1, ConcatElements, Zenon
<1> HIDE DEF x
<1>3. x[1] = P!Root /\ Len(x) >= 1
  BY <1>1, <1>2 DEF Rooted
<1>4. ASSUME NEW i \in 2..Len(x) PROVE x[i] \notin Special
  <2>1. CASE i <= Len(a)
    <3>1. i \in 2..Len(a) /\ x[i] = a[i]
      BY <1>1, <1>2, <2>1
    <3> QED BY <3>1 DEF Rooted
  <2>2. CASE ~(i <= Len(a))
    <3>1. i - Len(a) \in 1..Len(t) /\ x[i] = t[i - Len(a)]
      BY <1>1, <1>2, <2>2
    <3> QED BY <3>1 DEF Plain
  <2> QED BY <2>1, <2>2
<1>5. Rooted(x)
  BY <1>2, <1>3, <1>4 DEF Rooted
<1> QED BY <1>5 DEF x

(* The two parts of a path.                                                *)
LEMMA PartsOfConcat ==
  ASSUME NEW a \in Path, NEW t \in Path
  PROVE  SubSeq(a \o t, 1, Len(a)) = a /\ SubSeq(a \o t, Len(a) + 1, Len(a) + Len(t)) = t
<1> DEFINE x == a \o t  n == Len(a)  k == Len(t)
           h == SubSeq(x, 1, n)  s == SubSeq(x, n + 1, n + k)
<1>1. n \in Nat /\ k \in Nat
  BY PathFacts
<1>2. x \in Path /\ Len(x) = n + k /\ \A i \in 1..(n + k) : x[i] = IF i <= n THEN a[i] ELSE t[i - n]
  BY ConcatElements, Zenon
<1> HIDE DEF x, n, k
<1>3. h \in Path /\ Len(h) = n - 1 + 1 /\ \A i \in 1..(n - 1 + 1) : h[i] = x[1 + i - 1]
  <2>1. 1 \in 1..(Len(x) + 1) /\ n \in (1 - 1)..Len(x)
    BY <1>1, <1>2
  <2> QED BY <1>2, <2>1, SubPath
<1>4. s \in Path /\ Len(s) = (n + k) - (n + 1) + 1 /\ \A i \in 1..((n + k) - (n + 1) + 1) : s[i] = x[(n + 1) + i - 1]
  <2>1. n + 1 \in 1..(Len(x) + 1) /\ n + k \in ((n + 1) - 1)..Len(x)
    BY <1>1, <1>2
  <2> QED BY <1>2, <2>1, SubPath
<1> HIDE DEF h, s
<1>5. h = a
  <2>1. Len(h) = n
    BY <1>1, <1>3
  <2>2. ASSUME NEW i \in 1..n PROVE h[i] = a[i]
    <3>1. i \in 1..(n - 1 + 1) /\ 1 + i - 1 = i /\ i \in 1..(n + k) /\ i <= n
      BY <1>1
    <3> QED BY <1>2, <1>3, <3>1
  <2> QED BY <1>3, <2>1, <2>2, PathsEqual DEF n
<1>6. s = t
  <2>1. Len(s) = k /\ (n + k) - (n + 1) + 1 = k
    BY <1>1, <1>4
  <2>2. ASSUME NEW i \in 1..k PROVE s[i] = t[i]
    <3>1. (n + 1) + i - 1 = n + i /\ n + i \in 1..(n + k) /\ ~(n + i <= n) /\ (n + i) - n = i
      BY <1>1
    <3>2. s[i] = x[(n + 1) + i - 1]
      BY <1>4, <2>1
    <3> QED BY <1>2, <3>1, <3>2
  <2> QED BY <1>4, <2>1, <2>2, PathsEqual DEF k
<1> QED BY <1>5, <1>6 DEF h, s, x, n, k

(* Rel to a path under the directory is that path.                         *)
LEMMA RelUnder ==
  \A a, t : Rooted(a) /\ Plain(t) => P!Rel(a, a \o t) = t
<1> SUFFICES ASSUME NEW a, Rooted(a), NEW t, Plain(t) PROVE P!Rel(a, a \o t) = t
  OBVIOUS
<1> DEFINE x == a \o t  n == Len(a)
<1>1. a \in Path /\ t \in Path /\ n \in Nat \ {0} /\ Len(t) \in Nat
  BY PathFacts DEF Rooted, Plain
<1>2. x \in Path /\ Len(x) = n + Len(t)
  BY <1>1, ConcatElements, Zenon
<1>3. Rooted(x) /\ SubSeq(x, 1, n) = a /\ SubSeq(x, n + 1, n + Len(t)) = t
  BY <1>1, RootedConcat, PartsOfConcat
<1> HIDE DEF x
<1>4. SubSeq(a, 1, n) = a
  BY <1>1, SubSeqFull DEF Path
<1>5. P!IsPrefix(a, x)
  BY <1>1, <1>2, <1>3, <1>4 DEF P!IsPrefix
<1>6. P!CommonPrefix(a, x) = n
  BY <1>3, <1>5, CommonPrefixFacts
<1>7. P!Rel(a, x) = Ups(n - n) \o SubSeq(x, n + 1, Len(x))
  BY <1>6 DEF P!Rel, Ups
<1>8. Ups(n - n) = <<>>
  <2>1. n - n = 0
    BY <1>1
  <2>2. Ups(0) = <<>>
    BY UpsFacts, PathFacts
  <2> QED BY <2>1, <2>2
<1>9. <<>> \o t = t
  BY <1>1, ConcatEmpty, Zenon
<1>10. P!Rel(a, x) = t
  BY <1>2, <1>3, <1>7, <1>8, <1>9
<1> QED BY <1>10 DEF x

(* RelToExecRoot gives that name.                                          *)
LEMMA NameInExecRoot ==
  ASSUME NEW execRoot, Rooted(execRoot), NEW wd, Relative(wd), NEW f, Relative(f), f # <<>>,
         Inside(P!At(wd, f))
  PROVE  P!RelToExecRoot(execRoot, wd, f) = P!At(wd, f) /\ P!At(wd, f) # P!NoPath
<1> DEFINE c == P!At(wd, f)
<1>1. execRoot \in Path /\ wd \in Path /\ f \in Path /\ wd \o f \in Path
  BY ConcatType DEF Rooted, Relative
<1>2. c = P!Clean(wd \o f)
  BY DEF P!At, P!Join
<1>3. ~P!IsAbs(f)
  <2>1. 1 \in 1..Len(f)
    BY <1>1, PathFacts
  <2> QED BY <2>1 DEF P!IsAbs, Relative
<1> HIDE DEF c
<1>4. Plain(c) /\ c # <<>> /\ c[1] # "..x"
  BY DEF Inside, c
<1>5. P!Clean(execRoot \o wd \o f) = execRoot \o c
  <2>1. P!Clean(execRoot \o P!Clean(wd \o f)) = P!Clean(execRoot \o (wd \o f))
    BY <1>1, CleanRight, Zenon
  <2>2. execRoot \o (wd \o f) = execRoot \o wd \o f
    BY <1>1, ConcatConcat, Zenon
  <2>3. P!Clean(execRoot \o c) = execRoot \o c
    BY <1>4, RootedConcat, RootedIsClean
  <2> QED BY <1>2, <2>1, <2>2, <2>3
<1>6. P!Rel(execRoot, execRoot \o c) = c
  BY <1>4, RelUnder
<1>7. c \in Path /\ 1 \in 1..Len(c) /\ c[1] \notin Special
  <2>1. c \in Path
    BY <1>4 DEF Plain
  <2>2. 1 \in 1..Len(c)
    BY <1>4, <2>1, PathFacts
  <2> QED BY <1>4, <2>1, <2>2 DEF Plain
<1>8. ~P!Outside(c)
  BY <1>4, <1>7 DEF P!Outside, P!StartsWithDots, Special
<1>9. P!RelToExecRoot(execRoot, wd, f) = c
  BY <1>3, <1>5, <1>6, <1>8 DEF P!RelToExecRoot
<1>10. c # P!NoPath
  <2>1. P!NoPath[1] \in Special
    BY DEF P!NoPath, Special, Dots
  <2> QED BY <1>7, <2>1
<1> QED BY <1>9, <1>10 DEF c

(* Compare mode: whatever an action did to its outputs, if it changed      *)
(* nothing else, the next rerun finds the inputs as the first one did;     *)
(* in-out files have their contents, if they can be renamed back; and no   *)
(* output is left that is not an input.  Left out are *)
(* names that start with two dots, the exec root or an input as an output  *)
(* directory, and a deps file whose name in the exec root is that of       *)
(* another output in the working directory.                                *)
THEOREM RerunsStartFromCleanInputs ==
  ASSUME NEW execRoot, Rooted(execRoot), NEW wd, Relative(wd),
         NEW files, NEW outDirs, \A f \in files \cup outDirs : Relative(f) /\ f # <<>>,
         NEW disk, NEW inputs, \A i \in inputs : Inside(i),
         NEW ran, \A p \in DOMAIN disk \ P!FileList(disk, wd, files, outDirs) :
                     p \in DOMAIN ran /\ ran[p] = disk[p],
         NEW depsFile, depsFile \in files => P!At(wd, depsFile) = depsFile,
         NEW tmpHere \in BOOLEAN
  PROVE  P!RerunsStartClean(execRoot, wd, disk, ran, inputs, files, outDirs, depsFile, tmpHere)
<1> DEFINE rel(f) == P!RelToExecRoot(execRoot, wd, f)
           at(f) == P!At(wd, f)
           inout == P!InOutFiles(execRoot, wd, inputs, files, outDirs)
           stashed == {p \in inout \cap DOMAIN disk : tmpHere /\ P!ParentThere(p, wd, outDirs)}
           back == [p \in stashed |-> [d |-> disk[p].d, t |-> P!New]]
           left == P!RemoveAllOutputs(ran, wd, files, outDirs, depsFile)
           after == P!BetweenReruns(execRoot, wd, disk, ran, inputs, files, outDirs, depsFile, tmpHere)
           listed == P!FileList(disk, wd, files, outDirs)
<1> SUFFICES ASSUME \A d \in outDirs : at(d) # <<>> /\ at(d) \notin inputs
             PROVE  /\ \A i \in inputs \cap DOMAIN disk :
                         /\ i \notin listed \/ (tmpHere /\ P!ParentThere(i, wd, outDirs))
                               => i \in DOMAIN after /\ after[i].d = disk[i].d
                         /\ i \notin inout => i \in DOMAIN after /\ after[i] = disk[i]
                    /\ \A p \in DOMAIN after \cap P!FileList(ran, wd, files, outDirs) : p \in inputs \/ p = depsFile
  BY DEF P!RerunsStartClean
<1>1. \A i \in inputs : i \in Path /\ P!Clean(i) = i /\ Plain(i)
  BY PlainIsClean DEF Inside
<1>2. after = P!Over(back, left)
  BY DEF P!BetweenReruns
<1>3. inout \subseteq inputs
  BY <1>1 DEF P!InOutFiles
<1>4. ASSUME NEW f \in files, at(f) \in inputs PROVE at(f) \in inout
  <2>1. rel(f) = at(f) /\ at(f) # P!NoPath
    BY <1>4, NameInExecRoot
  <2> HIDE DEF at, rel
  <2>2. at(f) \in {P!Clean(i) : i \in inputs}
    BY <1>1, <1>4
  <2>3. at(f) \in {rel(g) : g \in files} \ {P!NoPath}
    BY <2>1
  <2> QED BY <2>2, <2>3 DEF P!InOutFiles, rel
<1>5. ASSUME NEW d \in outDirs, NEW i \in inputs, P!Under(i, at(d)) PROVE i \in inout
  <2>1. Relative(d) /\ d # <<>> /\ at(d) \in Path
    <3>1. Relative(d) /\ d # <<>>
      OBVIOUS
    <3>2. wd \in Path /\ d \in Path
      BY <3>1 DEF Relative
    <3> QED BY <3>1, <3>2, ConcatType, CleanOfAppend DEF P!At, P!Join
  <2>2. Begins(at(d), i)
    BY <1>1, <1>5, <2>1, PrefixBegins DEF P!Under
  <2>3. Inside(at(d))
    <3> HIDE DEF at
    <3>1. Plain(at(d))
      BY <1>1, <2>1, <2>2, PlainBegins
    <3>2. 1 \in 1..Len(at(d))
      BY <2>1, PathFacts
    <3>3. at(d)[1] = i[1]
      BY <2>2, <3>2 DEF Begins
    <3> QED BY <3>1, <3>3 DEF Inside
  <2>4. rel(d) = at(d) /\ at(d) # P!NoPath
    BY <2>1, <2>3, NameInExecRoot
  <2> HIDE DEF at, rel
  <2>5. i \in {P!Clean(j) : j \in inputs}
    BY <1>1
  <2>6. at(d) \in ({rel(g) : g \in outDirs} \ {P!NoPath}) \ {P!Clean(j) : j \in inputs}
    <3>1. at(d) \notin {P!Clean(j) : j \in inputs}
      BY <1>1
    <3> QED BY <2>4, <3>1
  <2>7. P!InDir(i, at(d))
    BY <1>5 DEF P!InDir
  <2> QED BY <2>5, <2>6, <2>7 DEF P!InOutFiles, rel
<1>6. /\ DOMAIN back = stashed /\ \A p \in stashed : back[p].d = disk[p].d
      /\ DOMAIN left = {q \in DOMAIN ran \ {at(f) : f \in files \ {depsFile}} :
                          \A d \in outDirs : ~P!Under(q, at(d))}
      /\ \A p \in DOMAIN left : left[p] = ran[p]
  BY DEF P!RemoveAllOutputs
<1>7. \A p : p \in P!FileList(ran, wd, files, outDirs) =>
         \/ \E f \in files : p = at(f)
         \/ \E d \in outDirs : P!Under(p, at(d))
  BY DEF P!FileList
<1>8. \A p \in DOMAIN disk : p \in P!FileList(disk, wd, files, outDirs) <=>
         \/ \E f \in files : p = at(f)
         \/ \E d \in outDirs : P!Under(p, at(d))
  BY DEF P!FileList
<1> HIDE DEF back, left, inout, after, at
<1>9. /\ DOMAIN P!Over(back, left) = DOMAIN back \cup DOMAIN left
      /\ \A x \in DOMAIN back : P!Over(back, left)[x] = back[x]
      /\ \A x \in DOMAIN left : x \notin DOMAIN back => P!Over(back, left)[x] = left[x]
  BY OverAt
<1>10. ASSUME NEW i \in inputs \cap DOMAIN disk
       PROVE  /\ i \notin listed \/ (tmpHere /\ P!ParentThere(i, wd, outDirs)) => i \in DOMAIN after /\ after[i].d = disk[i].d
              /\ i \notin inout => i \in DOMAIN after /\ after[i] = disk[i]
  <2>1. ASSUME i \notin listed, i \notin DOMAIN back PROVE i \in DOMAIN after /\ after[i] = disk[i]
    <3>1. (\A f \in files : i # at(f)) /\ \A d \in outDirs : ~P!Under(i, at(d))
      BY <1>8, <2>1
    <3>2. i \in DOMAIN ran /\ ran[i] = disk[i]
      BY <2>1
    <3>3. i \in DOMAIN left /\ left[i] = disk[i]
      BY <1>6, <3>1, <3>2
    <3> QED BY <1>2, <1>9, <2>1, <3>3
  <2>2. ASSUME i \in DOMAIN back PROVE i \in inout /\ i \in DOMAIN after /\ after[i].d = disk[i].d
    <3>1. i \in stashed /\ back[i].d = disk[i].d
      BY <1>6, <2>2
    <3> QED BY <1>2, <1>9, <2>2, <3>1
  <2>3. i \in listed => i \in inout
    BY <1>4, <1>5, <1>8
  <2>4. i \in inout /\ tmpHere /\ P!ParentThere(i, wd, outDirs) => i \in DOMAIN back
    BY <1>6
  <2> HIDE DEF listed, stashed
  <2>5. CASE i \in DOMAIN back
    BY <2>2, <2>5
  <2>6. CASE i \notin DOMAIN back
    <3>1. CASE i \in listed
      BY <2>3, <2>4, <2>6, <3>1
    <3>2. CASE i \notin listed
      BY <2>1, <2>6, <3>2
    <3> QED BY <3>1, <3>2
  <2> QED BY <2>5, <2>6
<1>11. ASSUME NEW p \in DOMAIN after, p \in P!FileList(ran, wd, files, outDirs) PROVE p \in inputs \/ p = depsFile
  <2>1. CASE p \in DOMAIN back
    BY <1>3, <1>6, <2>1
  <2>2. CASE p \notin DOMAIN back
    <3>1. p \in DOMAIN left
      BY <1>2, <1>9, <1>11, <2>2
    <3>2. \A d \in outDirs : ~P!Under(p, at(d))
      BY <1>6, <3>1
    <3>3. PICK f \in files : p = at(f)
      BY <1>7, <1>11, <3>2
    <3>4. f = depsFile
      BY <1>6, <3>1, <3>3
    <3> QED BY <3>3, <3>4 DEF at
  <2> QED BY <2>1, <2>2
<1> QED BY <1>10, <1>11

(* From a directory of the exec root, Rel leads to a path of the exec root *)
(* without leaving it.                                                     *)
LEMMA LeadsInside ==
  ASSUME NEW e, Rooted(e), NEW w, Plain(w), NEW c, Plain(c)
  PROVE  P!Clean(w \o P!Rel(e \o w, e \o c)) = c
<1> DEFINE a == e \o w  t == e \o c  b == Len(e)  k == Len(w)  l == Len(c)
           n == P!CommonPrefix(a, t)  m == n - b
           r == SubSeq(t, n + 1, Len(t))
           h == SubSeq(w, 1, m)
           s == SubSeq(c, m + 1, l)
<1>1. e \in Path /\ w \in Path /\ c \in Path /\ b \in Nat \ {0} /\ k \in Nat /\ l \in Nat
  BY PathFacts DEF Rooted, Plain
<1>2. a \in Path /\ Len(a) = b + k /\ \A i \in 1..(b + k) : a[i] = IF i <= b THEN e[i] ELSE w[i - b]
  BY <1>1, ConcatElements, Zenon
<1>3. t \in Path /\ Len(t) = b + l /\ \A i \in 1..(b + l) : t[i] = IF i <= b THEN e[i] ELSE c[i - b]
  BY <1>1, ConcatElements, Zenon
<1>4. Rooted(a) /\ Rooted(t)
  BY RootedConcat
<1>5. SubSeq(a, 1, b) = SubSeq(t, 1, b)
  BY <1>1, PartsOfConcat
<1>6. P!Rel(a, t) = Ups(Len(a) - n) \o r
  BY DEF P!Rel, Ups
<1> HIDE DEF a, t, b, k, l, n
<1>7. /\ n \in 1..Len(a) /\ n <= Len(t) /\ SubSeq(a, 1, n) = SubSeq(t, 1, n)
      /\ \A j \in 0..Len(a) : j <= Len(t) /\ SubSeq(a, 1, j) = SubSeq(t, 1, j) => j <= n
  BY <1>4, CommonPrefixFacts DEF n
<1>8. m \in 0..k /\ m <= l /\ n = b + m /\ Len(a) - n = k - m
  <2>1. b \in 0..Len(a) /\ b <= Len(t)
    BY <1>1, <1>2, <1>3
  <2>2. b <= n
    BY <1>5, <1>7, <2>1
  <2> QED BY <1>1, <1>2, <1>3, <1>7, <2>2
<1> HIDE DEF m
<1>9. h \in Path /\ Len(h) = m /\ \A i \in 1..m : h[i] = w[i]
  <2>1. 1 \in 1..(Len(w) + 1) /\ m \in (1 - 1)..Len(w)
    BY <1>1, <1>8 DEF k
  <2>2. h \in Path /\ Len(h) = m - 1 + 1 /\ \A i \in 1..(m - 1 + 1) : h[i] = w[1 + i - 1]
    BY <1>1, <2>1, SubPath
  <2> HIDE DEF h
  <2>3. m - 1 + 1 = m /\ \A i \in 1..m : 1 + i - 1 = i
    BY <1>8
  <2> QED BY <2>2, <2>3
<1>10. r \in Path /\ Len(r) = l - m /\ \A i \in 1..(l - m) : r[i] = c[m + i]
  <2>1. n + 1 \in 1..(Len(t) + 1) /\ Len(t) \in ((n + 1) - 1)..Len(t)
    BY <1>1, <1>3, <1>7, <1>8
  <2>2. r \in Path /\ Len(r) = Len(t) - (n + 1) + 1 /\ \A i \in 1..(Len(t) - (n + 1) + 1) : r[i] = t[(n + 1) + i - 1]
    BY <1>3, <2>1, SubPath
  <2> HIDE DEF r
  <2>3. Len(t) - (n + 1) + 1 = l - m
    BY <1>1, <1>3, <1>8
  <2>4. ASSUME NEW i \in 1..(l - m) PROVE r[i] = c[m + i]
    <3>1. r[i] = t[(n + 1) + i - 1]
      BY <2>2, <2>3
    <3>2. (n + 1) + i - 1 = b + (m + i) /\ b + (m + i) \in 1..(b + l) /\ ~(b + (m + i) <= b) /\ (b + (m + i)) - b = m + i
      BY <1>1, <1>8
    <3> QED BY <1>3, <3>1, <3>2
  <2> QED BY <2>2, <2>3, <2>4
<1> HIDE DEF h, r
<1>11. ASSUME NEW i \in 1..m PROVE w[i] = c[i]
  <2> DEFINE x == SubSeq(a, 1, n)  y == SubSeq(t, 1, n)  j == b + i
  <2>1. \A q \in 1..(n - 1 + 1) : x[q] = a[1 + q - 1]
    <3>1. 1 \in 1..(Len(a) + 1) /\ n \in (1 - 1)..Len(a)
      BY <1>1, <1>2, <1>7
    <3> QED BY <1>2, <3>1, SubPath
  <2>2. \A q \in 1..(n - 1 + 1) : y[q] = t[1 + q - 1]
    <3>1. 1 \in 1..(Len(t) + 1) /\ n \in (1 - 1)..Len(t)
      BY <1>1, <1>2, <1>3, <1>7
    <3> QED BY <1>3, <3>1, SubPath
  <2> HIDE DEF x, y
  <2>3. x = y
    BY <1>7 DEF x, y
  <2>4. j \in 1..(n - 1 + 1) /\ 1 + j - 1 = j /\ j \in 1..(b + k) /\ j \in 1..(b + l) /\ ~(j <= b) /\ j - b = i
    BY <1>1, <1>8
  <2> HIDE DEF j
  <2>5. a[j] = t[j]
    BY <2>1, <2>2, <2>3, <2>4
  <2> QED BY <1>2, <1>3, <2>4, <2>5
<1>12. h \o r = c
  <2>1. /\ h \o r \in Path /\ Len(h \o r) = Len(h) + Len(r)
        /\ \A i \in 1..(Len(h) + Len(r)) : (h \o r)[i] = IF i <= Len(h) THEN h[i] ELSE r[i - Len(h)]
    BY <1>9, <1>10, ConcatElements, Zenon
  <2>2. Len(h \o r) = l
    BY <1>1, <1>8, <1>9, <1>10, <2>1
  <2>3. ASSUME NEW i \in 1..l PROVE (h \o r)[i] = c[i]
    <3>1. i \in 1..(Len(h) + Len(r))
      BY <1>1, <1>8, <1>9, <1>10
    <3>2. CASE i <= m
      <4>1. i \in 1..m /\ i <= Len(h)
        BY <1>8, <1>9, <3>2
      <4> QED BY <1>9, <1>11, <2>1, <3>1, <4>1
    <3>3. CASE ~(i <= m)
      <4>1. i - m \in 1..(l - m) /\ m + (i - m) = i /\ ~(i <= Len(h)) /\ i - Len(h) = i - m
        BY <1>1, <1>8, <1>9, <3>3
      <4> QED BY <1>10, <2>1, <3>1, <4>1
    <3> QED BY <3>2, <3>3
  <2> QED BY <1>1, <2>1, <2>2, <2>3, PathsEqual DEF l
<1> DEFINE u == Ups(k - m)
<1>13. u \in Path /\ P!Clean(w \o u) = h
  <2>1. k - m \in 0..Len(w) /\ k - m \in Nat /\ Len(w) - (k - m) = m
    BY <1>1, <1>8 DEF k
  <2>2. Normal(w) /\ \A i \in 1..Len(w) : w[i] \notin Special
    BY DEF Plain, Normal, Special
  <2>3. \A i \in (Len(w) - (k - m) + 1)..Len(w) : w[i] \notin Special
    BY <1>1, <1>8, <2>1, <2>2
  <2>4. P!Clean(w \o u) = SubSeq(w, 1, Len(w) - (k - m))
    BY <1>1, <2>1, <2>2, <2>3, ClimbsUp
  <2>5. u \in Path
    BY <2>1, UpsFacts
  <2> QED BY <2>1, <2>4, <2>5 DEF h
<1> HIDE DEF u
<1>14. P!Clean(w \o (u \o r)) = P!Clean(h \o r)
  <2>1. w \o u \in Path /\ (w \o u) \o r = w \o (u \o r)
    <3>1. w \in Path /\ u \in Path /\ r \in Path
      BY <1>1, <1>10, <1>13
    <3>2. w \o u \in Path
      BY <3>1, ConcatType, Zenon
    <3>3. (w \o u) \o r = w \o (u \o r)
      BY <3>1, ConcatConcat, Zenon
    <3> QED BY <3>2, <3>3
  <2>2. P!Clean((w \o u) \o r) = P!Clean(P!Clean(w \o u) \o r)
    BY <1>10, <2>1, CleanLeft, Zenon
  <2> QED BY <1>13, <2>1, <2>2
<1>15. P!Rel(a, t) = u \o r
  BY <1>6, <1>8 DEF u
<1>16. P!Clean(c) = c
  BY PlainIsClean
<1> QED BY <1>12, <1>14, <1>15, <1>16 DEF a, t

(* populateCommandIO: however often and in whatever spellings outputs of   *)
(* the exec root are named, each is in the list of the working directory   *)
(* once, and by a name that leads to it.                                   *)
THEOREM OutputsAreNamedOnce ==
  ASSUME NEW execRoot, Rooted(execRoot), NEW wd, Plain(wd), NEW list \in Seq(Path),
         \A i \in 1..Len(list) : Relative(list[i]) /\ Plain(P!Clean(list[i]))
  PROVE  P!OutputsNamedOnce(execRoot, wd, list)
<1> DEFINE n == Len(list)
           rel(p) == P!RelToWorkingDir(execRoot, wd, p)
           firsts == {j \in 1..n : \A k \in 1..(j - 1) : ~P!SamePath(list[k], list[j])}
           named == P!PopulateOutputs(execRoot, wd, list)
<1>1. n \in Nat /\ P!ToSet(list) = {list[i] : i \in 1..n}
  BY DEF P!ToSet
<1>2. named = {<<list[j], rel(list[j])>> : j \in firsts}
  BY DEF P!PopulateOutputs, P!Dedup
<1>3. \A i \in 1..n : list[i] \in Path /\ Relative(list[i]) /\ Plain(P!Clean(list[i]))
  OBVIOUS
<1> HIDE DEF n, named
<1>4. ASSUME NEW i \in 1..n PROVE P!Clean(wd \o rel(list[i])) = P!Clean(list[i])
  <2> DEFINE p == list[i]  c == P!Clean(p)
  <2>1. p \in Path /\ Relative(p) /\ Plain(c)
    BY <1>3
  <2>2. execRoot \in Path /\ wd \in Path
    BY DEF Rooted, Plain
  <2> HIDE DEF p
  <2>3. ~P!IsAbs(p)
    <3>1. p # <<>> => 1 \in 1..Len(p)
      BY <2>1, PathFacts
    <3> QED BY <2>1, <3>1 DEF P!IsAbs, Relative
  <2>4. P!Join(execRoot, wd) = execRoot \o wd
    BY RootedConcat, RootedIsClean DEF P!Join
  <2>5. P!Join(execRoot, p) = execRoot \o c
    <3>1. P!Clean(execRoot \o P!Clean(p)) = P!Clean(execRoot \o p)
      BY <2>1, <2>2, CleanRight, Zenon
    <3>2. P!Clean(execRoot \o c) = execRoot \o c
      BY <2>1, RootedConcat, RootedIsClean
    <3> QED BY <3>1, <3>2 DEF P!Join
  <2>6. rel(p) = P!Rel(execRoot \o wd, execRoot \o c)
    BY <2>3, <2>4, <2>5 DEF P!RelToWorkingDir
  <2> HIDE DEF rel, c
  <2>7. P!Clean(wd \o rel(p)) = c
    BY <2>1, <2>6, LeadsInside
  <2> QED BY <2>7 DEF p, c
<1>5. ASSUME NEW x \in named, NEW y \in named, P!Clean(x[1]) = P!Clean(y[1]) PROVE x = y
  <2> HIDE DEF rel
  <2>1. PICK i \in firsts : x = <<list[i], rel(list[i])>>
    BY <1>2
  <2>2. PICK j \in firsts : y = <<list[j], rel(list[j])>>
    BY <1>2
  <2>3. P!SamePath(list[i], list[j]) /\ P!SamePath(list[j], list[i])
    BY <1>5, <2>1, <2>2 DEF P!SamePath
  <2>4. i \in 1..n /\ j \in 1..n
    OBVIOUS
  <2>5. ~(i < j)
    <3>1. i < j => i \in 1..(j - 1)
      BY <1>1, <2>4
    <3> QED BY <2>3, <3>1
  <2>6. ~(j < i)
    <3>1. j < i => j \in 1..(i - 1)
      BY <1>1, <2>4
    <3> QED BY <2>3, <3>1
  <2>7. i = j
    BY <1>1, <2>4, <2>5, <2>6
  <2> QED BY <2>1, <2>2, <2>7
<1>6. ASSUME NEW i \in 1..n PROVE \E j \in firsts : P!Clean(list[j]) = P!Clean(list[i])
  <2> DEFINE S == {j \in 1..n : P!SamePath(list[j], list[i])}
  <2>1. S \subseteq Nat /\ i \in S
    BY <1>1 DEF P!SamePath
  <2>2. PICK j \in S : \A k \in S : j <= k
    <3> HIDE DEF S
    <3> QED BY <2>1, LeastNumber
  <2>3. ASSUME NEW k \in 1..(j - 1), P!SamePath(list[k], list[j]) PROVE FALSE
    <3>1. k \in 1..n /\ ~(j <= k)
      BY <1>1
    <3>2. k \in S
      BY <2>3, <3>1 DEF P!SamePath
    <3> QED BY <2>2, <3>1, <3>2
  <2>4. j \in firsts
    BY <2>3
  <2> QED BY <2>4 DEF P!SamePath
<1>7. {P!Clean(wd \o x[2]) : x \in named} = {P!Clean(p) : p \in P!ToSet(list)}
  <2> HIDE DEF rel
  <2>1. ASSUME NEW x \in named PROVE P!Clean(wd \o x[2]) \in {P!Clean(p) : p \in P!ToSet(list)}
    <3>1. PICK j \in firsts : x = <<list[j], rel(list[j])>>
      BY <1>2
    <3>2. P!Clean(wd \o x[2]) = P!Clean(list[j]) /\ j \in 1..n
      BY <1>4, <3>1
    <3> QED BY <1>1, <3>2
  <2>2. ASSUME NEW i \in 1..n PROVE P!Clean(list[i]) \in {P!Clean(wd \o x[2]) : x \in named}
    <3>1. PICK j \in firsts : P!Clean(list[j]) = P!Clean(list[i])
      BY <1>6
    <3> DEFINE x == <<list[j], rel(list[j])>>
    <3>2. x \in named /\ x[2] = rel(list[j]) /\ j \in 1..n
      BY <1>2
    <3> HIDE DEF x
    <3> QED BY <1>4, <3>1, <3>2
  <2> QED BY <1>1, <2>1, <2>2
<1> QED BY <1>5, <1>7 DEF P!OutputsNamedOnce, named
-----------------------------------------------------------------------------
(* The jobs of module Algorithms                                           *)

(* What an input is, however far it has grown.                             *)
JobInv ==
  /\ job = "reruns" => input \in Seq(Reruns)
  /\ job = "names" => input \in Seq(OutputNames)
  /\ job = "virtual" => input \in Seq(Virtuals)
  /\ job = "versions" => input \in Seq(Versions)
  /\ job = "path" => Given(input)
  /\ job = "outputs" => with \in Downloads
  /\ job = "clean" => with \in Reran
  /\ job = "response" => with \in Responses
  /\ job = "sdk" => with \in SDKTrees

(* A path that grows by an element other than the root is still given.     *)
LEMMA GivenGrows ==
  ASSUME NEW p, Given(p), NEW e \in Elements
  PROVE  Given(Append(p, e))
<1>1. p \in Seq(Element) /\ e \in Element /\ e # P!Root
  BY PathsAssumption DEF Given, Path
<1>2. Append(p, e) \in Seq(Element) /\ Len(Append(p, e)) = Len(p) + 1
  BY <1>1
<1>3. \A i \in 2..(Len(p) + 1) : Append(p, e)[i] = IF i <= Len(p) THEN p[i] ELSE e
  BY <1>1
<1>4. \A i \in 2..(Len(p) + 1) : Append(p, e)[i] # P!Root
  BY <1>1, <1>3 DEF Given
<1> QED BY <1>2, <1>4 DEF Given, Path

(* Every job starts from what the assumptions describe, and grows by it.   *)
LEMMA JobInvariant == JobSpec => []JobInv
<1>1. StartJob => JobInv
  <2> SUFFICES ASSUME StartJob PROVE JobInv
    OBVIOUS
  <2> USE DEF Start, JobInv
  <2>1. CASE \E j \in {"names", "reruns", "versions"} : Start(j, "", <<>>)
    <3>1. input = <<>> /\ (job = "names" \/ job = "reruns" \/ job = "versions")
      BY <2>1
    <3>2. input \in Seq(OutputNames) /\ input \in Seq(Reruns) /\ input \in Seq(Versions)
      BY <3>1
    <3>3. job \notin {"virtual", "path", "outputs", "clean", "response", "sdk"}
      BY <3>1
    <3> QED BY <3>2, <3>3
  <2>2. CASE \E w \in Downloads : Start("outputs", w, <<>>)
    BY <2>2
  <2>3. CASE \E w \in Reran : Start("clean", w, <<>>)
    BY <2>3
  <2>4. CASE \E w \in Places : Start("virtual", w, <<>>)
    BY <2>4
  <2>5. CASE \E w \in Responses : Start("response", w, <<>>)
    BY <2>5
  <2>6. CASE \E p \in PathStarts : Start("path", "", p)
    BY <2>6, PathsAssumption
  <2>7. CASE \E t \in SDKTrees : Start("sdk", t, <<>>)
    BY <2>7
  <2> QED BY <2>1, <2>2, <2>3, <2>4, <2>5, <2>6, <2>7 DEF StartJob
<1>2. JobInv /\ [GrowJob]_vars => JobInv'
  <2> SUFFICES ASSUME JobInv, [GrowJob]_vars PROVE JobInv'
    OBVIOUS
  <2> USE DEF JobInv
  <2>1. CASE GrowReruns
    BY <2>1 DEF GrowReruns, GrowIn, Grow
  <2>2. CASE GrowPath
    BY <2>2, GivenGrows DEF GrowPath, GrowIn, Grow
  <2>3. CASE GrowVersions
    BY <2>3 DEF GrowVersions, GrowIn, Grow
  <2>4. CASE GrowVirtual
    BY <2>4 DEF GrowVirtual, GrowIn, Grow
  <2>5. CASE GrowNames
    BY <2>5 DEF GrowNames, GrowIn, Grow
  <2>6. CASE UNCHANGED vars
    BY <2>6 DEF vars
  <2> QED BY <2>1, <2>2, <2>3, <2>4, <2>5, <2>6 DEF GrowJob
<1> QED BY <1>1, <1>2, PTL DEF JobSpec

(* A side has a rerun exactly if it counts one.                            *)
LEMMA SideCounts ==
  ASSUME NEW S, NEW reruns \in Seq(S), NEW remote
  PROVE  /\ Cardinality(Side(reruns, remote)) \in Nat
         /\ Side(reruns, remote) # {} => Cardinality(Side(reruns, remote)) > 0
<1>1. IsFiniteSet(1..Len(reruns)) /\ Side(reruns, remote) \subseteq 1..Len(reruns)
  BY FS_Interval, 1 \in Int, Len(reruns) \in Int DEF Side
<1>2. IsFiniteSet(Side(reruns, remote))
  BY <1>1, FS_Subset
<1>3. Cardinality(Side(reruns, remote)) \in Nat
  BY <1>2, FS_CardinalityType
<1>4. Cardinality(Side(reruns, remote)) = 0 <=> Side(reruns, remote) = {}
  BY <1>2, FS_EmptySet
<1> QED BY <1>3, <1>4

(* compareAction: however many reruns come back, of whatever exit codes,   *)
(* outputs and digests, the verdict is what they say, and the rules drop   *)
(* what they name.                                                         *)
THEOREM VerdictsAreSound == JobSpec => []VerdictSound
<1>1. JobInv => VerdictSound
  <2> SUFFICES ASSUME JobInv, job = "reruns" PROVE VerdictSound
    BY DEF VerdictSound
  <2>1. input \in Seq(Reruns) /\ \A r \in Reruns : IsRerun(r)
    BY CompareAssumption DEF JobInv
  <2>2. NumLocal \in Nat /\ (Side(input, FALSE) # {} => NumLocal > 0)
    BY <2>1, SideCounts DEF NumLocal
  <2>3. NumRemote \in Nat /\ (Side(input, TRUE) # {} => NumRemote > 0)
    BY <2>1, SideCounts DEF NumRemote
  <2>4. ASSUME NEW asked \in {NumRemote, IF NumRemote = 0 THEN 1 ELSE NumRemote}
        PROVE  VerdictFollows(input, NumLocal, asked)
    <3>1. asked \in Nat /\ (Side(input, TRUE) # {} => asked > 0)
      <4>1. CASE asked = NumRemote
        BY <2>3, <4>1
      <4>2. CASE asked # NumRemote
        <5>1. NumRemote = 0 /\ asked = 1
          BY <2>4, <4>2
        <5> QED BY <5>1
      <4> QED BY <4>1, <4>2
    <3> QED BY <2>1, <2>2, <3>1, VerdictIsSound
  <2>5. ASSUME NEW rules \in RuleLists
        PROVE  IgnoredByRuleOnly(input, NumLocal, NumRemote, rules)
    <3>1. rules \in Seq(Rule)
      BY CompareAssumption
    <3> QED BY <2>1, <2>2, <2>3, <3>1, VerdictIsSound
  <2> QED BY <2>4, <2>5 DEF VerdictSound
<1> QED BY <1>1, JobInvariant, PTL

(* The output, rerun, virtual input and response jobs of action.go and     *)
(* truncate.go keep what FilesDelivered says, for every action that meets  *)
(* the assumptions.                                                        *)
THEOREM FilesAreDelivered == JobSpec => []FilesDelivered
<1>1. JobInv => FilesDelivered
  <2> SUFFICES ASSUME JobInv PROVE FilesDelivered
    OBVIOUS
  <2>1. ASSUME job = "outputs", NEW opt \in Option
        PROVE  P!OutputsDelivered(with.disk, with.wd, with.outs, with.files, with.dirs, opt)
    <3>1. IsDownload(with)
      BY <2>1, FilesAssumption DEF JobInv
    <3>2. /\ Earlier(with.disk) /\ Plain(with.wd)
          /\ \A q \in DOMAIN with.outs : Plain(q)
          /\ \A d \in with.dirs : Plain(d)
          /\ \A q \in DOMAIN with.outs : q \in with.files \/ \E d \in with.dirs : P!Under(q, d)
      BY <3>1 DEF IsDownload
    <3> QED BY <3>2, OutputsAreDelivered
  <2>2. ASSUME job = "clean", NEW tmpHere \in BOOLEAN
        PROVE  P!RerunsStartClean(ExecRoot, with.wd, with.disk, with.ran, with.inputs, with.files,
                                  with.dirs, with.deps, tmpHere)
    <3>1. HasRun(with) /\ Rooted(ExecRoot)
      BY <2>2, FilesAssumption, PathsAssumption DEF JobInv
    <3>2. /\ Relative(with.wd) /\ \A f \in with.files \cup with.dirs : Relative(f) /\ f # <<>>
          /\ \A i \in with.inputs : Inside(i)
          /\ \A p \in DOMAIN with.disk \ P!FileList(with.disk, with.wd, with.files, with.dirs) :
                p \in DOMAIN with.ran /\ with.ran[p] = with.disk[p]
          /\ with.deps \in with.files => P!At(with.wd, with.deps) = with.deps
      BY <3>1 DEF HasRun
    <3> QED BY <3>1, <3>2, RerunsStartFromCleanInputs
  <2>3. ASSUME job = "response", NEW max \in Limits, NEW prefix \in NoteLengths
        PROVE  O!ResponseFits(with, max, prefix)
    <3>1. with \in Response /\ Whole(with) /\ max \in Nat /\ prefix \in Nat
      BY <2>3, ResponseAssumption DEF JobInv
    <3> QED BY <3>1, ResponseFitsAlways DEF Whole
  <2>4. ASSUME job = "names", NEW wd \in WorkingDirs
        PROVE  P!OutputsNamedOnce(ExecRoot, wd, input)
    <3>1. input \in Seq(OutputNames) /\ Rooted(ExecRoot) /\ Plain(wd)
      BY <2>4, PathsAssumption DEF JobInv
    <3>2. \A n \in OutputNames : Relative(n) /\ Plain(P!Clean(n)) /\ n \in Path
      BY FilesAssumption DEF Relative
    <3>3. input \in Seq(Path) /\ \A i \in 1..Len(input) : input[i] \in OutputNames
      BY <3>1, <3>2
    <3> QED BY <3>1, <3>2, <3>3, OutputsAreNamedOnce
  <2>5. ASSUME job = "virtual", \A u, v \in InputSet : u.path = v.path => u = v
        PROVE  P!VirtualInputsThere(with.disk, with.dirs, InputSet)
    <3>1. input \in Seq(Virtuals)
      BY <2>5 DEF JobInv
    <3>2. \A v \in InputSet : v \in Virtuals
      BY <3>1 DEF InputSet
    <3>3. \A v \in InputSet : IsVirtual(v)
      BY <3>2, FilesAssumption
    <3> QED BY <2>5, <3>3, VirtualInputsAreThere
  <2> QED BY <2>1, <2>2, <2>3, <2>4, <2>5 DEF FilesDelivered
<1> QED BY <1>1, JobInvariant, PTL

(* Where versions are looked for is a directory.                           *)
LEMMA SDKDirIsDir == \A d : SDKDir(d) => d \in Dir
<1> SUFFICES ASSUME NEW d, SDKDir(d) PROVE d \in Dir
  OBVIOUS
<1>1. CASE d = <<"Windows Kits">>
  BY <1>1, OneName DEF Name
<1>2. CASE d = <<"VC", "Tools", "MSVC">>
  BY <1>2 DEF Dir, Name
<1>3. CASE d = <<"Windows Kits", d[2], "Include">> /\ d[2] \in Version
  <2>1. \A x, y, z \in Name : <<x, y, z>> \in Dir
    BY DEF Dir
  <2>2. "Windows Kits" \in Name /\ d[2] \in Name /\ "Include" \in Name
    BY <1>3 DEF Name
  <2>3. <<"Windows Kits", d[2], "Include">> \in Dir
    BY <2>1, <2>2
  <2> QED BY <1>3, <2>3
<1> QED BY <1>1, <1>2, <1>3 DEF SDKDir

(* The path, version and SDK jobs of pathtranslator.go and of the clang-cl *)
(* preprocessor keep what PathsRight says, for paths, directories and      *)
(* trees of any size.                                                      *)
THEOREM PathsAreRight == JobSpec => []PathsRight
<1>1. JobInv => PathsRight
  <2> SUFFICES ASSUME JobInv PROVE PathsRight
    OBVIOUS
  <2>1. ASSUME job = "path"
        PROVE  /\ \A wd \in WorkingDirs : P!PathsKeepTheirFile(ExecRoot, wd, input)
               /\ input # <<>> => \A wd \in WorkingDirs :
                     P!SavedDepsAreScanned(ExecRoot, wd, {<<"a">>, input})
    <3>1. Given(input) /\ input \in Path /\ Rooted(ExecRoot)
      BY <2>1, PathsAssumption DEF JobInv, Given
    <3>2. ASSUME NEW wd \in WorkingDirs
          PROVE  P!PathsKeepTheirFile(ExecRoot, wd, input)
      BY <3>1, PathsAssumption, PathsNameTheirFile
    <3>3. ASSUME NEW wd \in WorkingDirs, input # <<>>
          PROVE  P!SavedDepsAreScanned(ExecRoot, wd, {<<"a">>, input})
      <4>1. Relative(wd)
        BY PathsAssumption DEF Plain, Relative, Special
      <4>2. Given(<<"a">>) /\ <<"a">> # <<>>
        BY DEF Given, Path, Element
      <4>3. \A p \in {<<"a">>, input} : Given(p) /\ p # <<>>
        BY <3>1, <3>3, <4>2
      <4> QED BY <3>1, <4>1, <4>3, DepsSavedAreScanned
    <3> QED BY <3>2, <3>3
  <2>2. ASSUME job = "sdk"
        PROVE  P!SDKFound(with)
    <3>1. \A d \in DOMAIN with : d \in Dir /\ with[d] \in Listing
      BY <2>2, VersionsAssumption, SDKDirIsDir DEF JobInv
    <3> QED BY <3>1, GreatestSDKIsFound
  <2>3. ASSUME job = "versions"
        PROVE  P!MaxVersionFound(input)
    <3>1. input \in Listing
      BY <2>3, VersionsAssumption DEF JobInv, Listing
    <3> QED BY <3>1, MaxVersionIsFound
  <2> QED BY <2>1, <2>2, <2>3 DEF PathsRight
<1> QED BY <1>1, JobInvariant, PTL
=============================================================================
