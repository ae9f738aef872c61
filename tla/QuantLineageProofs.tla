-------------------------- MODULE QuantLineageProofs --------------------------
(***************************************************************************)
(* What holds of QuantLineage for any number of runs, strategies, datasets *)
(* and windows: the lineage is one that a load accepts, with its links and *)
(* its pinned memories, a sealed holdout is opened once along a line of    *)
(* descent, a report rests on all that its run completed, and a refinement *)
(* tests nothing again.                                                    *)
(*                                                                         *)
(* The argument: a run descends only from runs that have ended, and a run  *)
(* that has ended keeps its candidates, its report and its links, but for  *)
(* the one to its retry (Sealed); and a comparison younger than the last   *)
(* change of its run covers what the run has completed (Compared).  What a *)
(* pinned memory was composed from had ended by then, or is the parent     *)
(* that ends in the same step, so that composing it again later sees the   *)
(* same rows (Timed, Canonical); the newest ancestor is the parent (Older, *)
(* Apart), which comes first and, being one run, fits (Booked, Covered).   *)
(* The composition folds over sequences; what it returns is proved from    *)
(* the least number principle.                                             *)
(***************************************************************************)
EXTENDS QuantLineage, FiniteSetTheorems, WellFoundedInduction, TLAPS

\* A row, with whatever memory and counters it has.
RowFits(row) ==
  row \in [state: RunStates, mode: {"plan", "auto"}, window: {row.window},
           parent: Runs \cup {NoRun}, seed: Keys \cup {NoKey},
           retry_of: Runs \cup {NoRun}, retry_child: Runs \cup {NoRun},
           policy: Policies, root: Runs \cup {NoRun}, version: 0..2,
           child: Runs \cup {NoRun}, memory: {row.memory}, created: {row.created},
           ended: {row.ended}, used: {row.used}, repairs: {row.repairs}]

\* The work of a run, whatever its feedback says.
WorkFits(w) ==
  w \in [candidates: Seq(Candidate), comparisons: SUBSET Comparison, feedback: {w.feedback},
         artifacts: Nat, changed: Nat]

\* A run that was not created yet is empty, and one that goes on has no report.
Fits ==
  /\ runs = [r \in Runs |-> runs[r]] /\ \A r \in Runs : RowFits(runs[r])
  /\ work = [r \in Runs |-> work[r]] /\ \A r \in Runs : WorkFits(work[r])
  /\ reports = [r \in Runs |-> reports[r]]
  /\ \A r \in Runs : runs[r].state = "absent" => runs[r] = Absent
  /\ \A r \in Runs : ~Ended(r) => reports[r] = NoReport

\* What a run links to was created.
Linked(r) ==
  {runs[r].parent, runs[r].retry_of, runs[r].retry_child, runs[r].root, runs[r].child}
    \subseteq Created(runs) \cup {NoRun}

\* No comparison is numbered past the next artifact, and one that is younger
\* than the last change of the run's candidates covers what is completed.
Compared(r) ==
  \A c \in work[r].comparisons :
    /\ c.ordinal <= work[r].artifacts + 1
    /\ c.ordinal > work[r].changed => c.of = Completed(r)

-----------------------------------------------------------------------------
(* Induction and recursion on numbers, from the least number principle.    *)

LEMMA Least ==
  ASSUME NEW T, T \subseteq Nat, T # {}
  PROVE  \E n \in T : \A m \in T : n <= m
<1> DEFINE below == {ss \in Nat \X Nat : ss[1] < ss[2]}
<1>1. IsWellFoundedOn(below, Nat)
  BY NatLessThanWellFounded DEF OpToRel
<1>2. \A x, y \in T : <<y, x>> \in below <=> y < x
  OBVIOUS
<1> HIDE DEF below
<1>3. PICK x \in T : \A y \in T : <<y, x>> \notin below
  BY <1>1, WFMin
<1>4. \A y \in T : ~(y < x)
  BY <1>2, <1>3
<1> QED
  BY <1>4

LEMMA Induct ==
  ASSUME NEW T, NEW n \in Nat, 0 \in T, \A i \in 0..(n - 1) : i \in T => i + 1 \in T
  PROVE  \A i \in 0..n : i \in T
<1> SUFFICES ASSUME {i \in 0..n : i \notin T} # {}  PROVE FALSE
  OBVIOUS
<1> DEFINE out == {i \in 0..n : i \notin T}
<1>1. PICK i \in out : \A j \in out : i <= j
  <2>1. out \subseteq Nat
    OBVIOUS
  <2> HIDE DEF out
  <2> QED
    BY <2>1, Least DEF out
<1>2. i # 0 /\ i \in 1..n /\ i - 1 \in 0..(n - 1)
  BY <1>1
<1>3. i - 1 \in T
  BY <1>1, <1>2
<1> QED
  BY <1>1, <1>2, <1>3

\* A recursive function with values in V that starts with v0 and follows g.
StepFunction(n, V, v0, g) == n \in Nat /\ v0 \in V /\ g \in [(1..n) \X V -> V]
Follows(f, n, V, v0, g) ==
  f \in [0..n -> V] /\ f[0] = v0 /\ \A i \in 1..n : f[i] = g[<<i, f[i - 1]>>]

LEMMA Recursion ==
  ASSUME NEW n, NEW V, NEW v0, NEW g, StepFunction(n, V, v0, g)
  PROVE  \E f : Follows(f, n, V, v0, g)
<1> USE DEF StepFunction
<1> DEFINE Good(m, f) == f[0] = v0 /\ \A i \in 1..m : f[i] = g[<<i, f[i - 1]>>]
           T == {m \in 0..n : \E f \in [0..n -> V] : Good(m, f)}
<1>1. 0 \in T
  <2>1. PICK f \in [0..n -> V] : f = [i \in 0..n |-> v0]
    OBVIOUS
  <2>2. Good(0, f) /\ 0 \in 0..n
    BY <2>1
  <2> HIDE DEF Good
  <2> QED
    BY <2>2
<1>2. ASSUME NEW m \in 0..(n - 1), m \in T
      PROVE  m + 1 \in T
  <2>1. PICK f \in [0..n -> V] : Good(m, f)
    BY <1>2
  <2> DEFINE next == g[<<m + 1, f[m]>>]
             h    == [f EXCEPT ![m + 1] = next]
  <2>2. m + 1 \in 1..n /\ m + 1 \in 0..n /\ f[m] \in V /\ next \in V
    OBVIOUS
  <2>3. next = g[<<m + 1, f[m]>>]
    OBVIOUS
  <2> HIDE DEF next
  <2>6. h \in [0..n -> V] /\ h[m + 1] = next /\ \A i \in 0..m : h[i] = f[i]
    BY <2>2
  <2> HIDE DEF h
  <2>4. h[0] = v0
    BY <2>1, <2>6
  <2>5. ASSUME NEW i \in 1..m+1  PROVE h[i] = g[<<i, h[i - 1]>>]
    <3>1. CASE i = m + 1
      <4>1. i - 1 = m /\ m \in 0..m
        BY <3>1
      <4>2. h[i - 1] = f[m] /\ h[i] = next
        BY <2>6, <3>1, <4>1
      <4> QED
        BY <2>3, <3>1, <4>2
    <3>2. CASE i # m + 1
      <4>1. i \in 1..m /\ i \in 0..m /\ i - 1 \in 0..m
        BY <3>2
      <4> QED
        BY <2>1, <2>6, <4>1
    <3> QED
      BY <3>1, <3>2
  <2>7. Good(m + 1, h)
    BY <2>4, <2>5
  <2> QED
    BY <2>2, <2>6, <2>7
<1>3. n \in T
  <2> HIDE DEF T
  <2> QED
    BY <1>1, <1>2, Induct
<1> QED
  BY <1>3 DEF Follows

-----------------------------------------------------------------------------
(* The operators that compose a pin.                                       *)

\* The recursion of NewKeys has a solution, so that NewKeys follows it.
LEMMA NewKeysIs ==
  ASSUME NEW known \in Seq(Keys), NEW cs \in Seq(Candidate)
  PROVE  \E new \in [0..Len(cs) -> Seq(Keys)] :
           /\ NewKeys(known, cs) = new[Len(cs)] /\ new[0] = <<>>
           /\ \A i \in 1..Len(cs) :
                new[i] = IF /\ Len(known) + Len(new[i - 1]) < MaxMemoryKeys
                            /\ cs[i].state = "completed"
                            /\ cs[i].key \notin Range(known) \cup Range(new[i - 1])
                         THEN Append(new[i - 1], cs[i].key) ELSE new[i - 1]
<1> DEFINE n == Len(cs)
           none == <<>>
           takes(i, before) == /\ Len(known) + Len(before) < MaxMemoryKeys
                               /\ cs[i].state = "completed"
                               /\ cs[i].key \notin Range(known) \cup Range(before)
           more(i, before) == IF takes(i, before) THEN Append(before, cs[i].key) ELSE before
           Def(f) == f = [i \in 0..n |-> IF i = 0 THEN none ELSE more(i, f[i - 1])]
           g == [p \in (1..n) \X Seq(Keys) |-> more(p[1], p[2])]
<1>1. n \in Nat /\ none \in Seq(Keys)
  OBVIOUS
<1>2. \A i \in 1..n, before \in Seq(Keys) : more(i, before) \in Seq(Keys)
  <2> TAKE i \in 1..n, before \in Seq(Keys)
  <2>1. cs[i] \in Candidate
    OBVIOUS
  <2>2. cs[i].key \in Keys
    BY <2>1 DEF Candidate
  <2> QED
    BY <2>2
<1> HIDE DEF n, none, more
<1>3. g \in [(1..n) \X Seq(Keys) -> Seq(Keys)]
  BY <1>2
<1>4. \A i \in 1..n, before \in Seq(Keys) : g[<<i, before>>] = more(i, before)
  OBVIOUS
<1> HIDE DEF g
<1>5. PICK f \in [0..n -> Seq(Keys)] : f[0] = none /\ \A i \in 1..n : f[i] = g[<<i, f[i - 1]>>]
  <2> DEFINE V == Seq(Keys)
  <2>1. StepFunction(n, V, none, g)
    BY <1>1, <1>3 DEF StepFunction
  <2> HIDE DEF V
  <2>2. \E f : Follows(f, n, V, none, g)
    BY <2>1, Recursion
  <2> QED
    BY <2>2 DEF V, Follows
<1>6. \A i \in 1..n : f[i] = more(i, f[i - 1])
  <2> TAKE i \in 1..n
  <2>1. f[i - 1] \in Seq(Keys)
    BY <1>1
  <2> QED
    BY <1>4, <1>5, <2>1
<1>7. Def(f)
  BY <1>1, <1>5, <1>6
<1> DEFINE new == CHOOSE h : Def(h)
<1>8. NewKeys(known, cs) = new[n]
  BY DEF NewKeys, n, none, more
<1>9. Def(new)
  <2> HIDE DEF Def
  <2> QED
    BY <1>7
<1> HIDE DEF new
<1>10. new[0] = none /\ \A i \in 1..n : new[i] = more(i, new[i - 1])
  BY <1>1, <1>9
<1>11. new \in [0..n -> Seq(Keys)]
  <2> DEFINE T == {i \in 0..n : new[i] \in Seq(Keys)}
  <2>1. 0 \in T
    BY <1>1, <1>10
  <2>2. \A i \in 0..(n - 1) : i \in T => i + 1 \in T
    <3> SUFFICES ASSUME NEW i \in 0..(n - 1), new[i] \in Seq(Keys)
                 PROVE  i + 1 \in T
      OBVIOUS
    <3>1. i + 1 \in 1..n /\ i + 1 \in 0..n /\ (i + 1) - 1 = i
      BY <1>1
    <3>2. new[i + 1] = more(i + 1, new[i])
      BY <1>10, <3>1
    <3> QED
      BY <1>2, <3>1, <3>2
  <2>3. \A i \in 0..n : new[i] \in Seq(Keys)
    <3> HIDE DEF T
    <3>1. \A i \in 0..n : i \in T
      BY <1>1, <2>1, <2>2, Induct
    <3> QED
      BY <3>1 DEF T
  <2> QED
    BY <1>9, <2>3
<1> QED
  BY <1>8, <1>10, <1>11 DEF n, none, more

\* The order in which sources count: the newest first, and each once.
Aged(S, created) ==
  /\ IsFiniteSet(S) /\ \A s \in S : created[s] \in Nat
  /\ \A s, t \in S : created[s] = created[t] => s = t
Descends(o, S, created) ==
  o \in [1..Cardinality(S) -> S] /\ \A i, j \in 1..Cardinality(S) : i < j => created[o[i]] > created[o[j]]

LEMMA OrderExists ==
  ASSUME NEW S, NEW created, Aged(S, created)
  PROVE  \E o : Descends(o, S, created)
<1> DEFINE T == {m \in Nat : \A A \in SUBSET S : Cardinality(A) = m => \E o : Descends(o, A, created)}
<1>1. \A A \in SUBSET S : IsFiniteSet(A) /\ Cardinality(A) \in Nat
  BY FS_Subset, FS_CardinalityType DEF Aged
<1>2. 0 \in T
  <2>1. ASSUME NEW A \in SUBSET S, Cardinality(A) = 0
        PROVE  \E o : Descends(o, A, created)
    <3>1. A = {}
      BY <1>1, <2>1, FS_EmptySet
    <3>2. PICK o : o = [i \in 1..0 |-> 0]
      OBVIOUS
    <3>3. o \in [1..0 -> A] /\ 1..0 = {}
      BY <3>1, <3>2
    <3>4. Descends(o, A, created)
      BY <2>1, <3>3 DEF Descends
    <3> QED
      BY <3>4
  <2> QED
    BY <2>1
<1>3. ASSUME NEW m \in Nat, m \in T
      PROVE  m + 1 \in T
  <2> SUFFICES ASSUME NEW A \in SUBSET S, Cardinality(A) = m + 1
               PROVE  \E o : Descends(o, A, created)
    OBVIOUS
  <2>1. PICK x \in A : \A y \in A : created[x] <= created[y]
    <3> DEFINE ages == {created[y] : y \in A}
    <3>1. ages \subseteq Nat /\ A # {}
      BY <1>1, FS_EmptySet DEF Aged
    <3>2. ages # {}
      BY <3>1
    <3> HIDE DEF ages
    <3>3. PICK n \in ages : \A k \in ages : n <= k
      BY <3>1, <3>2, Least
    <3> QED
      BY <3>3 DEF ages
  <2> DEFINE B == A \ {x}
  <2>2. B \in SUBSET S /\ Cardinality(B) = m
    <3>1. IsFiniteSet(A)
      BY <1>1
    <3>2. Cardinality(A \ {x}) = Cardinality(A) - 1
      BY <2>1, <3>1, FS_RemoveElement
    <3> QED
      BY <3>2
  <2>3. PICK o : Descends(o, B, created)
    BY <1>3, <2>2
  <2> DEFINE p == [i \in 1..(m + 1) |-> IF i = m + 1 THEN x ELSE o[i]]
  <2>4. o \in [1..m -> B] /\ \A i, j \in 1..m : i < j => created[o[i]] > created[o[j]]
    BY <2>2, <2>3 DEF Descends
  <2>5. \A i \in 1..(m + 1) : i = m + 1 \/ i \in 1..m
    OBVIOUS
  <2>6. p \in [1..(m + 1) -> A]
    BY <2>4, <2>5
  <2>7. ASSUME NEW i \in 1..(m + 1), NEW j \in 1..(m + 1), i < j
        PROVE  created[p[i]] > created[p[j]]
    <3>1. i \in 1..m /\ p[i] = o[i] /\ o[i] \in B
      BY <2>4, <2>7
    <3>2. CASE j = m + 1
      <4>1. p[j] = x /\ o[i] # x /\ o[i] \in S /\ x \in S /\ created[x] <= created[o[i]]
        BY <2>1, <3>1, <3>2
      <4>2. created[x] \in Nat /\ created[o[i]] \in Nat /\ created[x] # created[o[i]]
        BY <4>1 DEF Aged
      <4> QED
        BY <3>1, <4>1, <4>2
    <3>3. CASE j # m + 1
      BY <2>4, <2>5, <2>7, <3>1, <3>3
    <3> QED
      BY <3>2, <3>3
  <2> HIDE DEF p
  <2>8. Descends(p, A, created)
    BY <2>6, <2>7 DEF Descends
  <2> QED
    BY <2>8
<1>4. Cardinality(S) \in T
  <2> HIDE DEF T
  <2> QED
    BY <1>1, <1>2, <1>3, Induct
<1> QED
  BY <1>4

LEMMA NewestFirstIs ==
  ASSUME NEW S, NEW created, Aged(S, created)
  PROVE  LET o == NewestFirst(S, created)
         IN  Descends(o, S, created) /\ \A s \in S : \E i \in 1..Cardinality(S) : o[i] = s
<1> DEFINE o == NewestFirst(S, created)
           n == Cardinality(S)
<1>1. n \in Nat
  BY FS_CardinalityType DEF Aged
<1>2. \A p : p \in SetToSeqs(S) <=> p \in [1..n -> S] /\ \A i, j \in 1..n : i # j => p[i] # p[j]
  BY DEF SetToSeqs
<1>3. PICK p : Descends(p, S, created)
  BY OrderExists
<1>4. p \in SetToSeqs(S) /\ \A i, j \in DOMAIN p : i < j => created[p[i]] > created[p[j]]
  <2>1. p \in [1..n -> S] /\ \A i, j \in 1..n : i < j => created[p[i]] > created[p[j]]
    BY <1>3 DEF Descends
  <2>2. ASSUME NEW i \in 1..n, NEW j \in 1..n, i < j  PROVE p[i] # p[j]
    <3>1. created[p[i]] > created[p[j]] /\ created[p[i]] \in Nat
      BY <2>1, <2>2 DEF Aged
    <3> QED
      BY <3>1
  <2>3. \A i, j \in 1..n : i # j => p[i] # p[j]
    <3> TAKE i, j \in 1..n
    <3>1. i < j \/ j < i \/ i = j
      BY <1>1
    <3> QED
      BY <2>2, <3>1
  <2> HIDE DEF n
  <2> QED
    BY <1>2, <2>1, <2>3
<1>5. o \in SetToSeqs(S) /\ \A i, j \in DOMAIN o : i < j => created[o[i]] > created[o[j]]
  BY <1>4 DEF NewestFirst
<1> HIDE DEF o
<1>6. o \in [1..n -> S] /\ \A i, j \in 1..n : i # j => o[i] # o[j]
  BY <1>2, <1>5
<1>7. Descends(o, S, created)
  BY <1>5, <1>6 DEF Descends
<1>8. o \in Surjection(1..n, S)
  <2>1. o \in Injection(1..n, S)
    BY <1>6 DEF Injection, IsInjective
  <2>2. Cardinality(1..n) = n
    BY <1>1, FS_Interval
  <2> HIDE DEF n
  <2> QED
    BY <2>1, <2>2, FS_Injection DEF Aged, n
<1>9. \A s \in S : \E i \in 1..n : o[i] = s
  BY <1>8 DEF Surjection
<1> QED
  BY <1>7, <1>9 DEF o

\* What a pin names of a run, as far as there is room.
LEMMA NewKeysName ==
  ASSUME NEW known \in Seq(Keys), NEW cs \in Seq(Candidate)
  PROVE  /\ NewKeys(known, cs) \in Seq(Keys)
         /\ Len(known) + Len(cs) <= MaxMemoryKeys =>
              \A i \in DOMAIN cs : cs[i].state = "completed" =>
                cs[i].key \in Range(known) \cup Range(NewKeys(known, cs))
<1> DEFINE n == Len(cs)
<1>1. PICK new \in [0..n -> Seq(Keys)] :
         /\ NewKeys(known, cs) = new[n] /\ new[0] = <<>>
         /\ \A i \in 1..n :
              new[i] = IF /\ Len(known) + Len(new[i - 1]) < MaxMemoryKeys
                          /\ cs[i].state = "completed"
                          /\ cs[i].key \notin Range(known) \cup Range(new[i - 1])
                       THEN Append(new[i - 1], cs[i].key) ELSE new[i - 1]
  BY NewKeysIs
<1>2. n \in Nat /\ DOMAIN cs = 1..n /\ Len(known) \in Nat /\ MaxMemoryKeys \in Nat
  BY LineageConstants
<1> HIDE DEF n
<1>3. ASSUME Len(known) + n <= MaxMemoryKeys
      PROVE  \A i \in DOMAIN cs : cs[i].state = "completed" => cs[i].key \in Range(known) \cup Range(new[n])
  <2> DEFINE Named(j, i) == cs[j].state = "completed" => cs[j].key \in Range(known) \cup Range(new[i])
             T == {i \in 0..n : Len(new[i]) <= i /\ \A j \in 1..i : Named(j, i)}
  <2>1. 0 \in T
    BY <1>1, <1>2
  <2>2. ASSUME NEW i \in 0..(n - 1), i \in T
        PROVE  i + 1 \in T
    <3>1. /\ i + 1 \in 1..n /\ i + 1 \in 0..n /\ (i + 1) - 1 = i /\ i < n /\ i \in 0..n
          /\ new[i] \in Seq(Keys) /\ Len(new[i]) \in Nat /\ Len(new[i]) <= i
          /\ \A j \in 1..i : Named(j, i)
      BY <1>1, <1>2, <2>2
    <3> DEFINE k == cs[i + 1].key
    <3>2. k \in Keys
      <4>1. cs[i + 1] \in Candidate
        BY <1>2, <3>1
      <4> QED
        BY <4>1 DEF Candidate
    <3>3. Len(known) + Len(new[i]) < MaxMemoryKeys
      BY <1>2, <1>3, <3>1
    <3> HIDE DEF k
    <3>4. CASE cs[i + 1].state = "completed" /\ k \notin Range(known) \cup Range(new[i])
      <4>1. new[i + 1] = Append(new[i], k)
        BY <1>1, <3>1, <3>3, <3>4 DEF k
      <4>2. /\ Len(new[i + 1]) = Len(new[i]) + 1
            /\ Range(new[i]) \subseteq Range(new[i + 1]) /\ k \in Range(new[i + 1])
        <5> DEFINE old == new[i]
        <5>1. old \in Seq(Keys) /\ new[i + 1] = Append(old, k)
          BY <3>1, <4>1
        <5> HIDE DEF old
        <5>2. /\ Len(Append(old, k)) = Len(old) + 1 /\ Range(old) \subseteq Range(Append(old, k))
              /\ k \in Range(Append(old, k))
          <6> DEFINE longer == Append(old, k)
                     m == Len(old)
          <6>1. /\ m \in Nat /\ DOMAIN old = 1..m /\ Len(longer) = m + 1
                /\ DOMAIN longer = 1..(m + 1) /\ longer[m + 1] = k
                /\ \A d \in 1..m : longer[d] = old[d]
            BY <3>2, <5>1
          <6> HIDE DEF longer, m
          <6>2. \A d \in DOMAIN old : d \in DOMAIN longer /\ longer[d] = old[d]
            BY <6>1
          <6>3. m + 1 \in DOMAIN longer
            BY <6>1
          <6>4. Range(old) \subseteq Range(longer) /\ k \in Range(longer)
            BY <6>1, <6>2, <6>3 DEF Range
          <6> QED
            BY <6>1, <6>4 DEF longer, m
        <5> QED
          BY <5>1, <5>2 DEF old
      <4>3. \A j \in 1..(i + 1) : Named(j, i + 1)
        <5> TAKE j \in 1..(i + 1)
        <5>1. j = i + 1 \/ j \in 1..i
          BY <3>1
        <5> QED
          BY <3>1, <4>2, <5>1 DEF k
      <4> QED
        BY <3>1, <4>2, <4>3
    <3>5. CASE ~(cs[i + 1].state = "completed" /\ k \notin Range(known) \cup Range(new[i]))
      <4>1. new[i + 1] = new[i]
        BY <1>1, <3>1, <3>5 DEF k
      <4>2. \A j \in 1..(i + 1) : Named(j, i + 1)
        <5> TAKE j \in 1..(i + 1)
        <5>1. j = i + 1 \/ j \in 1..i
          BY <3>1
        <5> QED
          BY <3>1, <3>5, <4>1, <5>1 DEF k
      <4> QED
        BY <3>1, <4>1, <4>2
    <3> QED
      BY <3>4, <3>5
  <2>3. n \in T
    <3> HIDE DEF T
    <3>1. \A i \in 0..n : i \in T
      BY <1>2, <2>1, <2>2, Induct
    <3> QED
      BY <1>2, <3>1
  <2> QED
    BY <1>2, <2>3
<1>4. new[n] \in Seq(Keys)
  BY <1>1, <1>2
<1> QED
  BY <1>1, <1>3, <1>4 DEF n

LEMMA PinAdded ==
  ASSUME NEW pin \in Pin, NEW s \in Runs, NEW cs \in Seq(Candidate)
  PROVE  AddSource(pin, s, cs) \in Pin /\ Range(pin.keys) \subseteq Range(AddSource(pin, s, cs).keys)
<1>1. pin.keys \in Seq(Keys) /\ pin.sources \in Seq(Runs)
  BY DEF Pin
<1> DEFINE new == NewKeys(pin.keys, cs)
<1>2. new \in Seq(Keys)
  BY <1>1, NewKeysName
<1> HIDE DEF new
<1>3. /\ pin.keys \o new \in Seq(Keys) /\ Append(pin.sources, s) \in Seq(Runs)
      /\ Range(pin.keys) \subseteq Range(pin.keys \o new)
  BY <1>1, <1>2 DEF Range
<1> QED
  BY <1>3 DEF AddSource, Pin, new

\* Sources of a pin: the runs in the order they count, with their candidates.
Sourced(order, candidates) ==
  order \in Seq(Runs) /\ \A i \in DOMAIN order : candidates[order[i]] \in Seq(Candidate)

LEMMA GatherIs ==
  ASSUME NEW order, NEW candidates, Sourced(order, candidates)
  PROVE  \E pins \in [0..Len(order) -> Pin] :
           /\ Gather(order, candidates) = pins[Len(order)] /\ pins[0] = EmptyPin
           /\ \A i \in 1..Len(order) :
                pins[i] = AddSource(pins[i - 1], order[i], candidates[order[i]])
<1> DEFINE n == Len(order)
           more(i, pin) == AddSource(pin, order[i], candidates[order[i]])
           Def(f) == f = [i \in 0..n |-> IF i = 0 THEN EmptyPin ELSE more(i, f[i - 1])]
           g == [p \in (1..n) \X Pin |-> more(p[1], p[2])]
<1>1. n \in Nat /\ EmptyPin \in Pin
  BY DEF EmptyPin, Pin, Sourced
<1>2. \A i \in 1..n, pin \in Pin : more(i, pin) \in Pin
  <2> TAKE i \in 1..n, pin \in Pin
  <2>1. order[i] \in Runs /\ candidates[order[i]] \in Seq(Candidate)
    BY DEF Sourced
  <2> QED
    BY <2>1, PinAdded
<1> HIDE DEF n, more
<1>3. g \in [(1..n) \X Pin -> Pin]
  BY <1>2
<1>4. \A i \in 1..n, pin \in Pin : g[<<i, pin>>] = more(i, pin)
  OBVIOUS
<1> HIDE DEF g
<1>5. PICK f \in [0..n -> Pin] : f[0] = EmptyPin /\ \A i \in 1..n : f[i] = g[<<i, f[i - 1]>>]
  <2>1. StepFunction(n, Pin, EmptyPin, g)
    BY <1>1, <1>3 DEF StepFunction
  <2>2. \E f : Follows(f, n, Pin, EmptyPin, g)
    BY <2>1, Recursion
  <2> QED
    BY <2>2 DEF Follows
<1>6. \A i \in 1..n : f[i] = more(i, f[i - 1])
  <2> TAKE i \in 1..n
  <2>1. f[i - 1] \in Pin
    BY <1>1
  <2> QED
    BY <1>4, <1>5, <2>1
<1>7. Def(f)
  BY <1>1, <1>5, <1>6
<1> DEFINE pins == CHOOSE h : Def(h)
<1>8. Gather(order, candidates) = pins[n]
  BY DEF Gather, n, more
<1>9. Def(pins)
  <2> HIDE DEF Def
  <2> QED
    BY <1>7
<1> HIDE DEF pins
<1>10. pins[0] = EmptyPin /\ \A i \in 1..n : pins[i] = more(i, pins[i - 1])
  BY <1>1, <1>9
<1>11. pins \in [0..n -> Pin]
  <2> DEFINE T == {i \in 0..n : pins[i] \in Pin}
  <2>1. 0 \in T
    BY <1>1, <1>10
  <2>2. \A i \in 0..(n - 1) : i \in T => i + 1 \in T
    <3> SUFFICES ASSUME NEW i \in 0..(n - 1), pins[i] \in Pin
                 PROVE  i + 1 \in T
      OBVIOUS
    <3>1. i + 1 \in 1..n /\ i + 1 \in 0..n /\ (i + 1) - 1 = i
      BY <1>1
    <3>2. pins[i + 1] = more(i + 1, pins[i])
      BY <1>10, <3>1
    <3> QED
      BY <1>2, <3>1, <3>2
  <2>3. \A i \in 0..n : pins[i] \in Pin
    <3> HIDE DEF T
    <3>1. \A i \in 0..n : i \in T
      BY <1>1, <2>1, <2>2, Induct
    <3> QED
      BY <3>1 DEF T
  <2> QED
    BY <1>9, <2>3
<1> QED
  BY <1>8, <1>10, <1>11 DEF n, more

\* A pin is a pin, and names all that its first source completed.
LEMMA GatherFits ==
  ASSUME NEW order, NEW candidates, Sourced(order, candidates)
  PROVE  /\ Gather(order, candidates) \in Pin
         /\ Len(order) > 0 /\ MaxSources > 0 /\ Len(candidates[order[1]]) <= MaxMemoryKeys =>
              \A i \in DOMAIN candidates[order[1]] : candidates[order[1]][i].state = "completed" =>
                candidates[order[1]][i].key \in Range(Gather(order, candidates).keys)
<1> DEFINE n == Len(order)
           all == Gather(order, candidates)
<1>1. PICK pins \in [0..n -> Pin] :
           /\ all = pins[n] /\ pins[0] = EmptyPin
           /\ \A i \in 1..n : pins[i] = AddSource(pins[i - 1], order[i], candidates[order[i]])
  BY GatherIs
<1>2. n \in Nat /\ \A i \in 1..n : order[i] \in Runs /\ candidates[order[i]] \in Seq(Candidate)
  BY DEF Sourced
<1> HIDE DEF n, all
<1>3. all \in Pin
  BY <1>1, <1>2
<1> DEFINE cs == candidates[order[1]]
<1>4. ASSUME n > 0, MaxSources > 0, Len(cs) <= MaxMemoryKeys,
             NEW i \in DOMAIN cs, cs[i].state = "completed"
      PROVE  cs[i].key \in Range(all.keys)
  <2>1. cs \in Seq(Candidate) /\ 1 \in 1..n /\ order[1] \in Runs
    BY <1>2, <1>4
  <2> DEFINE none == <<>>
             new == NewKeys(none, cs)
             k == cs[i].key
  <2>2. new \in Seq(Keys) /\ k \in Range(new)
    <3>1. none \in Seq(Keys) /\ Len(none) = 0 /\ Range(none) = {} /\ Len(cs) \in Nat
      BY <2>1 DEF Range
    <3> HIDE DEF none, cs
    <3>2. Len(none) + Len(cs) <= MaxMemoryKeys
      BY <1>4, <3>1
    <3>3. \A j \in DOMAIN cs : cs[j].state = "completed" => cs[j].key \in Range(none) \cup Range(NewKeys(none, cs))
      BY <2>1, <3>1, <3>2, NewKeysName
    <3>4. NewKeys(none, cs) \in Seq(Keys)
      BY <2>1, <3>1, NewKeysName
    <3> QED
      BY <1>4, <3>1, <3>3, <3>4
  <2>3. EmptyPin.keys = none /\ EmptyPin.sources = none
    BY DEF EmptyPin
  <2>4. Len(none) = 0 /\ none = <<>>
    OBVIOUS
  <2>5. pins[1] = AddSource(EmptyPin, order[1], cs)
    BY <1>1, <2>1
  <2>6. k \in Range(pins[1].keys)
    <3>1. pins[1] = [sources |-> Append(none, order[1]), keys |-> none \o new]
      <4>1. ~(Len(none) >= MaxSources) /\ new # none
        BY <1>4, <2>2, <2>4, LineageConstants DEF Range
      <4> HIDE DEF none, new, cs
      <4> QED
        BY <2>3, <2>4, <2>5, <4>1 DEF AddSource, new
    <3>2. none \o new = new
      BY <2>2
    <3> HIDE DEF none, new, cs, k
    <3> QED
      BY <2>2, <3>1, <3>2
  <2> HIDE DEF none, new, cs, k
  <2> DEFINE T == {j \in 0..(n - 1) : k \in Range(pins[j + 1].keys)}
  <2>7. 0 \in T
    BY <1>2, <1>4, <2>6
  <2>8. ASSUME NEW j \in 0..((n - 1) - 1), j \in T
        PROVE  j + 1 \in T
    <3>1. /\ j + 1 \in 0..n /\ j + 1 \in 0..(n - 1) /\ (j + 1) + 1 \in 1..n
          /\ ((j + 1) + 1) - 1 = j + 1
      BY <1>2
    <3> DEFINE next == (j + 1) + 1
    <3>2. /\ pins[next] = AddSource(pins[j + 1], order[next], candidates[order[next]])
          /\ pins[j + 1] \in Pin /\ order[next] \in Runs /\ candidates[order[next]] \in Seq(Candidate)
      BY <1>1, <1>2, <3>1
    <3>3. Range(pins[j + 1].keys) \subseteq Range(pins[next].keys)
      BY <3>2, PinAdded
    <3> QED
      BY <2>8, <3>1, <3>3
  <2>9. n - 1 \in T
    <3>1. n - 1 \in Nat
      BY <1>2, <1>4
    <3> HIDE DEF T
    <3> QED
      BY <2>7, <2>8, <3>1, Induct
  <2>10. (n - 1) + 1 = n /\ k \in Range(pins[(n - 1) + 1].keys)
    BY <1>2, <2>9
  <2> QED
    BY <1>1, <2>10 DEF k, cs
<1> QED
  BY <1>3, <1>4 DEF n, all

\* The sources of a pin differ in age and have candidates.
Composable(rs, w, r, o) ==
  /\ \A s \in Usable(rs, r, o) : rs[s].created \in Nat /\ w[s].candidates \in Seq(Candidate)
  /\ \A s, t \in Usable(rs, r, o) : rs[s].created = rs[t].created => s = t

LEMMA OrderIsSequence ==
  ASSUME NEW S \in SUBSET Runs, NEW created, Aged(S, created)
  PROVE  LET o == NewestFirst(S, created)
         IN  /\ o \in Seq(S) /\ Len(o) = Cardinality(S)
             /\ \A s \in S : (\A t \in S : created[t] <= created[s]) => Len(o) > 0 /\ o[1] = s
<1> DEFINE o == NewestFirst(S, created)
           n == Cardinality(S)
<1>1. /\ o \in [1..n -> S] /\ \A i, j \in 1..n : i < j => created[o[i]] > created[o[j]]
      /\ \A s \in S : \E i \in 1..n : o[i] = s
  BY NewestFirstIs DEF Descends
<1>2. n \in Nat
  BY FS_CardinalityType DEF Aged
<1> HIDE DEF o, n
<1>3. o \in Seq(S) /\ Len(o) = n
  BY <1>1, <1>2
<1>4. ASSUME NEW s \in S, \A t \in S : created[t] <= created[s]
      PROVE  n > 0 /\ o[1] = s
  <2>1. PICK i \in 1..n : o[i] = s
    BY <1>1
  <2>2. n > 0 /\ 1 \in 1..n /\ o[1] \in S
    BY <1>1, <1>2, <2>1
  <2>3. ~(1 < i)
    <3>1. created[o[1]] <= created[o[i]] /\ created[o[1]] \in Nat /\ created[o[i]] \in Nat
      BY <1>4, <2>1, <2>2 DEF Aged
    <3>2. 1 < i => created[o[1]] > created[o[i]]
      BY <1>1, <2>2
    <3> QED
      BY <3>1, <3>2
  <2>4. i = 1
    BY <1>2, <2>3
  <2> QED
    BY <2>1, <2>2, <2>4
<1> QED
  BY <1>3, <1>4 DEF o, n

\* The nearest ancestor that counts is the first source.
LEMMA PinComposed ==
  ASSUME NEW rs, NEW w, NEW r \in Runs, NEW o, Composable(rs, w, r, o)
  PROVE  /\ ComposePin(rs, w, r, o) \in Pin
         /\ \A p \in Usable(rs, r, o) \cap Ancestors(rs, r) :
              /\ \A a \in Usable(rs, r, o) \cap Ancestors(rs, r) : rs[a].created <= rs[p].created
              /\ MaxSources > 0 /\ Len(w[p].candidates) <= MaxMemoryKeys
              => \A i \in DOMAIN w[p].candidates : w[p].candidates[i].state = "completed" =>
                   w[p].candidates[i].key \in Range(ComposePin(rs, w, r, o).keys)
<1> DEFINE U == Usable(rs, r, o)
           A == U \cap Ancestors(rs, r)
           H == U \cap History(rs, r)
           created == [s \in U |-> rs[s].created]
           candidates == [s \in U |-> w[s].candidates]
           first == NewestFirst(A, created)
           then  == NewestFirst(H, created)
           order == first \o then
<1>1. ComposePin(rs, w, r, o) = Gather(order, candidates)
  BY DEF ComposePin
<1>2. /\ U \subseteq Runs /\ A \subseteq U /\ H \subseteq U
      /\ \A s \in U : /\ created[s] = rs[s].created /\ candidates[s] = w[s].candidates
                       /\ created[s] \in Nat /\ candidates[s] \in Seq(Candidate)
      /\ \A s, t \in U : created[s] = created[t] => s = t
  BY DEF Composable, Usable
<1> HIDE DEF U, A, H, created, candidates
<1>3. \A S \in SUBSET U : Aged(S, created)
  <2>1. IsFiniteSet(Runs)
    BY LineageConstants
  <2> QED
    BY <1>2, <2>1, FS_Subset DEF Aged
<1>4. /\ first \in Seq(A)
      /\ \A s \in A : (\A t \in A : created[t] <= created[s]) => Len(first) > 0 /\ first[1] = s
  BY <1>2, <1>3, OrderIsSequence
<1>5. then \in Seq(H)
  BY <1>2, <1>3, OrderIsSequence
<1> HIDE DEF first, then
<1>6. order \in Seq(U) /\ (Len(first) > 0 => Len(order) > 0 /\ order[1] = first[1])
  BY <1>2, <1>4, <1>5
<1> HIDE DEF order
<1>7. Sourced(order, candidates)
  BY <1>2, <1>6 DEF Sourced
<1>8. Gather(order, candidates) \in Pin
  BY <1>7, GatherFits
<1>9. ASSUME NEW p \in A, \A a \in A : rs[a].created <= rs[p].created, MaxSources > 0,
             Len(w[p].candidates) <= MaxMemoryKeys, NEW i \in DOMAIN w[p].candidates,
             w[p].candidates[i].state = "completed"
      PROVE  w[p].candidates[i].key \in Range(Gather(order, candidates).keys)
  <2>1. \A a \in A : created[a] <= created[p]
    BY <1>2, <1>9
  <2>2. Len(order) > 0 /\ order[1] = p /\ candidates[order[1]] = w[p].candidates
    BY <1>2, <1>4, <1>6, <1>9, <2>1
  <2> QED
    BY <1>7, <1>9, <2>2, GatherFits
<1> QED
  BY <1>1, <1>8, <1>9 DEF U, A

-----------------------------------------------------------------------------
(* What a step does to a run.                                              *)

\* The columns that a run keeps from its creation on.
Pins(r) ==
  /\ runs'[r].parent = runs[r].parent /\ runs'[r].seed = runs[r].seed
  /\ runs'[r].retry_of = runs[r].retry_of /\ runs'[r].window = runs[r].window
  /\ runs'[r].memory = runs[r].memory /\ runs'[r].created = runs[r].created

Series(r) ==
  /\ runs'[r].policy = runs[r].policy /\ runs'[r].root = runs[r].root
  /\ runs'[r].version = runs[r].version /\ runs'[r].mode = runs[r].mode

Untouched(r) == runs'[r] = runs[r] /\ work'[r] = work[r] /\ reports'[r] = reports[r]

\* Only the run r is touched, which keeps its links.
Alone(r) ==
  /\ \A s \in Runs \ {r} : Untouched(s)
  /\ Pins(r) /\ runs'[r].child = runs[r].child /\ runs'[r].retry_child = runs[r].retry_child

\* The run r ends at the time t.
EndsAt(r, t) == runs'[r].ended = t /\ clock' = t

\* A run that ends, or is approved, keeps what it has spent; a new one has spent
\* nothing.
Budget(r)  == runs'[r].used = runs[r].used /\ runs'[r].repairs = runs[r].repairs
Blank(row) == row.used = 0 /\ row.repairs = 0 /\ row.ended = 0

Works(r)    == /\ Alone(r) /\ Series(r) /\ runs[r].state = "running" /\ runs'[r].state = "running"
               /\ reports'[r] = reports[r]
               /\ runs'[r].ended = runs[r].ended /\ clock' = clock
Stops(r)    == /\ Alone(r) /\ Series(r) /\ Live(r) /\ Ended(r)'
               /\ work'[r] = work[r] /\ reports'[r] = reports[r]
               /\ EndsAt(r, clock + 1) /\ Budget(r)

LEMMA StopsEarly ==
  ASSUME Fits, NEW r \in Runs, Cancel(r) \/ RunOut(r) \/ FinishRefused(r)
  PROVE  Stops(r) /\ Fits'
<1>1. PICK st \in Terminal : runs' = [runs EXCEPT ![r].state = st, ![r].ended = clock + 1]
  BY DEF Cancel, RunOut, FinishRefused, Ends, Terminal
<1>2. Live(r) /\ UNCHANGED <<work, reports>> /\ clock' = clock + 1
  BY DEF Cancel, RunOut, FinishRefused, Claimed, Live
<1>3. runs'[r] = [runs[r] EXCEPT !.state = st, !.ended = clock + 1]
  BY <1>1 DEF Fits
<1>4. \A s \in Runs \ {r} : runs'[s] = runs[s]
  BY <1>1 DEF Fits
<1>5. runs' = [s \in Runs |-> runs'[s]]
  BY <1>1 DEF Fits
<1>6. RowFits(runs[r])
  BY DEF Fits
<1>7. RowFits(runs'[r]) /\ Pins(r) /\ Series(r) /\ runs'[r].state = st
      /\ runs'[r].child = runs[r].child /\ runs'[r].retry_child = runs[r].retry_child
      /\ runs'[r].ended = clock + 1 /\ Budget(r)
  <2> DEFINE end == clock + 1
  <2>1. st \in RunStates /\ runs'[r] = [runs[r] EXCEPT !.state = st, !.ended = end]
    BY <1>3 DEF RunStates
  <2> HIDE DEF end
  <2>2. RowFits(runs'[r])
    BY <1>6, <2>1 DEF RowFits
  <2>3. /\ Pins(r) /\ Series(r) /\ runs'[r].state = st
        /\ runs'[r].child = runs[r].child /\ runs'[r].retry_child = runs[r].retry_child
        /\ runs'[r].ended = end /\ Budget(r)
    BY <1>6, <2>1 DEF RowFits, Pins, Series, Budget
  <2> QED
    BY <2>2, <2>3 DEF end
<1>8. Stops(r)
  BY <1>1, <1>2, <1>4, <1>7 DEF Stops, Alone, Untouched, Ended, EndsAt
<1>9. \A s \in Runs : Ended(s) => Ended(s)'
  BY <1>1, <1>4, <1>7 DEF Ended
<1>10. \A s \in Runs : runs'[s].state = "absent" => runs'[s] = runs[s]
  BY <1>1, <1>4, <1>7 DEF Terminal
<1> QED
  BY <1>2, <1>4, <1>5, <1>7, <1>8, <1>9, <1>10 DEF Fits

\* The candidates of a run that are completed, of any value of its work.
Done(w) == {w.candidates[i].key :
              i \in {j \in DOMAIN w.candidates : w.candidates[j].state = "completed"}}

LEMMA Proposed ==
  ASSUME NEW r \in Runs
  PROVE  Proposals(r) \subseteq Keys
<1>1. Offers[r] \in Seq(SUBSET Keys)
  BY LineageConstants
<1>2. \A n \in DOMAIN Offers[r] : Offers[r][n] \subseteq Keys
  BY <1>1
<1> QED
  BY <1>2 DEF Proposals

\* The strategies that a run has tried, of any value of its work.
Names(w) == {w.candidates[i].key : i \in DOMAIN w.candidates}

Feedbacks == SUBSET [of: SUBSET Keys, reference: Keys]

\* A call pays for the candidate it adds, which the pinned memory does not name.
Tries(r) ==
  /\ work[r].feedback \in Feedbacks => work'[r].feedback \in Feedbacks
  /\ Names(work'[r]) \cap Range(runs[r].memory.keys) \subseteq Names(work[r])
  /\ \/ runs' = runs /\ Len(work'[r].candidates) = Len(work[r].candidates)
     \/ /\ Len(work'[r].candidates) = Len(work[r].candidates) + 1
        /\ \/ runs' = [runs EXCEPT ![r].used = runs[r].used + 1] /\ runs[r].used < MaxExperiments
           \/ runs' = [runs EXCEPT ![r].repairs = runs[r].repairs + 1] /\ runs[r].repairs < MaxRepairs[r]

\* A new candidate takes an ordinal, marks the change and completes nothing.
LEMMA Added ==
  ASSUME NEW w, WorkFits(w), NEW k \in Keys, NEW linked \in BOOLEAN,
         NEW replan \in {"none", "refine_parameters", "switch_approved_family"},
         NEW from \in Keys \cup {NoKey}
  PROVE  LET new == AddCandidate(w, k, linked, replan, from)
         IN  /\ WorkFits(new) /\ Done(new) = Done(w)
             /\ new.comparisons = w.comparisons
             /\ new.artifacts = w.artifacts + 1 /\ new.changed = w.artifacts + 1
             /\ new.feedback = w.feedback /\ Len(new.candidates) = Len(w.candidates) + 1
             /\ Names(new) = Names(w) \cup {k}
<1> DEFINE c == [key |-> k, state |-> "created", measured |-> FALSE,
                 linked |-> linked, replan |-> replan, from |-> from]
           new == AddCandidate(w, k, linked, replan, from)
<1>1. c \in Candidate /\ c.state = "created" /\ c.key = k
  BY DEF Candidate
<1>2. w.candidates \in Seq(Candidate) /\ w.artifacts \in Nat
  BY DEF WorkFits
<1>3. /\ new.candidates = Append(w.candidates, c) /\ new.comparisons = w.comparisons
      /\ new.feedback = w.feedback /\ new.artifacts = w.artifacts + 1
      /\ new.changed = w.artifacts + 1
  BY DEF AddCandidate, WorkFits
<1>4. new = [candidates |-> new.candidates, comparisons |-> new.comparisons,
             feedback |-> new.feedback, artifacts |-> new.artifacts, changed |-> new.changed]
  <2> DEFINE cs == Append(w.candidates, c)
             n  == w.artifacts + 1
  <2>1. new = [w EXCEPT !.candidates = cs, !.artifacts = n, !.changed = n]
    BY <1>2 DEF AddCandidate
  <2> HIDE DEF cs, n, new
  <2>2. new = [candidates |-> cs, comparisons |-> w.comparisons,
               feedback |-> w.feedback, artifacts |-> n, changed |-> n]
    BY <2>1 DEF WorkFits
  <2> QED
    BY <2>2
<1> HIDE DEF c, new
<1>5. Append(w.candidates, c) \in Seq(Candidate)
  BY <1>1, <1>2
<1>6. WorkFits(new)
  <2>1. w.comparisons \in SUBSET Comparison
    BY DEF WorkFits
  <2> QED
    BY <1>2, <1>3, <1>4, <1>5, <2>1 DEF WorkFits
<1>7. Done(new) = Done(w)
  <2>1. DOMAIN new.candidates = DOMAIN w.candidates \cup {Len(w.candidates) + 1}
    BY <1>1, <1>2, <1>3
  <2>2. \A j \in DOMAIN w.candidates : new.candidates[j] = w.candidates[j]
    BY <1>1, <1>2, <1>3
  <2>3. new.candidates[Len(w.candidates) + 1].state = "created"
    BY <1>1, <1>2, <1>3
  <2> QED
    BY <2>1, <2>2, <2>3 DEF Done
<1>8. Names(new) = Names(w) \cup {k} /\ Len(new.candidates) = Len(w.candidates) + 1
  <2> DEFINE m == Len(w.candidates)
  <2>1. /\ Len(new.candidates) = m + 1 /\ DOMAIN new.candidates = DOMAIN w.candidates \cup {m + 1}
        /\ new.candidates[m + 1].key = k
        /\ \A j \in DOMAIN w.candidates : new.candidates[j] = w.candidates[j]
    BY <1>1, <1>2, <1>3
  <2> HIDE DEF m
  <2>2. Names(new) = Names(w) \cup {k}
    BY <2>1 DEF Names
  <2> QED
    BY <2>1, <2>2 DEF m
<1> QED
  BY <1>3, <1>6, <1>7, <1>8 DEF new

\* A call of the claimed run that counts one of its budgets, or none.
LEMMA WorkStep ==
  ASSUME Fits, NEW r \in Runs, Claimed(r), NEW w, WorkFits(w), work' = [work EXCEPT ![r] = w],
         NEW used, NEW repairs, UNCHANGED <<reports, clock>>,
         \/ UNCHANGED runs
         \/ runs' = [runs EXCEPT ![r].used = used]
         \/ runs' = [runs EXCEPT ![r].repairs = repairs]
  PROVE  Works(r) /\ Fits' /\ work'[r] = w
<1>1. /\ work'[r] = w /\ work' = [s \in Runs |-> work'[s]]
      /\ \A s \in Runs \ {r} : work'[s] = work[s]
  BY DEF Fits
<1>2. /\ runs' = [s \in Runs |-> runs'[s]]
      /\ \A s \in Runs \ {r} : runs'[s] = runs[s]
      /\ \/ runs'[r] = runs[r]
         \/ runs'[r] = [runs[r] EXCEPT !.used = used]
         \/ runs'[r] = [runs[r] EXCEPT !.repairs = repairs]
  BY DEF Fits
<1>3. RowFits(runs[r]) /\ runs[r].state = "running"
  BY DEF Fits, Claimed
<1>4. /\ RowFits(runs'[r]) /\ runs'[r].state = "running"
      /\ Pins(r) /\ Series(r) /\ runs'[r].child = runs[r].child
      /\ runs'[r].retry_child = runs[r].retry_child /\ runs'[r].ended = runs[r].ended
  <2>1. CASE runs'[r] = runs[r]
    BY <1>3, <2>1 DEF Pins, Series
  <2>2. CASE runs'[r] = [runs[r] EXCEPT !.used = used]
    BY <1>3, <2>2 DEF Pins, Series, RowFits
  <2>3. CASE runs'[r] = [runs[r] EXCEPT !.repairs = repairs]
    BY <1>3, <2>3 DEF Pins, Series, RowFits
  <2> QED
    BY <1>2, <2>1, <2>2, <2>3
<1>5. Works(r)
  BY <1>1, <1>2, <1>3, <1>4 DEF Works, Alone, Untouched
<1>6. \A s \in Runs : RowFits(runs'[s]) /\ WorkFits(work'[s])
  BY <1>1, <1>2, <1>4 DEF Fits
<1>7. ~Ended(r) /\ \A s \in Runs : Ended(s)' <=> Ended(s)
  BY <1>2, <1>3, <1>4 DEF Ended, Terminal
<1>8. \A s \in Runs : runs'[s].state = "absent" => runs'[s] = Absent
  BY <1>2, <1>4 DEF Fits
<1> QED
  BY <1>1, <1>2, <1>5, <1>6, <1>7, <1>8 DEF Fits

LEMMA CreateCandidateWorks ==
  ASSUME Fits, NEW r \in Runs, Compared(r), CreateCandidate(r)
  PROVE  Works(r) /\ Tries(r) /\ Fits' /\ Compared(r)'
<1>1. PICK k \in Proposals(r), linked \in BOOLEAN,
           replan \in {"none", "refine_parameters", "switch_approved_family"} :
        work' = [work EXCEPT ![r] = AddCandidate(work[r], k, linked, replan, NoKey)] /\ Novel(r, k)
  BY DEF CreateCandidate, ReplanFor, Fits
<1> DEFINE new == AddCandidate(work[r], k, linked, replan, NoKey)
<1>2. /\ WorkFits(new) /\ Done(new) = Done(work[r]) /\ new.comparisons = work[r].comparisons
      /\ new.artifacts = work[r].artifacts + 1 /\ new.changed = work[r].artifacts + 1
      /\ new.feedback = work[r].feedback /\ Names(new) = Names(work[r]) \cup {k}
      /\ Len(new.candidates) = Len(work[r].candidates) + 1
  BY Proposed, Added DEF Fits
<1> HIDE DEF new
<1>3. Works(r) /\ Fits' /\ work'[r] = new
  <2>1. /\ Claimed(r) /\ UNCHANGED <<reports, clock>> /\ work' = [work EXCEPT ![r] = new]
        /\ runs' = [runs EXCEPT ![r].used = runs[r].used + 1]
    BY <1>1 DEF CreateCandidate, new
  <2> QED
    BY <1>2, <2>1, WorkStep
<1>4. Completed(r)' = Done(new)
  BY <1>3 DEF Completed, InState, Done
<1>5. work[r].artifacts \in Nat /\ work[r].comparisons \subseteq Comparison
  BY DEF Fits, WorkFits
<1>6. Tries(r)
  <2>1. runs' = [runs EXCEPT ![r].used = runs[r].used + 1] /\ runs[r].used < MaxExperiments
    BY DEF CreateCandidate
  <2>2. k \notin Range(runs[r].memory.keys)
    BY <1>1 DEF Novel
  <2> QED
    BY <1>2, <1>3, <2>1, <2>2 DEF Tries
<1>7. Compared(r)'
  BY <1>2, <1>3, <1>4, <1>5 DEF Compared, Comparison
<1> QED
  BY <1>3, <1>6, <1>7

LEMMA ReviseWorks ==
  ASSUME Fits, NEW r \in Runs, Compared(r), Revise(r)
  PROVE  Works(r) /\ Tries(r) /\ Fits' /\ Compared(r)'
<1>1. PICK i \in DOMAIN work[r].candidates, k \in Proposals(r) :
        work' = [work EXCEPT ![r] = AddCandidate([work[r] EXCEPT !.candidates[i].state = "revised"],
                                                 k, FALSE, "none", work[r].candidates[i].key)]
        /\ Novel(r, k)
  BY DEF Revise, Fits
<1> DEFINE old == [work[r] EXCEPT !.candidates[i].state = "revised"]
           from == work[r].candidates[i].key
           new == AddCandidate(old, k, FALSE, "none", from)
           cs  == [work[r].candidates EXCEPT ![i] = [work[r].candidates[i] EXCEPT !.state = "revised"]]
<1>2. WorkFits(work[r]) /\ work[r].candidates \in Seq(Candidate) /\ work[r].candidates[i] \in Candidate
  BY DEF Fits, WorkFits
<1>3. [work[r].candidates[i] EXCEPT !.state = "revised"] \in Candidate /\ from \in Keys
  BY <1>2 DEF Candidate
<1>4. cs \in Seq(Candidate)
  BY <1>2, <1>3
<1>5. old = [work[r] EXCEPT !.candidates = cs]
  BY <1>2 DEF WorkFits
<1>10. /\ Len(cs) = Len(work[r].candidates) /\ DOMAIN cs = DOMAIN work[r].candidates
       /\ \A j \in DOMAIN cs : cs[j].key = work[r].candidates[j].key
  BY <1>2 DEF Candidate
<1> HIDE DEF cs, old, from
<1>6. /\ WorkFits(old) /\ old.comparisons = work[r].comparisons
      /\ old.artifacts = work[r].artifacts /\ old.feedback = work[r].feedback /\ old.candidates = cs
  BY <1>2, <1>4, <1>5 DEF WorkFits
<1>11. Names(old) = Names(work[r])
  BY <1>6, <1>10 DEF Names
<1>7. /\ WorkFits(new) /\ new.comparisons = work[r].comparisons
      /\ new.artifacts = work[r].artifacts + 1 /\ new.changed = work[r].artifacts + 1
      /\ new.feedback = work[r].feedback /\ Names(new) = Names(work[r]) \cup {k}
      /\ Len(new.candidates) = Len(work[r].candidates) + 1
  <2>1. k \in Keys /\ FALSE \in BOOLEAN /\ from \in Keys \cup {NoKey}
    BY <1>3, Proposed
  <2>2. PICK linked \in BOOLEAN, replan \in {"none", "refine_parameters", "switch_approved_family"} :
          linked = FALSE /\ replan = "none"
    OBVIOUS
  <2>3. new = AddCandidate(old, k, linked, replan, from)
    BY <2>2
  <2> HIDE DEF new
  <2>4. /\ WorkFits(new) /\ new.comparisons = old.comparisons
        /\ new.artifacts = old.artifacts + 1 /\ new.changed = old.artifacts + 1
        /\ new.feedback = old.feedback /\ Names(new) = Names(old) \cup {k}
        /\ Len(new.candidates) = Len(old.candidates) + 1
    <3>1. WorkFits(old)
      BY <1>6
    <3> QED
      BY <2>1, <2>3, <3>1, Added
  <2>5. Len(old.candidates) = Len(work[r].candidates)
    BY <1>6, <1>10
  <2> QED
    BY <1>6, <1>11, <2>4, <2>5
<1> HIDE DEF new
<1>8. Works(r) /\ Fits' /\ work'[r] = new
  <2>1. /\ Claimed(r) /\ UNCHANGED <<reports, clock>> /\ work' = [work EXCEPT ![r] = new]
        /\ runs' = [runs EXCEPT ![r].repairs = runs[r].repairs + 1]
    BY <1>1 DEF Revise, new, old, from
  <2> QED
    BY <1>7, <2>1, WorkStep
<1>9. work[r].artifacts \in Nat /\ work[r].comparisons \subseteq Comparison
  BY DEF Fits, WorkFits
<1>12. Tries(r)
  <2>1. runs' = [runs EXCEPT ![r].repairs = runs[r].repairs + 1] /\ runs[r].repairs < MaxRepairs[r]
    BY DEF Revise
  <2>2. k \notin Range(runs[r].memory.keys)
    BY <1>1 DEF Novel
  <2> QED
    BY <1>7, <1>8, <2>1, <2>2 DEF Tries
<1>13. Compared(r)'
  BY <1>7, <1>8, <1>9 DEF Compared, Comparison
<1> QED
  BY <1>8, <1>12, <1>13

LEMMA BacktestWorks ==
  ASSUME Fits, NEW r \in Runs, Compared(r), Backtest(r)
  PROVE  Works(r) /\ Tries(r) /\ Fits' /\ Compared(r)'
<1> DEFINE w == work[r]
<1>1. PICK i \in DOMAIN w.candidates :
        LET c == w.candidates[i]
            measured == [w.candidates EXCEPT ![i] = [c EXCEPT !.state = "completed", !.measured = TRUE]]
            failed   == [w.candidates EXCEPT ![i] = [c EXCEPT !.state = "failed"]]
            count    == IF c.measured THEN w.artifacts ELSE w.artifacts + 3
        IN  /\ c.state # "completed"
            /\ \/ work' = [work EXCEPT ![r] = [w EXCEPT !.candidates = failed]]
               \/ work' = [work EXCEPT ![r] = [w EXCEPT !.candidates = measured, !.artifacts = count,
                                                        !.changed = w.artifacts + 1]]
  BY DEF Backtest
<1>2. WorkFits(w) /\ w.candidates \in Seq(Candidate) /\ w.candidates[i] \in Candidate
      /\ w.artifacts \in Nat /\ w.changed \in Nat /\ w.comparisons \subseteq Comparison
  BY DEF Fits, WorkFits
<1>3. Claimed(r) /\ UNCHANGED <<runs, reports, clock>>
  BY DEF Backtest
<1> DEFINE c        == w.candidates[i]
           done     == [c EXCEPT !.state = "completed", !.measured = TRUE]
           undone   == [c EXCEPT !.state = "failed"]
           measured == [w.candidates EXCEPT ![i] = done]
           failed   == [w.candidates EXCEPT ![i] = undone]
           count    == IF c.measured THEN w.artifacts ELSE w.artifacts + 3
           next     == w.artifacts + 1
<1>4. /\ done \in Candidate /\ undone \in Candidate /\ undone.state = "failed"
      /\ done.key = c.key /\ undone.key = c.key
  BY <1>2 DEF Candidate
<1>9. ASSUME NEW new, new.feedback = w.feedback, work'[r] = new,
             new.candidates = measured \/ new.candidates = failed
      PROVE  Tries(r)
  <2>1. /\ Len(new.candidates) = Len(w.candidates) /\ DOMAIN new.candidates = DOMAIN w.candidates
        /\ \A j \in DOMAIN w.candidates : new.candidates[j].key = w.candidates[j].key
    <3> HIDE DEF done, undone
    <3>1. /\ Len(measured) = Len(w.candidates) /\ DOMAIN measured = DOMAIN w.candidates
          /\ \A j \in DOMAIN w.candidates : measured[j].key = w.candidates[j].key
      BY <1>1, <1>2, <1>4
    <3>2. /\ Len(failed) = Len(w.candidates) /\ DOMAIN failed = DOMAIN w.candidates
          /\ \A j \in DOMAIN w.candidates : failed[j].key = w.candidates[j].key
      BY <1>1, <1>2, <1>4
    <3> HIDE DEF measured, failed
    <3> QED
      BY <1>9, <3>1, <3>2
  <2>2. Names(new) = Names(w)
    BY <2>1 DEF Names
  <2> QED
    BY <1>3, <1>9, <2>1, <2>2 DEF Tries
<1>5. measured \in Seq(Candidate) /\ failed \in Seq(Candidate)
  <2> HIDE DEF done, undone
  <2> QED
    BY <1>2, <1>4
<1>6. count \in Nat /\ w.artifacts <= count /\ next \in Nat
  BY <1>2
<1>7. CASE work' = [work EXCEPT ![r] = [w EXCEPT !.candidates = failed]]
  <2> DEFINE new == [w EXCEPT !.candidates = failed]
  <2>1. /\ WorkFits(new) /\ new.comparisons = w.comparisons /\ new.candidates = failed
        /\ new.artifacts = w.artifacts /\ new.changed = w.changed /\ new.feedback = w.feedback
    <3> HIDE DEF failed
    <3> QED
      BY <1>2, <1>5 DEF WorkFits
  <2> HIDE DEF new
  <2>2. Done(new) = Done(w)
    <3> HIDE DEF undone
    <3>1. DOMAIN failed = DOMAIN w.candidates
      OBVIOUS
    <3>2. \A j \in DOMAIN failed : (failed[j].state = "completed" <=> w.candidates[j].state = "completed")
                                   /\ (failed[j].state = "completed" => failed[j] = w.candidates[j])
      BY <1>1, <1>2, <1>4
    <3> HIDE DEF failed
    <3> QED
      BY <2>1, <3>1, <3>2 DEF Done
  <2>3. Works(r) /\ Fits' /\ work'[r] = new
    BY <1>3, <1>7, <2>1, WorkStep DEF new
  <2>4. Completed(r) = Done(w) /\ Completed(r)' = Done(new)
    BY <2>3 DEF Completed, InState, Done
  <2>5. Tries(r)
    BY <1>9, <2>1, <2>3
  <2>6. Compared(r)'
    BY <2>1, <2>2, <2>3, <2>4 DEF Compared
  <2> QED
    BY <2>3, <2>5, <2>6
<1>8. CASE work' = [work EXCEPT ![r] = [w EXCEPT !.candidates = measured, !.artifacts = count,
                                                 !.changed = next]]
  <2> DEFINE new == [w EXCEPT !.candidates = measured, !.artifacts = count, !.changed = next]
  <2>1. /\ WorkFits(new) /\ new.comparisons = w.comparisons /\ new.candidates = measured
        /\ new.artifacts = count /\ new.changed = next /\ new.feedback = w.feedback
    <3> HIDE DEF measured, count, next
    <3> QED
      BY <1>2, <1>5, <1>6 DEF WorkFits
  <2> HIDE DEF new
  <2>2. Works(r) /\ Fits' /\ work'[r] = new
    <3> HIDE DEF measured, count, next
    <3> QED
      BY <1>3, <1>8, <2>1, WorkStep DEF new
  <2>3. Tries(r)
    BY <1>9, <2>1, <2>2
  <2> HIDE DEF count
  <2>4. Compared(r)'
    BY <1>2, <1>6, <2>1, <2>2 DEF Compared, Comparison
  <2> QED
    BY <2>2, <2>3, <2>4
<1> QED
  BY <1>1, <1>7, <1>8

\* Some candidate leads.
LEMMA LeaderLeads ==
  ASSUME NEW S \in SUBSET Keys, S # {}
  PROVE  Leader(S) \in S
<1>1. \A k \in S : Rank[k] \in Nat
  BY LineageConstants
<1> DEFINE ranks == {Rank[k] : k \in S}
<1>2. ranks \subseteq Nat /\ ranks # {}
  BY <1>1
<1> HIDE DEF ranks
<1>3. PICK n \in ranks : \A m \in ranks : n <= m
  BY <1>2, Least
<1>4. \E k \in S : \A other \in S : Rank[k] <= Rank[other]
  BY <1>3 DEF ranks
<1> QED
  BY <1>4 DEF Leader

LEMMA CompareWorks ==
  ASSUME Fits, NEW r \in Runs, Compared(r), Compare(r)
  PROVE  Works(r) /\ Tries(r) /\ Fits' /\ Compared(r)'
<1> DEFINE w == work[r]
           done == Completed(r)
           repeated == {c \in w.comparisons : c.of = done}
           latest == [of |-> done, ordinal |-> w.artifacts + 1]
           count == IF repeated = {} THEN w.artifacts + 1 ELSE w.artifacts
           feeds == Cardinality(done) >= 2 /\ runs[r].used < MaxExperiments /\ w.feedback = {}
           cmps == (w.comparisons \ repeated) \cup {latest}
           compared == [w EXCEPT !.comparisons = cmps]
           feed == {[of |-> done, reference |-> Leader(done)]}
<1>1. Claimed(r) /\ UNCHANGED <<runs, reports, clock>>
      /\ work' = [work EXCEPT ![r] =
                    IF feeds THEN [compared EXCEPT !.feedback = feed, !.artifacts = count + 1]
                             ELSE [compared EXCEPT !.artifacts = count]]
  BY DEF Compare
<1>2. WorkFits(w) /\ w.candidates \in Seq(Candidate) /\ w.artifacts \in Nat
      /\ w.changed \in Nat /\ w.comparisons \subseteq Comparison
  BY DEF Fits, WorkFits
<1>3. done \subseteq Keys
  <2> SUFFICES ASSUME NEW i \in DOMAIN w.candidates  PROVE w.candidates[i].key \in Keys
    BY DEF Completed, InState
  <2>1. w.candidates[i] \in Candidate
    BY <1>2
  <2> QED
    BY <2>1 DEF Candidate
<1>8. feed \in Feedbacks
  <2>1. done # {}
    BY DEF Compare
  <2>2. Leader(done) \in Keys
    BY <1>3, <2>1, LeaderLeads
  <2> HIDE DEF done
  <2> QED
    BY <1>3, <2>2 DEF Feedbacks
<1>4. count \in Nat /\ count + 1 \in Nat /\ w.artifacts <= count /\ w.artifacts <= count + 1
  <2> HIDE DEF repeated
  <2> QED
    BY <1>2
<1>5. \A c \in cmps : c \in Comparison /\ c.ordinal <= w.artifacts + 1
                      /\ (c.ordinal > w.changed => c.of = done)
  <2> HIDE DEF done
  <2> TAKE c \in cmps
  <2>1. CASE c \in w.comparisons
    BY <1>2, <2>1 DEF Compared, done
  <2>2. CASE c = latest
    BY <1>2, <1>3, <2>2 DEF Comparison
  <2> QED
    BY <2>1, <2>2
<1> HIDE DEF feeds, feed, cmps, count
<1>6. PICK n \in Nat :
        /\ w.artifacts <= n
        /\ \/ work' = [work EXCEPT ![r] = [compared EXCEPT !.feedback = feed, !.artifacts = n]]
           \/ work' = [work EXCEPT ![r] = [compared EXCEPT !.artifacts = n]]
  <2>1. CASE feeds
    <3>1. work' = [work EXCEPT ![r] = [compared EXCEPT !.feedback = feed, !.artifacts = count + 1]]
      BY <1>1, <2>1
    <3> QED
      BY <1>4, <3>1
  <2>2. CASE ~feeds
    <3>1. work' = [work EXCEPT ![r] = [compared EXCEPT !.artifacts = count]]
      BY <1>1, <2>2
    <3> QED
      BY <1>4, <3>1
  <2> QED
    BY <2>1, <2>2, Zenon
<1>7. ASSUME NEW new, work' = [work EXCEPT ![r] = new],
             \/ new = [compared EXCEPT !.feedback = feed, !.artifacts = n]
             \/ new = [compared EXCEPT !.artifacts = n]
      PROVE  Works(r) /\ Tries(r) /\ Fits' /\ Compared(r)'
  <2>1. /\ WorkFits(new) /\ new.candidates = w.candidates /\ new.comparisons = cmps
        /\ new.artifacts = n /\ new.changed = w.changed
        /\ new.feedback = feed \/ new.feedback = w.feedback
    <3>1. cmps \subseteq Comparison
      BY <1>5
    <3>2. CASE new = [compared EXCEPT !.feedback = feed, !.artifacts = n]
      BY <1>2, <3>1, <3>2 DEF WorkFits
    <3>3. CASE new = [compared EXCEPT !.artifacts = n]
      BY <1>2, <3>1, <3>3 DEF WorkFits
    <3> QED
      BY <1>7, <3>2, <3>3
  <2>2. Works(r) /\ Fits' /\ work'[r] = new
    BY <1>1, <1>7, <2>1, WorkStep
  <2>3. Completed(r)' = done
    BY <2>1, <2>2 DEF Completed, InState
  <2>4. Tries(r)
    BY <1>1, <1>8, <2>1, <2>2 DEF Tries, Names
  <2> HIDE DEF done
  <2>5. Compared(r)'
    BY <1>2, <1>5, <1>6, <2>1, <2>2, <2>3 DEF Compared, Comparison
  <2> QED
    BY <2>2, <2>4, <2>5
<1> QED
  BY <1>6, <1>7

-----------------------------------------------------------------------------
(* What a pin is composed from.                                            *)

\* The pin of r is what composing it from these rows and this work gives.
PinnedIn(rs, w, r) == rs[r].memory = ComposePin(rs, w, r, OverrideOf(rs, r))

\* Two views in which the same sources count, of the same ages and candidates,
\* and descend alike give the same pin.
SameEvidence(rs1, w1, o1, rs2, w2, o2, r) ==
  /\ Usable(rs1, r, o1) = Usable(rs2, r, o2)
  /\ Ancestors(rs1, r) = Ancestors(rs2, r) /\ History(rs1, r) = History(rs2, r)
  /\ \A s \in Usable(rs1, r, o1) : /\ rs1[s].created = rs2[s].created
                                   /\ w1[s].candidates = w2[s].candidates

LEMMA SamePin ==
  ASSUME NEW rs1, NEW w1, NEW rs2, NEW w2, NEW r \in Runs, NEW o1, NEW o2,
         SameEvidence(rs1, w1, o1, rs2, w2, o2, r)
  PROVE  ComposePin(rs1, w1, r, o1) = ComposePin(rs2, w2, r, o2)
<1> DEFINE U   == Usable(rs1, r, o1)
           A   == Ancestors(rs1, r)
           H   == History(rs1, r)
           ts1 == [s \in U |-> rs1[s].created]
           ts2 == [s \in U |-> rs2[s].created]
           cs1 == [s \in U |-> w1[s].candidates]
           cs2 == [s \in U |-> w2[s].candidates]
<1>1. ts1 = ts2 /\ cs1 = cs2
  BY DEF SameEvidence
<1>2. ComposePin(rs1, w1, r, o1) = Gather(NewestFirst(U \cap A, ts1) \o NewestFirst(U \cap H, ts1), cs1)
  BY DEF ComposePin
<1>3. /\ Usable(rs2, r, o2) = U /\ Ancestors(rs2, r) = A /\ History(rs2, r) = H
  BY DEF SameEvidence
<1>4. ComposePin(rs2, w2, r, o2) = Gather(NewestFirst(U \cap A, ts2) \o NewestFirst(U \cap H, ts2), cs2)
  <2> HIDE DEF U, A, H
  <2> QED
    BY <1>3 DEF ComposePin
<1> HIDE DEF U, A, H, ts1, ts2, cs1, cs2
<1> QED
  BY <1>1, <1>2, <1>4

\* Rows that agree on the parents within a set closed under them, r among it,
\* give r the same ancestors, which lie in the set.
LEMMA SameAncestors ==
  ASSUME NEW rs1, NEW rs2, NEW C \in SUBSET Runs, NEW r \in C,
         \A s \in C : rs1[s].parent = rs2[s].parent /\ rs1[s].parent \in C \cup {NoRun}
  PROVE  Ancestors(rs1, r) = Ancestors(rs2, r) /\ Ancestors(rs1, r) \subseteq C
<1> DEFINE closed1(S) == \A s \in S \cup {r} : rs1[s].parent \in S \cup {NoRun}
           closed2(S) == \A s \in S \cup {r} : rs2[s].parent \in S \cup {NoRun}
<1>1. \A x : x \in Ancestors(rs1, r) <=> x \in Runs \ {r} /\ \A S \in SUBSET Runs : closed1(S) => x \in S
  BY DEF Ancestors
<1>2. \A x : x \in Ancestors(rs2, r) <=> x \in Runs \ {r} /\ \A S \in SUBSET Runs : closed2(S) => x \in S
  BY DEF Ancestors
<1>3. ASSUME NEW S \in SUBSET Runs
      PROVE  /\ S \cap C \in SUBSET Runs
             /\ closed1(S) => closed2(S \cap C)
             /\ closed2(S) => closed1(S \cap C)
  OBVIOUS
<1>4. C \in SUBSET Runs /\ closed1(C)
  OBVIOUS
<1> HIDE DEF closed1, closed2
<1>5. \A x \in Ancestors(rs1, r) : x \in Ancestors(rs2, r)
  <2> SUFFICES ASSUME NEW x \in Ancestors(rs1, r), NEW S \in SUBSET Runs, closed2(S)
               PROVE  x \in S
    BY <1>1, <1>2
  <2>1. S \cap C \in SUBSET Runs /\ closed1(S \cap C)
    BY <1>3
  <2>2. x \in S \cap C
    BY <1>1, <2>1
  <2> QED
    BY <2>2
<1>6. \A x \in Ancestors(rs2, r) : x \in Ancestors(rs1, r)
  <2> SUFFICES ASSUME NEW x \in Ancestors(rs2, r), NEW S \in SUBSET Runs, closed1(S)
               PROVE  x \in S
    BY <1>1, <1>2
  <2>1. S \cap C \in SUBSET Runs /\ closed2(S \cap C)
    BY <1>3
  <2>2. x \in S \cap C
    BY <1>2, <2>1
  <2> QED
    BY <2>2
<1>7. \A x \in Ancestors(rs1, r) : x \in C
  BY <1>1, <1>4
<1> QED
  BY <1>5, <1>6, <1>7

\* The columns of the rows that a pin is composed from.
SameColumns(row1, row2) ==
  /\ row1.state = row2.state /\ row1.window = row2.window /\ row1.parent = row2.parent
  /\ row1.policy = row2.policy /\ row1.root = row2.root /\ row1.version = row2.version
  /\ row1.created = row2.created /\ row1.ended = row2.ended

\* The rows that a pin is composed from, but for the series parent o, which
\* counts in both views.
SameRows(rs1, rs2, r, o) ==
  /\ \A s \in Runs : rs1[s].parent \in Runs \cup {NoRun}
  /\ \A s \in Runs \ {o} : SameColumns(rs1[s], rs2[s])
  /\ o \in Runs => /\ o # r /\ Available(rs1, r, o, o) /\ Available(rs2, r, o, o)
                   /\ rs1[o].window = rs2[o].window /\ rs1[o].parent = rs2[o].parent
                   /\ rs1[o].created = rs2[o].created
                   /\ rs1[o].state # "absent" /\ rs2[o].state # "absent"

\* A series parent counts for its follow-up whether it has ended yet or not.
LEMMA SameView ==
  ASSUME NEW rs1, NEW rs2, NEW w, NEW r \in Runs, NEW o, SameRows(rs1, rs2, r, o)
  PROVE  ComposePin(rs1, w, r, o) = ComposePin(rs2, w, r, o)
<1> USE DEF SameRows
<1>1. \A s \in Runs : /\ rs1[s].parent = rs2[s].parent /\ rs1[s].created = rs2[s].created
                      /\ rs1[s].window = rs2[s].window
                      /\ rs1[s].state = "absent" <=> rs2[s].state = "absent"
  BY DEF SameColumns
<1>2. Ancestors(rs1, r) = Ancestors(rs2, r)
  <2>1. Runs \in SUBSET Runs /\ \A s \in Runs : rs1[s].parent = rs2[s].parent
                                                 /\ rs1[s].parent \in Runs \cup {NoRun}
    BY <1>1
  <2> QED
    BY <2>1, SameAncestors
<1>3. History(rs1, r) = History(rs2, r)
  BY <1>1, <1>2 DEF History, Created
<1>4. \A s \in Runs : Available(rs1, r, s, o) <=> Available(rs2, r, s, o)
  <2>1. ASSUME NEW s \in Runs, s # o
        PROVE  Available(rs1, r, s, o) <=> Available(rs2, r, s, o)
    <3>1. rs1[s].state = rs2[s].state /\ rs1[s].ended = rs2[s].ended /\ rs1[r].created = rs2[r].created
      BY <1>1, <2>1 DEF SameColumns
    <3> QED
      BY <2>1, <3>1 DEF Available
  <2> QED
    BY <2>1
<1>5. Usable(rs1, r, o) = Usable(rs2, r, o)
  BY <1>1, <1>4 DEF Usable
<1>6. \A s \in Usable(rs1, r, o) : rs1[s].created = rs2[s].created
  BY <1>1 DEF Usable
<1>7. SameEvidence(rs1, w, o, rs2, w, o, r)
  BY <1>2, <1>3, <1>5, <1>6 DEF SameEvidence
<1> QED
  BY <1>7, SamePin

-----------------------------------------------------------------------------
(* What a user does.                                                       *)

\* The pin of a new run is composed as the run is created.
Pinned(r) == \A rs, w : rs = runs' /\ w = work' => PinnedIn(rs, w, r)

\* An approval, which may attach a series to the plan of a root run.
Approves(r) ==
  /\ Alone(r) /\ runs[r].state = "waiting" /\ runs'[r].state = "running"
  /\ work'[r] = work[r] /\ reports'[r] = reports[r]
  /\ runs'[r].ended = runs[r].ended /\ clock' = clock /\ Budget(r)
  /\ \/ Series(r)
     \/ /\ runs[r].policy = "none" /\ runs[r].parent = NoRun /\ runs[r].retry_of = NoRun
        /\ runs'[r].policy = "one_follow_up" /\ runs'[r].root = r
        /\ runs'[r].version = 1 /\ runs'[r].mode = "auto"

\* A root run, or a refinement of a run that has ended.
Begins(r) ==
  /\ \A s \in Runs \ {r} : Untouched(s)
  /\ runs[r] = Absent /\ work'[r] = work[r] /\ reports'[r] = reports[r]
  /\ runs'[r].created = clock + 1 /\ clock' = clock + 1 /\ Pinned(r)
  /\ Blank(runs'[r]) /\ runs'[r].window \in Windows
  /\ runs'[r].state \in {"waiting", "running"}
  /\ runs'[r].retry_of = NoRun /\ runs'[r].retry_child = NoRun /\ runs'[r].child = NoRun
  /\ \/ runs'[r].policy = "none" /\ runs'[r].root = NoRun
     \/ /\ runs'[r].policy # "none" /\ runs'[r].root = r
        /\ runs'[r].version = 1 /\ runs'[r].mode = "auto"
  /\ \/ runs'[r].parent = NoRun
     \/ /\ runs'[r].parent \in Runs /\ Ended(runs'[r].parent)
        /\ runs'[r].seed \in Completed(runs'[r].parent)
        /\ Dataset[runs[runs'[r].parent].window] = Dataset[runs'[r].window]

\* A retry, which has the pins of its source.
Retries(r, source) ==
  /\ r # source /\ \A s \in Runs \ {r, source} : Untouched(s)
  /\ work' = work /\ reports' = reports
  /\ runs[r] = Absent /\ runs'[r].state \in {"waiting", "running"}
  /\ runs'[r].created = clock + 1 /\ clock' = clock + 1
  /\ runs'[r].retry_of = source /\ runs'[r].retry_child = NoRun /\ runs'[r].child = NoRun
  /\ runs'[r].policy = "none" /\ runs'[r].root = NoRun /\ runs'[r].mode = runs[source].mode
  /\ runs'[r].window = runs[source].window /\ runs'[r].parent = runs[source].parent
  /\ runs'[r].seed = runs[source].seed /\ runs'[r].memory = runs[source].memory
  /\ Ended(source) /\ runs[source].policy = "none" /\ runs[source].retry_child = NoRun
  /\ runs'[source].state = runs[source].state /\ runs'[source].ended = runs[source].ended
  /\ Pins(source) /\ Series(source)
  /\ runs'[source].child = runs[source].child /\ runs'[source].retry_child = r
  /\ Budget(source) /\ Blank(runs'[r])

LEMMA AbsentRow ==
  ASSUME LineageConstants
  PROVE  /\ RowFits(Absent) /\ Absent.state = "absent" /\ Absent.parent = NoRun
         /\ Absent.retry_of = NoRun /\ Absent.retry_child = NoRun /\ Absent.child = NoRun
         /\ Absent.policy = "none" /\ Absent.root = NoRun /\ Absent.version = 0
         /\ Absent.seed = NoKey /\ Blank(Absent)
  BY DEF Absent, RowFits, RunStates, Policies, Terminal, Blank

\* A row that a series is attached to.
LEMMA AttachedRow ==
  ASSUME NEW old, RowFits(old), NEW st \in RunStates, NEW policy \in Policies, NEW root \in Runs,
         NEW version \in 0..2, NEW row,
         row = [old EXCEPT !.state = st, !.mode = "auto", !.policy = policy, !.root = root,
                           !.version = version]
  PROVE  RowFits(row)
<1>1. PICK old_st, old_mode, window, parent, seed, retry_of, retry_child, old_policy, old_root,
           old_version, child, memory, created, ended, used, repairs :
        /\ old = [state |-> old_st, mode |-> old_mode, window |-> window, parent |-> parent,
                  seed |-> seed, retry_of |-> retry_of, retry_child |-> retry_child,
                  policy |-> old_policy, root |-> old_root, version |-> old_version,
                  child |-> child, memory |-> memory, created |-> created, ended |-> ended,
                  used |-> used, repairs |-> repairs]
        /\ parent \in Runs \cup {NoRun} /\ seed \in Keys \cup {NoKey}
        /\ retry_of \in Runs \cup {NoRun} /\ retry_child \in Runs \cup {NoRun}
        /\ child \in Runs \cup {NoRun}
  <2> DEFINE Is(a, b, c, d, e, f, g, h, i, j, k, l, m, n, o, p) ==
               /\ old = [state |-> a, mode |-> b, window |-> c, parent |-> d,
                         seed |-> e, retry_of |-> f, retry_child |-> g,
                         policy |-> h, root |-> i, version |-> j,
                         child |-> k, memory |-> l, created |-> m, ended |-> n,
                         used |-> o, repairs |-> p]
               /\ d \in Runs \cup {NoRun} /\ e \in Keys \cup {NoKey}
               /\ f \in Runs \cup {NoRun} /\ g \in Runs \cup {NoRun}
               /\ k \in Runs \cup {NoRun}
  <2>1. Is(old.state, old.mode, old.window, old.parent, old.seed, old.retry_of, old.retry_child,
           old.policy, old.root, old.version, old.child, old.memory, old.created, old.ended,
           old.used, old.repairs)
    BY DEF RowFits
  <2>2. \E a, b, c, d, e, f, g, h, i, j, k, l, m, n, o, p :
          Is(a, b, c, d, e, f, g, h, i, j, k, l, m, n, o, p)
    <3> HIDE DEF Is
    <3> QED
      BY <2>1
  <2> QED
    BY <2>2
<1>2. row = [state |-> st, mode |-> "auto", window |-> window, parent |-> parent,
             seed |-> seed, retry_of |-> retry_of, retry_child |-> retry_child,
             policy |-> policy, root |-> root, version |-> version,
             child |-> child, memory |-> memory, created |-> created, ended |-> ended,
             used |-> used, repairs |-> repairs]
  BY <1>1
<1> QED
  BY <1>1, <1>2 DEF RowFits

LEMMA ApproveDoes ==
  ASSUME Fits, NEW r \in Runs, Approve(r)
  PROVE  Approves(r) /\ Fits'
<1>1. PICK attach \in BOOLEAN :
        /\ attach => /\ runs[r].parent = NoRun /\ runs[r].retry_of = NoRun
                     /\ runs[r].policy = "none" /\ runs[r].mode = "plan"
        /\ runs' = [runs EXCEPT ![r].state = "running",
                                ![r].mode = IF attach THEN "auto" ELSE @,
                                ![r].policy = IF attach THEN "one_follow_up" ELSE @,
                                ![r].root = IF attach THEN r ELSE @,
                                ![r].version = IF attach THEN 1 ELSE @]
  BY DEF Approve
<1>2. runs[r].state = "waiting" /\ RowFits(runs[r]) /\ UNCHANGED <<work, reports, clock>>
  BY DEF Approve, Fits
<1>3. runs' = [s \in Runs |-> runs'[s]] /\ \A s \in Runs \ {r} : runs'[s] = runs[s]
  BY <1>1 DEF Fits
<1>4. CASE attach
  <2>1. runs'[r] = [runs[r] EXCEPT !.state = "running", !.mode = "auto", !.policy = "one_follow_up",
                                   !.root = r, !.version = 1]
    BY <1>1, <1>4 DEF Fits
  <2>2. /\ RowFits(runs'[r]) /\ runs'[r].state = "running" /\ Pins(r)
        /\ runs'[r].child = runs[r].child /\ runs'[r].retry_child = runs[r].retry_child
        /\ runs'[r].policy = "one_follow_up" /\ runs'[r].root = r
        /\ runs'[r].version = 1 /\ runs'[r].mode = "auto" /\ runs'[r].ended = runs[r].ended
        /\ Budget(r)
    <3>1. "running" \in RunStates /\ "one_follow_up" \in Policies /\ 1 \in 0..2
      BY DEF RunStates, Policies
    <3>2. RowFits(runs'[r])
      <4>1. PICK old, row, st, pol, one : /\ old = runs[r] /\ row = runs'[r] /\ st = "running"
                                          /\ pol = "one_follow_up" /\ one = 1
        OBVIOUS
      <4>2. row = [old EXCEPT !.state = st, !.mode = "auto", !.policy = pol, !.root = r,
                              !.version = one]
        BY <2>1, <4>1
      <4>3. RowFits(old) /\ st \in RunStates /\ pol \in Policies /\ one \in 0..2
        BY <1>2, <3>1, <4>1
      <4>4. RowFits(row)
        BY <4>2, <4>3, AttachedRow
      <4> QED
        BY <4>1, <4>4
    <3> QED
      BY <1>2, <2>1, <3>2 DEF RowFits, Pins, Budget
  <2>3. \A s \in Runs : (Ended(s)' <=> Ended(s)) /\ (runs'[s].state = "absent" => runs'[s] = runs[s])
    BY <1>2, <1>3, <2>2 DEF Ended, Terminal
  <2>4. Alone(r)
    BY <1>2, <1>3, <2>2 DEF Alone, Untouched
  <2>5. Approves(r)
    BY <1>1, <1>2, <1>4, <2>2, <2>4 DEF Approves
  <2> QED
    BY <1>2, <1>3, <2>2, <2>3, <2>5 DEF Fits
<1>5. CASE ~attach
  <2>1. runs'[r] = [runs[r] EXCEPT !.state = "running"]
    BY <1>1, <1>2, <1>5 DEF Fits, RowFits
  <2>2. /\ RowFits(runs'[r]) /\ runs'[r].state = "running" /\ Pins(r)
        /\ runs'[r].child = runs[r].child /\ runs'[r].retry_child = runs[r].retry_child
        /\ Series(r) /\ runs'[r].ended = runs[r].ended /\ Budget(r)
    <3>1. RowFits(runs'[r])
      BY <1>2, <2>1 DEF RowFits, RunStates
    <3> QED
      BY <1>2, <2>1, <3>1 DEF RowFits, Pins, Series, Budget
  <2>3. \A s \in Runs : (Ended(s)' <=> Ended(s)) /\ (runs'[s].state = "absent" => runs'[s] = runs[s])
    BY <1>2, <1>3, <2>2 DEF Ended, Terminal
  <2>4. Alone(r)
    BY <1>2, <1>3, <2>2 DEF Alone, Untouched
  <2>5. Approves(r)
    BY <1>2, <2>2, <2>4 DEF Approves
  <2> QED
    BY <1>2, <1>3, <2>2, <2>3, <2>5 DEF Fits
<1> QED
  BY <1>4, <1>5

WithMemory(row, m) == [row EXCEPT !.memory = m]

\* A new row, whatever its memory.
LEMMA OpenedRow ==
  ASSUME Fits, NEW r \in Runs, NEW row, RowFits(row), row.state \in {"waiting", "running"},
         row.version # 2, runs[r].state = "absent", runs' = Opened(row, r),
         UNCHANGED <<work, reports>>
  PROVE  /\ Fits' /\ runs[r] = Absent /\ \A s \in Runs \ {r} : Untouched(s)
         /\ work'[r] = work[r] /\ reports'[r] = reports[r] /\ Pinned(r)
         /\ \E m : runs'[r] = WithMemory(row, m)
<1> DEFINE rs == [runs EXCEPT ![r] = row]
           m  == ComposePin(rs, work, r, OverrideOf(rs, r))
<1>1. runs' = [rs EXCEPT ![r].memory = m]
  BY DEF Opened
<1> HIDE DEF m
<1>2. runs' = [s \in Runs |-> runs'[s]] /\ \A s \in Runs \ {r} : runs'[s] = runs[s]
  BY <1>1 DEF Fits
<1>3. runs'[r] = WithMemory(row, m)
  BY <1>1 DEF Fits, WithMemory
<1>4. RowFits(runs'[r]) /\ SameColumns(row, runs'[r]) /\ runs'[r].memory = m
  BY <1>3 DEF RowFits, WithMemory, SameColumns
<1>5. \A s \in Runs : (Ended(s)' <=> Ended(s)) /\ (runs'[s].state = "absent" => runs'[s] = runs[s])
  BY <1>2, <1>4 DEF Ended, Terminal, SameColumns
<1>6. Pinned(r)
  <2> SUFFICES ASSUME NEW rs2, NEW w, rs2 = runs', w = work'
               PROVE  PinnedIn(rs2, w, r)
    BY DEF Pinned
  <2>1. rs[r] = row /\ \A s \in Runs \ {r} : rs[s] = runs[s]
    BY DEF Fits
  <2>2. OverrideOf(rs, r) = NoRun /\ OverrideOf(rs2, r) = NoRun
    BY <1>4, <2>1 DEF OverrideOf, SameColumns
  <2>3. \A s \in Runs : SameColumns(rs[s], rs2[s]) /\ rs[s].parent \in Runs \cup {NoRun}
    BY <1>2, <1>4, <2>1 DEF SameColumns, Fits, RowFits
  <2>4. m = ComposePin(rs, w, r, NoRun)
    BY <2>2 DEF m
  <2> HIDE DEF rs
  <2>5. ComposePin(rs, w, r, NoRun) = ComposePin(rs2, w, r, NoRun)
    <3>1. SameRows(rs, rs2, r, NoRun)
      BY <2>3, LineageConstants DEF SameRows
    <3> QED
      BY <3>1, SameView
  <2> QED
    BY <1>4, <2>2, <2>4, <2>5 DEF PinnedIn
<1> QED
  BY <1>2, <1>3, <1>4, <1>5, <1>6 DEF Fits, Untouched

LEMMA CreateRunDoes ==
  ASSUME Fits, NEW r \in Runs, CreateRun(r)
  PROVE  Begins(r) /\ Fits'
<1>1. PICK q \in Requests[r] :
        /\ Free(r)
        /\ q.policy # "none" => q.mode = "auto"
        /\ runs' = Opened([Absent EXCEPT !.state = StartState(q.mode), !.mode = q.mode, !.window = q.window,
                           !.policy = q.policy, !.root = IF q.policy = "none" THEN NoRun ELSE r,
                           !.version = IF q.policy = "none" THEN 0 ELSE 1, !.created = clock + 1], r)
        /\ UNCHANGED <<work, reports>> /\ clock' = clock + 1
  BY DEF CreateRun
<1>2. q.mode \in {"plan", "auto"} /\ q.policy \in Policies /\ q.window \in Windows
  <2>1. q \in [window: Windows, mode: {"plan", "auto"}, policy: {"none", "stop_after_run", "one_follow_up"}]
    BY LineageConstants
  <2> QED
    BY <2>1 DEF Policies
<1> DEFINE root    == IF q.policy = "none" THEN NoRun ELSE r
           version == IF q.policy = "none" THEN 0 ELSE 1
           st      == StartState(q.mode)
           now     == clock + 1
           row     == [Absent EXCEPT !.state = st, !.mode = q.mode, !.window = q.window,
                         !.policy = q.policy, !.root = root, !.version = version, !.created = now]
<1>3. /\ root \in Runs \cup {NoRun} /\ version \in 0..2 /\ version # 2
      /\ st \in {"waiting", "running"}
      /\ (q.policy = "none" => root = NoRun) /\ (q.policy # "none" => root = r /\ version = 1)
  BY DEF StartState
<1> HIDE DEF root, version, st, now
<1>4. /\ RowFits(row) /\ row.state = st /\ row.mode = q.mode /\ row.policy = q.policy
      /\ row.root = root /\ row.version = version /\ row.parent = NoRun /\ row.retry_of = NoRun
      /\ row.retry_child = NoRun /\ row.child = NoRun /\ row.created = now
      /\ row.window = q.window /\ Blank(row)
  <2>1. RowFits(row)
    BY <1>2, <1>3, LineageConstants, AbsentRow DEF RowFits, RunStates
  <2> QED
    BY <2>1, AbsentRow, LineageConstants DEF RowFits, Blank
<1> HIDE DEF row
<1>5. runs' = Opened(row, r) /\ runs[r].state = "absent"
  BY <1>1 DEF row, root, version, st, now, Free
<1>6. PICK m : /\ Fits' /\ runs[r] = Absent /\ \A s \in Runs \ {r} : Untouched(s)
               /\ work'[r] = work[r] /\ reports'[r] = reports[r] /\ Pinned(r)
               /\ runs'[r] = WithMemory(row, m)
  BY <1>1, <1>3, <1>4, <1>5, OpenedRow
<1>7. /\ runs'[r].state = st /\ runs'[r].mode = q.mode /\ runs'[r].policy = q.policy
      /\ runs'[r].root = root /\ runs'[r].version = version /\ runs'[r].parent = NoRun
      /\ runs'[r].retry_of = NoRun /\ runs'[r].retry_child = NoRun /\ runs'[r].child = NoRun
      /\ runs'[r].created = now /\ Blank(runs'[r]) /\ runs'[r].window = q.window
  BY <1>4, <1>6 DEF RowFits, WithMemory, Blank
<1>8. clock' = clock + 1 /\ now = clock + 1
  BY <1>1 DEF now
<1> QED
  BY <1>1, <1>2, <1>3, <1>6, <1>7, <1>8 DEF Begins

LEMMA RefineDoes ==
  ASSUME Fits, NEW r \in Runs, Refine(r)
  PROVE  Begins(r) /\ Fits'
<1>1. PICK parent \in Runs, seed \in Keys, q \in Requests[r] :
        /\ Free(r) /\ q.policy = "none" /\ Ended(parent)
        /\ Dataset[runs[parent].window] = Dataset[q.window]
        /\ seed \in Completed(parent)
        /\ runs' = Opened([Absent EXCEPT !.state = StartState(q.mode), !.mode = q.mode, !.window = q.window,
                           !.parent = parent, !.seed = seed, !.created = clock + 1], r)
        /\ UNCHANGED <<work, reports>> /\ clock' = clock + 1
  BY DEF Refine
<1>2. q.mode \in {"plan", "auto"} /\ q.window \in Windows
  BY LineageConstants
<1> DEFINE st  == StartState(q.mode)
           now == clock + 1
           row == [Absent EXCEPT !.state = st, !.mode = q.mode, !.window = q.window,
                     !.parent = parent, !.seed = seed, !.created = now]
<1>3. st \in {"waiting", "running"}
  BY DEF StartState
<1> HIDE DEF st, now
<1>4. /\ RowFits(row) /\ row.state = st /\ row.policy = "none" /\ row.window = q.window
      /\ row.root = NoRun /\ row.parent = parent /\ row.seed = seed /\ row.retry_of = NoRun
      /\ row.retry_child = NoRun /\ row.child = NoRun /\ row.version = 0 /\ row.created = now
      /\ Blank(row)
  <2>1. RowFits(row)
    BY <1>2, <1>3, LineageConstants, AbsentRow DEF RowFits, RunStates
  <2> QED
    BY <2>1, AbsentRow, LineageConstants DEF RowFits, Blank
<1> HIDE DEF row
<1>5. runs' = Opened(row, r) /\ runs[r].state = "absent" /\ UNCHANGED <<work, reports>>
  BY <1>1 DEF row, st, now, Free
<1>6. PICK m : /\ Fits' /\ runs[r] = Absent /\ \A s \in Runs \ {r} : Untouched(s)
               /\ work'[r] = work[r] /\ reports'[r] = reports[r] /\ Pinned(r)
               /\ runs'[r] = WithMemory(row, m)
  <2>1. RowFits(row) /\ row.state \in {"waiting", "running"} /\ row.version # 2
    BY <1>3, <1>4
  <2> QED
    BY <1>5, <2>1, OpenedRow
<1>7. /\ runs'[r].state = st /\ runs'[r].policy = "none" /\ runs'[r].window = q.window
      /\ runs'[r].root = NoRun /\ runs'[r].parent = parent /\ runs'[r].seed = seed
      /\ runs'[r].retry_of = NoRun /\ runs'[r].retry_child = NoRun /\ runs'[r].child = NoRun
      /\ runs'[r].created = now /\ Blank(runs'[r])
  BY <1>4, <1>6 DEF RowFits, WithMemory, Blank
<1>8. clock' = clock + 1 /\ now = clock + 1
  BY <1>1 DEF now
<1> QED
  BY <1>1, <1>2, <1>3, <1>6, <1>7, <1>8 DEF Begins

LEMMA RetryDoes ==
  ASSUME Fits, NEW r \in Runs, Retry(r)
  PROVE  (\E source \in Runs : Retries(r, source)) /\ Fits'
<1>1. PICK source \in Runs :
        /\ Free(r)
        /\ Ended(source) /\ runs[source].policy = "none" /\ runs[source].retry_child = NoRun
        /\ runs' = [runs EXCEPT
             ![r] = [Absent EXCEPT !.state = StartState(runs[source].mode), !.mode = runs[source].mode,
                       !.window = runs[source].window, !.parent = runs[source].parent,
                       !.seed = runs[source].seed, !.retry_of = source,
                       !.memory = runs[source].memory, !.created = clock + 1],
             ![source].retry_child = r]
        /\ UNCHANGED <<work, reports>> /\ clock' = clock + 1
  BY DEF Retry
<1>2. runs[r].state = "absent" /\ runs[r] = Absent /\ r # source /\ RowFits(runs[source])
  BY <1>1 DEF Fits, Free, Ended, Terminal
<1> DEFINE st  == StartState(runs[source].mode)
           row == [Absent EXCEPT !.state = st, !.mode = runs[source].mode,
                     !.window = runs[source].window, !.parent = runs[source].parent,
                     !.seed = runs[source].seed, !.retry_of = source,
                     !.memory = runs[source].memory, !.created = clock + 1]
<1>3. st \in {"waiting", "running"}
  BY DEF StartState
<1> HIDE DEF st
<1>4. /\ RowFits(row) /\ row.state = st /\ row.policy = "none" /\ row.root = NoRun
      /\ row.mode = runs[source].mode /\ row.window = runs[source].window
      /\ row.parent = runs[source].parent /\ row.seed = runs[source].seed
      /\ row.memory = runs[source].memory /\ row.retry_of = source
      /\ row.retry_child = NoRun /\ row.child = NoRun /\ row.created = clock + 1
      /\ Blank(row)
  <2> DEFINE mode   == runs[source].mode
             window == runs[source].window
             parent == runs[source].parent
             seed   == runs[source].seed
             memory == runs[source].memory
             now    == clock + 1
  <2>1. row = [state |-> st, mode |-> mode, window |-> window, parent |-> parent, seed |-> seed,
               retry_of |-> source, retry_child |-> NoRun, policy |-> "none", root |-> NoRun,
               version |-> 0, child |-> NoRun, memory |-> memory, created |-> now, ended |-> 0,
               used |-> 0, repairs |-> 0]
    <3>1. PICK blank :
            Absent = [state |-> "absent", mode |-> "plan", window |-> blank, parent |-> NoRun,
                      seed |-> NoKey, retry_of |-> NoRun, retry_child |-> NoRun, policy |-> "none",
                      root |-> NoRun, version |-> 0, child |-> NoRun, memory |-> EmptyPin,
                      created |-> 0, ended |-> 0, used |-> 0, repairs |-> 0]
      BY DEF Absent
    <3>2. row = [Absent EXCEPT !.state = st, !.mode = mode, !.window = window, !.parent = parent,
                   !.seed = seed, !.retry_of = source, !.memory = memory, !.created = now]
      OBVIOUS
    <3> HIDE DEF mode, window, parent, seed, memory, now, row
    <3> QED
      BY <3>1, <3>2
  <2>2. mode \in {"plan", "auto"} /\ parent \in Runs \cup {NoRun} /\ seed \in Keys \cup {NoKey}
    BY <1>2 DEF RowFits
  <2>3. st \in RunStates /\ "none" \in Policies /\ 0 \in 0..2
    BY <1>3 DEF RunStates, Policies
  <2> HIDE DEF mode, window, parent, seed, memory, now, row
  <2>4. RowFits(row)
    BY <2>1, <2>2, <2>3 DEF RowFits
  <2>5. /\ row.state = st /\ row.policy = "none" /\ row.root = NoRun /\ row.mode = mode
        /\ row.window = window /\ row.parent = parent /\ row.seed = seed /\ row.memory = memory
        /\ row.retry_of = source /\ row.retry_child = NoRun /\ row.child = NoRun
        /\ row.created = now /\ Blank(row)
    BY <2>1 DEF Blank
  <2> QED
    BY <2>4, <2>5 DEF mode, window, parent, seed, memory, now
<1>5. runs' = [runs EXCEPT ![r] = row, ![source].retry_child = r]
  BY <1>1 DEF st
<1> HIDE DEF row
<1>6. /\ runs' = [s \in Runs |-> runs'[s]] /\ runs'[r] = row
      /\ runs'[source] = [runs[source] EXCEPT !.retry_child = r]
      /\ \A s \in Runs \ {r, source} : runs'[s] = runs[s]
  BY <1>2, <1>5 DEF Fits
<1>7. /\ RowFits(runs'[source]) /\ runs'[source].state = runs[source].state /\ Pins(source)
      /\ runs'[source].ended = runs[source].ended
      /\ Series(source) /\ runs'[source].child = runs[source].child
      /\ runs'[source].retry_child = r /\ Budget(source)
  <2>1. RowFits(runs'[source])
    BY <1>2, <1>6 DEF RowFits
  <2> QED
    BY <1>2, <1>6, <2>1 DEF RowFits, Pins, Series, Budget
<1>10. /\ Ended(source) /\ runs[source].policy = "none" /\ runs[source].retry_child = NoRun
       /\ UNCHANGED <<work, reports>> /\ clock' = clock + 1
  BY <1>1
<1>11. runs[source].state \in Terminal
  BY <1>10 DEF Ended
<1>8. \A s \in Runs : (Ended(s)' <=> Ended(s)) /\ (runs'[s].state = "absent" => runs'[s] = runs[s])
  <2>1. ASSUME NEW s \in Runs \ {r, source}
        PROVE  (Ended(s)' <=> Ended(s)) /\ (runs'[s].state = "absent" => runs'[s] = runs[s])
    BY <1>6 DEF Ended
  <2>2. (Ended(r)' <=> Ended(r)) /\ runs'[r].state # "absent"
    BY <1>2, <1>3, <1>4, <1>6 DEF Ended, Terminal
  <2>3. (Ended(source)' <=> Ended(source)) /\ runs'[source].state # "absent"
    BY <1>7, <1>11 DEF Ended, Terminal
  <2> QED
    BY <2>1, <2>2, <2>3
<1>9. Retries(r, source)
  BY <1>10, <1>2, <1>3, <1>4, <1>6, <1>7 DEF Retries, Untouched
<1> QED
  BY <1>4, <1>6, <1>7, <1>8, <1>9, <1>10 DEF Fits

-----------------------------------------------------------------------------
(* What a finish does.                                                     *)

\* The report of a run as it ends.
ReportFits(r, report) ==
  /\ report \in Report
  /\ report.selected = NoKey => report.holdout = "not_evaluated"
  /\ report.selected # NoKey =>
       /\ report.holdout = HoldoutState(r, report.selected)
       /\ report.compared = Completed(r) /\ report.selected \in Completed(r)
       /\ DecisionValid(Completed(r), report.selected)
       /\ \A c \in LatestComparisons(r) : c.of = Completed(r) /\ c.ordinal > work[r].changed
       /\ \/ report.stop = "none" /\ StrictSequence(r)
          \/ report.stop # "none" /\ Cardinality(Completed(r)) = 2

Finishes(r) ==
  /\ Alone(r) /\ Series(r) /\ runs[r].state = "running" /\ runs'[r].state = "completed"
  /\ work'[r] = work[r] /\ ReportFits(r, reports'[r]) /\ EndsAt(r, clock + 1) /\ Budget(r)

FinishesWith(r, child) ==
  /\ child # r /\ \A s \in Runs \ {r, child} : Untouched(s)
  /\ work' = work
  /\ runs[r].state = "running" /\ runs'[r].state = "completed"
  /\ Pins(r) /\ Series(r) /\ runs'[r].child = child /\ runs'[r].retry_child = runs[r].retry_child
  /\ runs[r].policy = "one_follow_up" /\ runs[r].version = 1 /\ runs[r].mode = "auto"
  /\ runs[r].root = r /\ runs[r].child = NoRun
  /\ ReportFits(r, reports'[r]) /\ reports'[r].series = "refine_selected"
  /\ reports'[r].selected # NoKey
  /\ runs[child] = Absent /\ runs'[child].state = "running" /\ reports'[child] = reports[child]
  /\ runs'[child].mode = "auto" /\ runs'[child].window = runs[r].window
  /\ runs'[child].parent = r /\ runs'[child].seed = reports'[r].selected
  /\ runs'[child].policy = runs[r].policy /\ runs'[child].root = r /\ runs'[child].version = 2
  /\ runs'[child].retry_of = NoRun /\ runs'[child].retry_child = NoRun
  /\ runs'[child].child = NoRun
  /\ runs'[child].created = clock + 1 /\ Pinned(child) /\ EndsAt(r, clock + 2)
  /\ Budget(r) /\ Blank(runs'[child])

\* A comparison that a finish accepts is, up to a tie, the latest one.
LEMMA FinalIsLatest ==
  ASSUME Fits, NEW r \in Runs, Compared(r), NEW c \in work[r].comparisons, FinalComparison(r, c)
  PROVE  \A d \in LatestComparisons(r) : d.of = Completed(r) /\ d.ordinal > work[r].changed
<1>1. work[r].comparisons \subseteq Comparison /\ work[r].changed \in Nat
  BY DEF Fits, WorkFits
<1>2. ASSUME NEW d \in LatestComparisons(r)  PROVE d \in work[r].comparisons /\ d.ordinal = c.ordinal
  BY <1>1, <1>2 DEF LatestComparisons, FinalComparison, Comparison
<1> QED
  BY <1>2 DEF FinalComparison, Compared

LEMMA FinishAloneDoes ==
  ASSUME Fits, NEW r \in Runs, Claimed(r), NEW report, ReportFits(r, report), FinishAlone(r, report),
         UNCHANGED work
  PROVE  Finishes(r) /\ Fits'
<1> DEFINE end == clock + 1
<1>1. runs' = [runs EXCEPT ![r].state = "completed", ![r].ended = end]
      /\ reports' = [reports EXCEPT ![r] = report] /\ clock' = end
  BY DEF FinishAlone, Completed_
<1>0. end = clock + 1
  OBVIOUS
<1> HIDE DEF end
<1>2. runs[r].state = "running" /\ RowFits(runs[r])
  BY DEF Fits, Claimed
<1>3. /\ runs' = [s \in Runs |-> runs'[s]] /\ \A s \in Runs \ {r} : runs'[s] = runs[s]
      /\ reports' = [s \in Runs |-> reports'[s]]
      /\ \A s \in Runs \ {r} : reports'[s] = reports[s] /\ reports'[r] = report
  BY <1>1 DEF Fits
<1>4. reports'[r] = report /\ runs'[r] = [runs[r] EXCEPT !.state = "completed", !.ended = end]
  BY <1>1 DEF Fits
<1>5. /\ RowFits(runs'[r]) /\ runs'[r].state = "completed" /\ Pins(r) /\ Series(r)
      /\ runs'[r].child = runs[r].child /\ runs'[r].retry_child = runs[r].retry_child
      /\ runs'[r].ended = end /\ Budget(r)
  <2>1. RowFits(runs'[r])
    BY <1>2, <1>4 DEF RowFits, RunStates, Terminal
  <2>2. /\ runs'[r].state = "completed" /\ Pins(r) /\ Series(r)
        /\ runs'[r].child = runs[r].child /\ runs'[r].retry_child = runs[r].retry_child
        /\ runs'[r].ended = end /\ Budget(r)
    BY <1>2, <1>4 DEF RowFits, Pins, Series, Budget
  <2> QED
    BY <2>1, <2>2
<1>6. Finishes(r)
  <2>1. Alone(r)
    BY <1>3, <1>5 DEF Alone, Untouched
  <2>2. ReportFits(r, reports'[r])
    BY <1>4
  <2>3. EndsAt(r, clock + 1)
    BY <1>0, <1>1, <1>5 DEF EndsAt
  <2> QED
    BY <1>2, <1>5, <2>1, <2>2, <2>3 DEF Finishes
<1> QED
  <2>1. \A s \in Runs : ~Ended(s)' => reports'[s] = NoReport
    BY <1>3, <1>5 DEF Fits, Ended, Terminal
  <2>2. \A s \in Runs : RowFits(runs'[s]) /\ (runs'[s].state = "absent" => runs'[s] = Absent)
    <3>1. ASSUME NEW s \in Runs \ {r}
          PROVE  RowFits(runs'[s]) /\ (runs'[s].state = "absent" => runs'[s] = Absent)
      BY <1>3 DEF Fits
    <3> QED
      BY <1>5, <3>1
  <2> QED
    BY <1>3, <1>6, <2>1, <2>2 DEF Fits

LEMMA FinishWithChildDoes ==
  ASSUME Fits, NEW r \in Runs, Claimed(r), NEW report, report.selected \in Keys,
         report = [NoReport EXCEPT !.selected = report.selected, !.compared = report.compared,
                     !.stop = report.stop, !.series = report.series, !.holdout = report.holdout],
         ReportFits(r, report), report.series = "refine_selected",
         MayRefine(r), runs[r].root = r,
         FinishWithChild(r, report), UNCHANGED work
  PROVE  (\E child \in Runs : FinishesWith(r, child)) /\ Fits'
<1>1. PICK child \in Runs :
        /\ Free(child)
        /\ LET linked == [runs EXCEPT ![child] = ChildRow(r, report.selected),
                                      ![runs[r].root].child = child]
               pinned == [linked EXCEPT ![child].memory = ComposePin(linked, work, child, r)]
           IN  runs' = Completed_(pinned, r, clock + 2)
        /\ reports' = [reports EXCEPT ![r] = [report EXCEPT !.follow_up = child]]
        /\ clock' = clock + 2
  BY DEF FinishWithChild
<1> DEFINE row    == ChildRow(r, report.selected)
           linked == [runs EXCEPT ![child] = row, ![r].child = child]
           m      == ComposePin(linked, work, child, r)
           end    == clock + 2
           final  == [report EXCEPT !.follow_up = child]
<1>2. /\ runs' = [[linked EXCEPT ![child].memory = m] EXCEPT ![r].state = "completed", ![r].ended = end]
      /\ reports' = [reports EXCEPT ![r] = final]
  BY <1>1 DEF Completed_
<1>3. runs[r].state = "running" /\ runs[child] = Absent /\ child # r /\ RowFits(runs[r])
  BY <1>1 DEF Fits, Free, Claimed
<1>4. /\ RowFits(row) /\ row.state = "running" /\ row.mode = "auto" /\ row.window = runs[r].window
      /\ row.parent = r /\ row.seed = report.selected /\ row.policy = runs[r].policy
      /\ row.root = r /\ row.version = 2 /\ row.retry_of = NoRun /\ row.retry_child = NoRun
      /\ row.child = NoRun /\ row.created = clock + 1 /\ Blank(row)
  <2> DEFINE window == runs[r].window
             policy == runs[r].policy
             root   == runs[r].root
             now    == clock + 1
             seed   == report.selected
  <2>1. row = [state |-> "running", mode |-> "auto", window |-> window, parent |-> r, seed |-> seed,
               retry_of |-> NoRun, retry_child |-> NoRun, policy |-> policy, root |-> root,
               version |-> 2, child |-> NoRun, memory |-> EmptyPin, created |-> now, ended |-> 0,
               used |-> 0, repairs |-> 0]
    <3>1. PICK blank :
            Absent = [state |-> "absent", mode |-> "plan", window |-> blank, parent |-> NoRun,
                      seed |-> NoKey, retry_of |-> NoRun, retry_child |-> NoRun, policy |-> "none",
                      root |-> NoRun, version |-> 0, child |-> NoRun, memory |-> EmptyPin,
                      created |-> 0, ended |-> 0, used |-> 0, repairs |-> 0]
      BY DEF Absent
    <3>2. row = [Absent EXCEPT !.state = "running", !.mode = "auto", !.window = window, !.parent = r,
                   !.seed = seed, !.policy = policy, !.root = root, !.version = 2, !.created = now]
      BY DEF ChildRow
    <3> HIDE DEF window, policy, root, now, seed, row
    <3> QED
      BY <3>1, <3>2
  <2>2. policy \in Policies /\ root = r /\ seed \in Keys /\ "running" \in RunStates
    BY <1>3 DEF RowFits, RunStates
  <2> HIDE DEF window, policy, root, now, seed, row
  <2>3. RowFits(row)
    BY <2>1, <2>2 DEF RowFits
  <2>4. /\ row.state = "running" /\ row.mode = "auto" /\ row.window = window /\ row.parent = r
        /\ row.seed = seed /\ row.policy = policy /\ row.root = root /\ row.version = 2
        /\ row.retry_of = NoRun /\ row.retry_child = NoRun /\ row.child = NoRun
        /\ row.created = now /\ Blank(row)
    BY <2>1 DEF Blank
  <2>5. /\ root = r /\ policy = runs[r].policy /\ window = runs[r].window /\ seed = report.selected
        /\ now = clock + 1
    BY <2>2 DEF window, policy, seed, now
  <2> QED
    BY <2>3, <2>4, <2>5
<1> HIDE DEF row, m, end
<1>5. /\ runs' = [s \in Runs |-> runs'[s]] /\ \A s \in Runs \ {r, child} : runs'[s] = runs[s]
      /\ runs'[child] = WithMemory(row, m)
      /\ runs'[r] = [[runs[r] EXCEPT !.child = child] EXCEPT !.state = "completed", !.ended = end]
  BY <1>2, <1>3 DEF Fits, WithMemory
<1>6. /\ RowFits(runs'[child]) /\ runs'[child].state = "running" /\ runs'[child].mode = "auto"
      /\ runs'[child].window = runs[r].window /\ runs'[child].parent = r
      /\ runs'[child].seed = report.selected /\ runs'[child].policy = runs[r].policy
      /\ runs'[child].root = r /\ runs'[child].version = 2 /\ runs'[child].retry_of = NoRun
      /\ runs'[child].retry_child = NoRun /\ runs'[child].child = NoRun
      /\ runs'[child].created = clock + 1 /\ Blank(runs'[child])
  <2>1. RowFits(runs'[child])
    BY <1>4, <1>5 DEF RowFits, WithMemory
  <2> QED
    BY <1>4, <1>5, <2>1 DEF RowFits, WithMemory, Blank
<1>7. /\ RowFits(runs'[r]) /\ runs'[r].state = "completed" /\ Pins(r) /\ Series(r)
      /\ runs'[r].child = child /\ runs'[r].retry_child = runs[r].retry_child
      /\ runs'[r].ended = end /\ Budget(r)
  <2>1. RowFits(runs'[r])
    BY <1>3, <1>5 DEF RowFits, RunStates, Terminal
  <2>2. /\ runs'[r].state = "completed" /\ Pins(r) /\ Series(r)
        /\ runs'[r].child = child /\ runs'[r].retry_child = runs[r].retry_child
        /\ runs'[r].ended = end /\ Budget(r)
    BY <1>3, <1>5 DEF RowFits, Pins, Series, Budget
  <2> QED
    BY <2>1, <2>2
<1>8. /\ reports' = [s \in Runs |-> reports'[s]] /\ reports'[r] = final
      /\ \A s \in Runs \ {r} : reports'[s] = reports[s]
  BY <1>2 DEF Fits
<1>9. /\ final.selected = report.selected /\ final.compared = report.compared
      /\ final.stop = report.stop /\ final.series = report.series /\ final.holdout = report.holdout
  BY DEF NoReport
<1>17. final \in Report
  <2>1. report \in Report /\ child \in Runs \cup {NoRun}
    BY DEF ReportFits
  <2> QED
    BY <2>1 DEF Report
<1> HIDE DEF final
<1>10. ReportFits(r, final) /\ report.selected # NoKey
  BY <1>9, <1>17, LineageConstants DEF ReportFits
<1>15. Pinned(child)
  <2> SUFFICES ASSUME NEW rs2, NEW w, rs2 = runs', w = work'
               PROVE  PinnedIn(rs2, w, child)
    BY DEF Pinned
  <2>1. /\ linked[child] = row /\ \A s \in Runs \ {r, child} : linked[s] = runs[s]
        /\ linked[r] = [runs[r] EXCEPT !.child = child]
    BY <1>3 DEF Fits
  <2>2. /\ linked[r].state = "running" /\ linked[r].window = runs[r].window
        /\ linked[r].parent = runs[r].parent /\ linked[r].created = runs[r].created
        /\ linked[r].policy = runs[r].policy /\ linked[r].root = r /\ linked[r].version = 1
    BY <1>3, <2>1 DEF RowFits, MayRefine
  <2>3. m = ComposePin(linked, w, child, r)
    BY DEF m
  <2> HIDE DEF linked
  <2>4. /\ rs2[child].policy # "none" /\ rs2[child].version = 2 /\ rs2[child].parent = r
        /\ row.policy # "none" /\ rs2[child].memory = m
    BY <1>4, <1>5, <1>6 DEF MayRefine, WithMemory, RowFits
  <2>5. OverrideOf(rs2, child) = r
    BY <2>4 DEF OverrideOf
  <2>6. \A s \in Runs \ {r} : SameColumns(linked[s], rs2[s]) /\ linked[s].parent \in Runs \cup {NoRun}
    <3>1. SameColumns(row, WithMemory(row, m)) /\ row.parent \in Runs \cup {NoRun}
      BY <1>4 DEF SameColumns, WithMemory, RowFits
    <3>2. \A s \in Runs \ {r, child} : rs2[s] = linked[s] /\ linked[s].parent \in Runs \cup {NoRun}
      BY <1>5, <2>1 DEF Fits, RowFits
    <3> QED
      BY <1>5, <2>1, <3>1, <3>2 DEF SameColumns
  <2>7. Available(linked, child, r, r)
    BY <1>4, <2>1, <2>2, <2>4 DEF Available
  <2>8. Available(rs2, child, r, r)
    BY <1>6, <1>7, <2>4 DEF Available, MayRefine, Series
  <2>9. SameRows(linked, rs2, child, r)
    <3>1. /\ linked[r].parent \in Runs \cup {NoRun} /\ rs2[r].parent = linked[r].parent
          /\ rs2[r].window = linked[r].window /\ rs2[r].created = linked[r].created
          /\ linked[r].state # "absent" /\ rs2[r].state # "absent"
      BY <1>3, <1>7, <2>2 DEF RowFits, Pins
    <3> QED
      BY <1>3, <2>6, <2>7, <2>8, <3>1 DEF SameRows
  <2>10. ComposePin(linked, w, child, r) = ComposePin(rs2, w, child, r)
    BY <2>9, SameView
  <2> QED
    BY <2>3, <2>4, <2>5, <2>10 DEF PinnedIn
<1>16. EndsAt(r, clock + 2)
  BY <1>1, <1>7 DEF EndsAt, end
<1>11. FinishesWith(r, child)
  BY <1>3, <1>5, <1>6, <1>7, <1>8, <1>9, <1>10, <1>15, <1>16 DEF FinishesWith, MayRefine, Untouched
<1>12. reports[child] = NoReport
  BY <1>3, AbsentRow, LineageConstants DEF Fits, Ended, Terminal
<1>13. \A s \in Runs : ~Ended(s)' => reports'[s] = NoReport
  <2>1. Ended(r)'
    BY <1>7 DEF Ended, Terminal
  <2>2. reports'[child] = NoReport
    BY <1>3, <1>8, <1>12
  <2>3. ASSUME NEW s \in Runs \ {r, child}, ~Ended(s)'  PROVE reports'[s] = NoReport
    <3>1. runs'[s] = runs[s] /\ reports'[s] = reports[s]
      BY <1>5, <1>8, <2>3
    <3> QED
      BY <2>3, <3>1 DEF Fits, Ended
  <2> QED
    BY <2>1, <2>2, <2>3
<1>14. \A s \in Runs : RowFits(runs'[s]) /\ (runs'[s].state = "absent" => runs'[s] = Absent)
  <2>1. ASSUME NEW s \in Runs \ {r, child}
        PROVE  RowFits(runs'[s]) /\ (runs'[s].state = "absent" => runs'[s] = Absent)
    BY <1>5 DEF Fits
  <2> QED
    BY <1>6, <1>7, <2>1
<1> QED
  BY <1>5, <1>8, <1>11, <1>13, <1>14 DEF Fits

LEMMA FinishDoes ==
  ASSUME Fits, NEW r \in Runs, Compared(r), Finish(r),
         runs[r].policy # "none" /\ runs[r].version = 1 => runs[r].root = r
  PROVE  (Finishes(r) \/ \E child \in Runs : FinishesWith(r, child)) /\ Fits'
<1>1. Claimed(r) /\ UNCHANGED work
  BY DEF Finish
<1>2. PICK stop \in StopActions \cup {"none"}, series \in {"none", "stop", "refine_selected"} :
        \/ /\ SeriesValid(r, series, NoKey)
           /\ FinishAlone(r, [NoReport EXCEPT !.holdout = "not_evaluated", !.stop = stop])
        \/ \E c \in work[r].comparisons, k \in Completed(r) :
             LET report == [NoReport EXCEPT !.selected = k, !.compared = c.of, !.stop = stop,
                              !.series = series, !.holdout = HoldoutState(r, k)]
             IN  /\ IF stop = "none" THEN StrictSequence(r) ELSE StopAccepted(work, r, stop)
                 /\ FinalComparison(r, c)
                 /\ DecisionValid(c.of, k)
                 /\ SeriesValid(r, series, k)
                 /\ IF series = "refine_selected" THEN FinishWithChild(r, report)
                    ELSE FinishAlone(r, report)
  BY DEF Finish
<1>3. CASE FinishAlone(r, [NoReport EXCEPT !.holdout = "not_evaluated", !.stop = stop])
  <2> DEFINE report == [NoReport EXCEPT !.holdout = "not_evaluated", !.stop = stop]
  <2>1. ReportFits(r, report)
    BY DEF ReportFits, NoReport, Report, StopActions, HoldoutStates
  <2> HIDE DEF report
  <2> QED
    BY <1>1, <1>3, <2>1, FinishAloneDoes DEF report
<1>4. ASSUME NEW c \in work[r].comparisons, NEW k \in Completed(r), NEW report,
             report = [NoReport EXCEPT !.selected = k, !.compared = c.of, !.stop = stop,
                         !.series = series, !.holdout = HoldoutState(r, k)],
             IF stop = "none" THEN StrictSequence(r) ELSE StopAccepted(work, r, stop),
             FinalComparison(r, c), DecisionValid(c.of, k), SeriesValid(r, series, k),
             IF series = "refine_selected" THEN FinishWithChild(r, report) ELSE FinishAlone(r, report)
      PROVE  (Finishes(r) \/ \E child \in Runs : FinishesWith(r, child)) /\ Fits'
  <2>1. k \in Keys
    <3>1. work[r].candidates \in Seq(Candidate)
      BY DEF Fits, WorkFits
    <3>2. PICK i \in DOMAIN work[r].candidates : k = work[r].candidates[i].key
      BY DEF Completed, InState
    <3>3. work[r].candidates[i] \in Candidate
      BY <3>1
    <3> QED
      BY <3>2, <3>3 DEF Candidate
  <2> DEFINE holdout == HoldoutState(r, k)
  <2>2. /\ report.selected = k /\ report.compared = c.of /\ report.stop = stop
        /\ report.series = series /\ report.holdout = holdout
        /\ report = [NoReport EXCEPT !.selected = report.selected, !.compared = report.compared,
                       !.stop = report.stop, !.series = report.series, !.holdout = report.holdout]
    <3> HIDE DEF holdout
    <3>1. report = [NoReport EXCEPT !.selected = k, !.compared = c.of, !.stop = stop,
                      !.series = series, !.holdout = holdout]
      BY <1>4 DEF holdout
    <3> QED
      BY <3>1 DEF NoReport
  <2>3. c.of = Completed(r)
    BY <1>4 DEF FinalComparison
  <2>4. stop # "none" => Cardinality(Completed(r)) = 2
    BY <1>4 DEF StopAccepted, Completed, InState
  <2>5. \A d \in LatestComparisons(r) : d.of = Completed(r) /\ d.ordinal > work[r].changed
    BY <1>4, FinalIsLatest
  <2>9. report \in Report
    <3>1. c.of \subseteq Keys
      BY DEF Fits, WorkFits, Comparison
    <3>2. holdout \in HoldoutStates
      BY DEF HoldoutState, HoldoutStates
    <3>3. report = [selected |-> k, compared |-> c.of, holdout |-> holdout, stop |-> stop,
                    series |-> series, follow_up |-> NoRun]
      <4> HIDE DEF holdout
      <4> QED
        BY <2>2 DEF NoReport
    <3> HIDE DEF holdout
    <3> QED
      BY <2>1, <3>1, <3>2, <3>3 DEF Report
  <2>6. ReportFits(r, report)
    BY <1>4, <2>1, <2>2, <2>3, <2>4, <2>5, <2>9, LineageConstants DEF ReportFits
  <2>7. CASE series # "refine_selected"
    BY <1>1, <1>4, <2>6, <2>7, FinishAloneDoes
  <2>8. CASE series = "refine_selected"
    <3>1. MayRefine(r)
      BY <1>4, <2>8 DEF SeriesValid
    <3>2. runs[r].root = r
      BY <3>1 DEF MayRefine
    <3>3. FinishWithChild(r, report)
      BY <1>4, <2>8
    <3> QED
      BY <1>1, <2>1, <2>2, <2>6, <2>8, <3>1, <3>2, <3>3, FinishWithChildDoes
  <2> QED
    BY <2>7, <2>8
<1> QED
  BY <1>2, <1>3, <1>4

-----------------------------------------------------------------------------
(* The links of a run.                                                     *)

\* Whatever a step is, it does one of these.
Step ==
  \E r \in Runs :
    \/ Works(r) /\ Tries(r)
    \/ Stops(r) \/ Approves(r) \/ Begins(r) \/ Finishes(r)
    \/ \E s \in Runs : FinishesWith(r, s) \/ Retries(r, s)

\* A run descends from runs that have ended.
SourcesEnd ==
  \A r \in Runs : /\ Linked(r)
                  /\ runs[r].parent # NoRun => Ended(runs[r].parent)
                  /\ runs[r].retry_of # NoRun => Ended(runs[r].retry_of)

\* A run keeps its pins; one that has ended keeps all but the link to its retry.
Sealed ==
  \A s \in Created(runs) :
    /\ s \in Created(runs)' /\ Pins(s)
    /\ Ended(s) => /\ Ended(s)' /\ work'[s] = work[s] /\ reports'[s] = reports[s]
                   /\ Series(s) /\ runs'[s].child = runs[s].child
                   /\ runs'[s].ended = runs[s].ended

LEMMA AbsentIsFree ==
  ASSUME Fits, NEW r \in Runs
  PROVE  /\ runs[r].state \in RunStates
         /\ (r \notin Created(runs)) <=> runs[r] = Absent
         /\ ~Ended(r) => reports[r] = NoReport
         /\ Ended(r) \/ Live(r) => r \in Created(runs)
  BY AbsentRow, LineageConstants DEF Fits, Created, RowFits, Ended, Live, Terminal

LEMMA StepIsSealed ==
  ASSUME Fits, Step
  PROVE  Sealed
<1>1. PICK r \in Runs :
        \/ Works(r) \/ Stops(r) \/ Approves(r) \/ Begins(r) \/ Finishes(r)
        \/ \E s \in Runs : FinishesWith(r, s) \/ Retries(r, s)
  BY DEF Step
<1> USE DEF Sealed, Created, Pins, Series, Untouched
<1>2. CASE Works(r)
  BY <1>2 DEF Works, Alone, Ended, Terminal
<1>3. CASE Stops(r)
  BY <1>3 DEF Stops, Alone, Ended, Live, Terminal
<1>4. CASE Approves(r)
  BY <1>4 DEF Approves, Alone, Ended, Terminal
<1>5. CASE Begins(r)
  BY <1>5, AbsentRow, LineageConstants DEF Begins, Ended
<1>6. CASE Finishes(r)
  BY <1>6 DEF Finishes, Alone, Ended, Terminal
<1>7. ASSUME NEW s \in Runs, FinishesWith(r, s)  PROVE Sealed
  <2>1. s \notin Created(runs) /\ ~Ended(r)
    BY <1>7, AbsentRow, LineageConstants DEF FinishesWith, Ended, Terminal
  <2>2. r \in Created(runs)' /\ Pins(r)
    BY <1>7 DEF FinishesWith
  <2>3. ASSUME NEW x \in Created(runs), x # r
        PROVE  runs'[x] = runs[x] /\ work'[x] = work[x] /\ reports'[x] = reports[x]
    BY <1>7, <2>1, <2>3 DEF FinishesWith
  <2> QED
    BY <2>1, <2>2, <2>3 DEF Ended
<1>8. ASSUME NEW s \in Runs, Retries(r, s)  PROVE Sealed
  <2>1. r \notin Created(runs)
    BY <1>8, AbsentRow, LineageConstants DEF Retries
  <2>2. /\ s \in Created(runs)' /\ Pins(s) /\ Series(s) /\ runs'[s].child = runs[s].child /\ Ended(s)'
        /\ runs'[s].ended = runs[s].ended
    BY <1>8 DEF Retries, Ended, Terminal
  <2>3. ASSUME NEW x \in Created(runs), x # s
        PROVE  runs'[x] = runs[x]
    BY <1>8, <2>1, <2>3 DEF Retries
  <2>4. work' = work /\ reports' = reports
    BY <1>8 DEF Retries
  <2> QED
    BY <2>1, <2>2, <2>3, <2>4 DEF Ended
<1> QED
  BY <1>1, <1>2, <1>3, <1>4, <1>5, <1>6, <1>7, <1>8

Attaches(r) ==
  /\ runs[r].state = "waiting" /\ runs[r].policy = "none"
  /\ runs[r].parent = NoRun /\ runs[r].retry_of = NoRun
  /\ runs'[r].policy = "one_follow_up" /\ runs'[r].root = r
  /\ runs'[r].version = 1 /\ runs'[r].mode = "auto"

\* A step that creates no run: a call, an end, an approval.
Touches(r) ==
  /\ r \in Created(runs) /\ Created(runs)' = Created(runs)
  /\ Live(r) /\ Alone(r) /\ (Series(r) \/ Attaches(r))
  /\ \/ reports'[r] = reports[r]
     \/ Series(r) /\ Ended(r)' /\ work'[r] = work[r] /\ ReportFits(r, reports'[r])

LEMMA StepCases ==
  ASSUME Fits, Step
  PROVE  \E r \in Runs : \/ Touches(r)
                         \/ Begins(r) /\ Created(runs)' = Created(runs) \cup {r}
                         \/ \E s \in Runs : \/ FinishesWith(r, s) /\ Created(runs)' = Created(runs) \cup {s}
                                            \/ Retries(r, s) /\ Created(runs)' = Created(runs) \cup {r}
<1>1. PICK r \in Runs :
        \/ Works(r) \/ Stops(r) \/ Approves(r) \/ Begins(r) \/ Finishes(r)
        \/ \E s \in Runs : FinishesWith(r, s) \/ Retries(r, s)
  BY DEF Step
<1>2. CASE Works(r) \/ Stops(r) \/ Approves(r) \/ Finishes(r)
  <2>1. /\ Alone(r) /\ (Series(r) \/ Attaches(r)) /\ Live(r) /\ runs'[r].state # "absent"
        /\ \/ reports'[r] = reports[r]
           \/ Series(r) /\ Ended(r)' /\ work'[r] = work[r] /\ ReportFits(r, reports'[r])
    BY <1>2 DEF Works, Stops, Approves, Finishes, Attaches, Live, Ended, Terminal
  <2>2. \A s \in Runs \ {r} : runs'[s] = runs[s]
    BY <2>1 DEF Alone, Untouched
  <2>3. Touches(r)
    BY <2>1, <2>2 DEF Touches, Created, Live
  <2> QED
    BY <2>3
<1>3. ASSUME Begins(r)
      PROVE  Created(runs)' = Created(runs) \cup {r}
  <2>1. /\ \A x \in Runs \ {r} : runs'[x] = runs[x]
        /\ runs'[r].state # "absent"
    BY <1>3 DEF Begins, Untouched
  <2> QED
    BY <2>1 DEF Created
<1>4. ASSUME NEW s \in Runs, FinishesWith(r, s)
      PROVE  Created(runs)' = Created(runs) \cup {s}
  <2>1. \A x \in Runs \ {r, s} : runs'[x] = runs[x]
    BY <1>4 DEF FinishesWith, Untouched
  <2>2. /\ runs[r].state = "running" /\ runs'[r].state = "completed" /\ runs'[s].state = "running"
    BY <1>4 DEF FinishesWith
  <2> QED
    BY <2>1, <2>2 DEF Created
<1>5. ASSUME NEW s \in Runs, Retries(r, s)
      PROVE  Created(runs)' = Created(runs) \cup {r}
  <2>1. \A x \in Runs \ {r, s} : runs'[x] = runs[x]
    BY <1>5 DEF Retries, Untouched
  <2>2. /\ runs'[s].state = runs[s].state /\ runs'[r].state # "absent"
    BY <1>5 DEF Retries
  <2> QED
    BY <2>1, <2>2 DEF Created
<1> QED
  BY <1>1, <1>2, <1>3, <1>4, <1>5

LEMMA SourcesEndKept ==
  ASSUME Fits, Step, SourcesEnd
  PROVE  SourcesEnd'
<1>1. Sealed
  BY StepIsSealed
<1>2. /\ \A s \in Runs : Ended(s) => s \in Created(runs)
      /\ \A s \in Created(runs) : s \in Runs /\ s \in Created(runs)' /\ Pins(s) /\ (Ended(s) => Ended(s)')
      /\ \A s \in Runs : s \notin Created(runs) => runs[s] = Absent
  BY <1>1, AbsentIsFree DEF Sealed, Created
<1>3. PICK r \in Runs :
         \/ Touches(r)
         \/ Begins(r) /\ Created(runs)' = Created(runs) \cup {r}
         \/ \E s \in Runs : \/ FinishesWith(r, s) /\ Created(runs)' = Created(runs) \cup {s}
                            \/ Retries(r, s) /\ Created(runs)' = Created(runs) \cup {r}
  BY StepCases
<1> DEFINE Good(x) == /\ Linked(x)
                      /\ runs[x].parent # NoRun => Ended(runs[x].parent)
                      /\ runs[x].retry_of # NoRun => Ended(runs[x].retry_of)
<1>4. \A x \in Runs : Good(x)
  BY DEF SourcesEnd
<1>5. ASSUME NEW x \in Runs, runs'[x] = runs[x]
      PROVE  Good(x)'
  BY <1>2, <1>4, <1>5 DEF Linked
<1>6. CASE Touches(r)
  <2>1. \A x \in Runs \ {r} : Good(x)'
    BY <1>5, <1>6 DEF Touches, Alone, Untouched
  <2>2. Good(r)'
    BY <1>2, <1>4, <1>6 DEF Linked, Touches, Alone, Pins, Series, Attaches
  <2> QED
    BY <2>1, <2>2 DEF SourcesEnd
<1>7. CASE Begins(r) /\ Created(runs)' = Created(runs) \cup {r}
  <2>1. \A x \in Runs \ {r} : Good(x)'
    BY <1>5, <1>7 DEF Begins, Untouched
  <2>2. Good(r)'
    BY <1>2, <1>7 DEF Linked, Begins
  <2> QED
    BY <2>1, <2>2 DEF SourcesEnd
<1>8. ASSUME NEW s \in Runs, FinishesWith(r, s), Created(runs)' = Created(runs) \cup {s}
      PROVE  SourcesEnd'
  <2>1. \A x \in Runs \ {r, s} : Good(x)'
    BY <1>5, <1>8 DEF FinishesWith, Untouched
  <2>2. Ended(r)' /\ r \in Created(runs)
    BY <1>8 DEF FinishesWith, Ended, Terminal, Created
  <2>3. Good(s)'
    BY <1>2, <1>8, <2>2 DEF Linked, FinishesWith
  <2>4. Good(r)'
    BY <1>2, <1>4, <1>8, <2>2 DEF Linked, FinishesWith, Pins, Series
  <2> QED
    BY <2>1, <2>3, <2>4 DEF SourcesEnd
<1>9. ASSUME NEW s \in Runs, Retries(r, s), Created(runs)' = Created(runs) \cup {r}
      PROVE  SourcesEnd'
  <2>1. \A x \in Runs \ {r, s} : Good(x)'
    BY <1>5, <1>9 DEF Retries, Untouched
  <2>2. Ended(s)' /\ s \in Created(runs)
    BY <1>2, <1>9 DEF Retries
  <2>3. Good(s)'
    BY <1>2, <1>4, <1>9, <2>2 DEF Linked, Retries, Pins, Series
  <2>4. Good(r)'
    BY <1>2, <1>4, <1>9, <2>2 DEF Linked, Retries
  <2> QED
    BY <2>1, <2>3, <2>4 DEF SourcesEnd
<1> QED
  BY <1>3, <1>6, <1>7, <1>8, <1>9

\* What a load demands of the retry of a run.
RetryFits(r, s) ==
  /\ runs[s].retry_of = r <=> runs[r].retry_child = s
  /\ runs[s].retry_of = r =>
       /\ runs[s].window = runs[r].window /\ runs[s].memory = runs[r].memory
       /\ runs[s].parent = runs[r].parent /\ runs[s].seed = runs[r].seed
       /\ runs[s].policy = runs[r].policy /\ runs[s].mode = runs[r].mode

LEMMA RetryPairs ==
  ASSUME Fits, SourcesEnd
  PROVE  RetryLinks <=> \A r, s \in Created(runs) : RetryFits(r, s)
<1>1. \A s \in Created(runs) : runs[s].retry_of \in Created(runs) \cup {NoRun} /\ s # NoRun
  BY LineageConstants DEF SourcesEnd, Linked, Created
<1> QED
  BY <1>1 DEF RetryLinks, RetryFits

LEMMA RetryLinksKept ==
  ASSUME Fits, Step, SourcesEnd, RetryLinks, Fits'
  PROVE  RetryLinks'
<1>1. Sealed
  BY StepIsSealed
<1>2. \A x \in Created(runs) : /\ x \in Runs /\ x # NoRun
                               /\ runs[x].retry_of \in Created(runs) \cup {NoRun}
                               /\ runs[x].retry_child \in Created(runs) \cup {NoRun}
                               /\ runs[x].retry_of # NoRun => Ended(runs[x].retry_of)
                               /\ runs'[x].retry_of = runs[x].retry_of
  BY <1>1, LineageConstants DEF SourcesEnd, Linked, Created, Sealed, Pins
<1>3. PICK r \in Runs :
         \/ Touches(r)
         \/ Begins(r) /\ Created(runs)' = Created(runs) \cup {r}
         \/ \E s \in Runs : \/ FinishesWith(r, s) /\ Created(runs)' = Created(runs) \cup {s}
                            \/ Retries(r, s) /\ Created(runs)' = Created(runs) \cup {r}
  BY StepCases
<1>4. \A x, y \in Created(runs) : RetryFits(x, y)
  BY RetryPairs
<1>5. SourcesEnd'
  BY SourcesEndKept
<1>6. SUFFICES \A x, y \in Created(runs)' : RetryFits(x, y)'
  <2>1. \A s \in Created(runs)' : runs'[s].retry_of \in Created(runs)' \cup {NoRun} /\ s # NoRun
    BY <1>5, LineageConstants DEF SourcesEnd, Linked, Created
  <2> QED
    BY <2>1 DEF RetryLinks, RetryFits
<1>7. ASSUME NEW x \in Created(runs), NEW y \in Created(runs),
             runs'[x].retry_child = runs[x].retry_child, Series(y) \/ runs[y].retry_of = NoRun
      PROVE  RetryFits(x, y)'
  <2>1. CASE runs[y].retry_of = x
    <3>1. Ended(x) /\ Series(x) /\ Series(y) /\ Pins(x) /\ Pins(y)
      BY <1>1, <1>2, <1>7, <2>1 DEF Sealed
    <3> QED
      BY <1>4, <1>7, <2>1, <3>1 DEF RetryFits, Series, Pins
  <2>2. CASE runs[y].retry_of # x
    BY <1>2, <1>4, <1>7, <2>2 DEF RetryFits
  <2> QED
    BY <2>1, <2>2
<1>8. CASE Touches(r)
  <2>1. \A x \in Created(runs) : /\ runs'[x].retry_child = runs[x].retry_child
                                 /\ Series(x) \/ runs[x].retry_of = NoRun
    BY <1>8 DEF Touches, Alone, Untouched, Attaches, Series, Created
  <2> QED
    BY <1>7, <1>8, <2>1 DEF Touches
<1>9. CASE Begins(r) /\ Created(runs)' = Created(runs) \cup {r}
  <2>1. r \notin Created(runs) /\ r # NoRun
    BY <1>9, AbsentRow, LineageConstants DEF Begins, Created
  <2>2. \A x \in Created(runs) : runs'[x].retry_child = runs[x].retry_child /\ Series(x)
    BY <1>9, <2>1 DEF Begins, Untouched, Series, Created
  <2>3. \A x \in Created(runs)' : RetryFits(x, r)' /\ RetryFits(r, x)'
    <3>1. runs'[r].retry_of = NoRun /\ runs'[r].retry_child = NoRun
      BY <1>9 DEF Begins
    <3>2. \A x \in Created(runs)' : x # NoRun /\ runs'[x].retry_of # r /\ runs'[x].retry_child # r
      BY <1>2, <1>9, <2>1, <2>2, <3>1
    <3> QED
      BY <2>1, <3>1, <3>2 DEF RetryFits
  <2> QED
    BY <1>7, <1>9, <2>2, <2>3
<1>10. ASSUME NEW s \in Runs, FinishesWith(r, s), Created(runs)' = Created(runs) \cup {s}
       PROVE  \A x, y \in Created(runs)' : RetryFits(x, y)'
  <2>1. s \notin Created(runs) /\ s # NoRun
    BY <1>10, AbsentRow, LineageConstants DEF FinishesWith, Created
  <2>2. \A x \in Created(runs) : runs'[x].retry_child = runs[x].retry_child /\ Series(x)
    BY <1>10, <2>1 DEF FinishesWith, Untouched, Series, Created
  <2>3. \A x \in Created(runs)' : RetryFits(x, s)' /\ RetryFits(s, x)'
    <3>1. runs'[s].retry_of = NoRun /\ runs'[s].retry_child = NoRun
      BY <1>10 DEF FinishesWith
    <3>2. \A x \in Created(runs)' : x # NoRun /\ runs'[x].retry_of # s /\ runs'[x].retry_child # s
      BY <1>2, <1>10, <2>1, <2>2, <3>1
    <3> QED
      BY <2>1, <3>1, <3>2 DEF RetryFits
  <2> QED
    BY <1>7, <1>10, <2>2, <2>3
<1>11. ASSUME NEW s \in Runs, Retries(r, s), Created(runs)' = Created(runs) \cup {r}
       PROVE  \A x, y \in Created(runs)' : RetryFits(x, y)'
  <2>1. r \notin Created(runs) /\ r # NoRun /\ s \in Created(runs) /\ r # s
    BY <1>11, AbsentRow, AbsentIsFree, LineageConstants DEF Retries, Created
  <2>2. \A x \in Created(runs) : Series(x) /\ (x # s => runs'[x].retry_child = runs[x].retry_child)
    BY <1>11, <2>1 DEF Retries, Untouched, Series, Created
  <2>3. \A x, y \in Created(runs) : x # s => RetryFits(x, y)'
    BY <1>7, <2>2
  <2>4. \A y \in Created(runs) : RetryFits(s, y)'
    <3>1. \A y \in Created(runs) : runs[y].retry_of # s
      BY <1>2, <1>4, <1>11, <2>1 DEF RetryFits, Retries
    <3> QED
      BY <1>2, <1>11, <2>1, <3>1 DEF RetryFits, Retries
  <2>9. /\ runs'[r].retry_of = s /\ runs'[r].retry_child = NoRun
        /\ \A x \in Created(runs) : x # NoRun /\ runs'[x].retry_of # r
    BY <1>2, <1>11, <2>1 DEF Retries
  <2>5. \A x \in Created(runs) : RetryFits(r, x)'
    BY <2>9 DEF RetryFits
  <2>6. \A x \in Created(runs)' : x # s => RetryFits(x, r)'
    <3>1. \A x \in Created(runs) : x # s => runs'[x].retry_child # r
      BY <1>2, <2>1, <2>2
    <3> QED
      BY <1>11, <2>1, <2>9, <3>1 DEF RetryFits
  <2>7. RetryFits(s, r)'
    BY <1>11 DEF RetryFits, Retries, Pins, Series
  <2> QED
    BY <1>11, <2>3, <2>4, <2>5, <2>6, <2>7
<1> QED
  BY <1>3, <1>8, <1>9, <1>10, <1>11

LEMMA CompletedKept == \A x : work'[x] = work[x] => Completed(x)' = Completed(x)
  BY DEF Completed, InState

LEMMA RefinementLinksKept ==
  ASSUME Fits, Step, SourcesEnd, RefinementLinks
  PROVE  RefinementLinks'
<1> DEFINE Inherits(x) ==
      runs[x].parent # NoRun =>
        LET p == runs[x].parent
        IN  /\ Ended(p) /\ runs[x].seed \in Completed(p)
            /\ Dataset[runs[p].window] = Dataset[runs[x].window]
<1>1. Sealed
  BY StepIsSealed
<1>2. \A x \in Created(runs) : Inherits(x)
  BY DEF RefinementLinks
<1>3. \A x \in Runs : Ended(x) => /\ x \in Created(runs) /\ Ended(x)' /\ Completed(x)' = Completed(x)
                                  /\ runs'[x].window = runs[x].window
  BY <1>1, AbsentIsFree, CompletedKept DEF Sealed, Pins
<1>4. \A x \in Created(runs) : runs[x].parent \in Runs \cup {NoRun}
  BY DEF SourcesEnd, Linked, Created
<1>5. ASSUME NEW x \in Created(runs)  PROVE Inherits(x)'
  BY <1>1, <1>2, <1>3, <1>4 DEF Sealed, Pins
<1>6. PICK r \in Runs :
         \/ Touches(r)
         \/ Begins(r) /\ Created(runs)' = Created(runs) \cup {r}
         \/ \E s \in Runs : \/ FinishesWith(r, s) /\ Created(runs)' = Created(runs) \cup {s}
                            \/ Retries(r, s) /\ Created(runs)' = Created(runs) \cup {r}
  BY StepCases
<1>7. ASSUME Begins(r)  PROVE Inherits(r)'
  BY <1>3, <1>7 DEF Begins
<1>8. ASSUME NEW s \in Runs, FinishesWith(r, s)  PROVE Inherits(s)'
  <2>1. Ended(r)' /\ Completed(r)' = Completed(r) /\ runs'[r].window = runs[r].window
    BY <1>8, CompletedKept DEF FinishesWith, Ended, Terminal, Pins
  <2>2. reports'[r].selected \in Completed(r)
    BY <1>8 DEF FinishesWith, ReportFits
  <2> QED
    BY <1>8, <2>1, <2>2 DEF FinishesWith
<1>9. ASSUME NEW s \in Runs, Retries(r, s)  PROVE Inherits(r)'
  <2>1. s \in Created(runs)
    BY <1>9, AbsentIsFree DEF Retries
  <2> QED
    BY <1>2, <1>3, <1>4, <1>9, <2>1 DEF Retries
<1> QED
  BY <1>5, <1>6, <1>7, <1>8, <1>9 DEF RefinementLinks, Touches

-----------------------------------------------------------------------------
(* Series.                                                                 *)

\* What the root of a follow-up settled as it ended.
FollowsUp(r, source) ==
  /\ source \in Created(runs) /\ Ended(source)
  /\ runs[source].root = runs[r].root /\ runs[source].version = 1
  /\ runs[source].window = runs[r].window
  /\ reports[source].series = "refine_selected"
  /\ reports[source].selected = runs[r].seed
  /\ \A c \in LatestComparisons(source) :
       c.of = Completed(source) /\ c.ordinal > work[source].changed

FollowUp(s, root) == s \in Created(runs) /\ runs[s].root = root /\ runs[s].version = 2

\* SeriesLinks, one run at a time, and a run in no series has no follow-up.
SeriesFit(r) ==
  /\ runs[r].policy = "none" => runs[r].root = NoRun /\ runs[r].child = NoRun
  /\ runs[r].policy # "none" =>
       LET root == runs[r].root
       IN  /\ root \in Created(runs) /\ runs[root].root = root
           /\ runs[root].policy = runs[r].policy /\ runs[r].mode = "auto"
           /\ runs[r].version = 1 => r = root
           /\ runs[r].version = 2 => /\ reports[r].holdout \in {"none", "not_evaluated"}
                                     /\ FollowsUp(r, runs[r].parent)
           /\ \A s \in Runs : FollowUp(s, root) <=> s = runs[root].child

SeriesFits == \A r \in Created(runs) : SeriesFit(r)

LEMMA LatestKept == \A x : work'[x] = work[x] => LatestComparisons(x)' = LatestComparisons(x)
  BY DEF LatestComparisons

LEMMA FollowsUpKept ==
  ASSUME Fits, Sealed, NEW r \in Created(runs), NEW source, FollowsUp(r, source), Series(r)
  PROVE  FollowsUp(r, source)'
<1>1. /\ source \in Created(runs)' /\ Pins(source) /\ Ended(source)' /\ work'[source] = work[source]
      /\ reports'[source] = reports[source] /\ Series(source)
  BY DEF Sealed, FollowsUp
<1>2. Pins(r)
  BY DEF Sealed
<1>3. Completed(source)' = Completed(source) /\ LatestComparisons(source)' = LatestComparisons(source)
  BY <1>1, CompletedKept, LatestKept
<1> QED
  BY <1>1, <1>2, <1>3 DEF FollowsUp, Pins, Series

\* A run of a series, or of none, that a step leaves as it was.
LEMMA SeriesFitKept ==
  ASSUME Fits, Sealed, NEW r \in Created(runs), SeriesFit(r), Series(r),
         runs[r].policy = "none" => runs'[r].child = runs[r].child,
         \A root \in Created(runs) : runs[r].policy # "none" /\ root = runs[r].root =>
           Series(root) /\ \A s \in Runs : FollowUp(s, root)' <=> s = runs'[root].child,
         runs[r].version = 2 /\ runs[r].policy # "none" =>
           reports'[r].holdout \in {reports[r].holdout, "not_evaluated"}
  PROVE  SeriesFit(r)'
<1>1. CASE runs[r].policy = "none"
  BY <1>1 DEF SeriesFit, Series
<1>2. CASE runs[r].policy # "none"
  <2> PICK root \in Created(runs) : root = runs[r].root
    BY <1>2 DEF SeriesFit
  <2>1. root \in Created(runs)' /\ runs'[r].root = root /\ runs'[r].policy # "none"
    BY <1>2 DEF SeriesFit, Sealed, Series
  <2>2. /\ runs'[root].root = root /\ runs'[root].policy = runs'[r].policy /\ runs'[r].mode = "auto"
        /\ runs'[r].version = 1 => r = root
    BY <1>2 DEF SeriesFit, Series
  <2>3. runs'[r].version = 2 => /\ reports'[r].holdout \in {"none", "not_evaluated"}
                                /\ FollowsUp(r, runs[r].parent)'
    <3>1. runs'[r].version = runs[r].version /\ runs'[r].parent = runs[r].parent
      BY DEF Series, Sealed, Pins
    <3>2. CASE runs[r].version = 2
      <4>1. FollowsUp(r, runs[r].parent) /\ reports'[r].holdout \in {"none", "not_evaluated"}
        BY <1>2, <3>2 DEF SeriesFit
      <4>2. PICK source : source = runs[r].parent
        OBVIOUS
      <4>3. FollowsUp(r, source) /\ runs'[r].parent = source
        BY <3>1, <4>1, <4>2
      <4>4. FollowsUp(r, source)'
        BY <4>3, FollowsUpKept
      <4> QED
        BY <4>1, <4>3, <4>4
    <3> QED
      BY <3>1, <3>2
  <2>4. \A s \in Runs : FollowUp(s, root)' <=> s = runs'[root].child
    BY <1>2
  <2> QED
    BY <2>1, <2>2, <2>3, <2>4 DEF SeriesFit, FollowUp
<1> QED
  BY <1>1, <1>2

LEMMA SeriesFitsKept ==
  ASSUME Fits, Step, SourcesEnd, SeriesFits
  PROVE  SeriesFits'
<1>1. Sealed
  BY StepIsSealed
<1>2. /\ NoRun \notin Runs /\ Created(runs) \subseteq Runs
      /\ \A x \in Created(runs) : /\ runs[x].root \in Created(runs) \cup {NoRun}
                                  /\ runs[x].child \in Created(runs) \cup {NoRun}
                                  /\ runs[x].parent \in Created(runs) \cup {NoRun}
                                  /\ SeriesFit(x)
  BY LineageConstants DEF SourcesEnd, SeriesFits, Linked, Created
<1>3. \A x, root \in Created(runs) : runs[x].policy # "none" /\ root = runs[x].root =>
        runs[root].policy # "none" /\ \A s \in Runs : FollowUp(s, root) <=> s = runs[root].child
  BY <1>2 DEF SeriesFit
<1>4. PICK r \in Runs :
         \/ Touches(r)
         \/ Begins(r) /\ Created(runs)' = Created(runs) \cup {r}
         \/ \E s \in Runs : \/ FinishesWith(r, s) /\ Created(runs)' = Created(runs) \cup {s}
                            \/ Retries(r, s) /\ Created(runs)' = Created(runs) \cup {r}
  BY StepCases
<1>5. CASE Touches(r)
  <2>1. /\ \A x \in Created(runs) : x # r => Untouched(x) /\ Series(x)
        /\ \A x \in Created(runs) : runs'[x].child = runs[x].child
        /\ r \in Created(runs) /\ Created(runs)' = Created(runs)
    BY <1>2, <1>5 DEF Touches, Alone, Untouched, Series
  <2>2. CASE Series(r)
    <3>1. \A s, root : FollowUp(s, root)' <=> FollowUp(s, root)
      BY <2>1, <2>2 DEF FollowUp, Series
    <3>2. \A x \in Created(runs) : runs[x].version = 2 /\ runs[x].policy # "none" =>
            reports'[x].holdout \in {reports[x].holdout, "not_evaluated"}
      <4>1. CASE reports'[r] = reports[r]
        BY <2>1, <4>1 DEF Untouched
      <4>2. CASE ReportFits(r, reports'[r])
        BY <2>1, <4>2 DEF Untouched, ReportFits, HoldoutState
      <4> QED
        BY <1>5, <4>1, <4>2 DEF Touches
    <3>3. ASSUME NEW x \in Created(runs)  PROVE SeriesFit(x)'
      <4>1. \A y \in Created(runs) : Series(y)
        BY <2>1, <2>2
      <4>2. \A root \in Created(runs) : runs[x].policy # "none" /\ root = runs[x].root =>
              Series(root) /\ \A s \in Runs : FollowUp(s, root)' <=> s = runs'[root].child
        BY <1>3, <2>1, <3>1, <4>1
      <4> QED
        BY <1>1, <1>2, <2>1, <3>2, <4>1, <4>2, SeriesFitKept
    <3> QED
      BY <2>1, <3>3 DEF SeriesFits
  <2>3. CASE Attaches(r)
    <3>1. \A x \in Created(runs) : runs[x].policy # "none" => runs[x].root # r
      BY <1>3, <2>1, <2>3 DEF Attaches
    <3>2. \A s : ~FollowUp(s, r)' /\ ~FollowUp(s, r)
      BY <1>2, <2>1, <2>3, <3>1 DEF FollowUp, Attaches, Series, SeriesFit
    <3>3. \A s, root : root # r => (FollowUp(s, root)' <=> FollowUp(s, root) /\ s # r)
      BY <2>1, <2>3 DEF FollowUp, Attaches, Series
    <3>4. \A root \in Runs : ~FollowUp(r, root)
      BY <1>2, <2>1, <2>3 DEF FollowUp, Attaches, SeriesFit
    <3>5. ASSUME NEW x \in Created(runs), x # r  PROVE SeriesFit(x)'
      <4>1. \A root \in Created(runs) : runs[x].policy # "none" /\ root = runs[x].root =>
              Series(root) /\ \A s \in Runs : FollowUp(s, root)' <=> s = runs'[root].child
        <5> SUFFICES ASSUME NEW root \in Created(runs), runs[x].policy # "none", root = runs[x].root
                     PROVE  Series(root) /\ \A s \in Runs : FollowUp(s, root)' <=> s = runs'[root].child
          OBVIOUS
        <5>1. root # r /\ root \in Runs /\ Series(root) /\ runs'[root].child = runs[root].child
          BY <1>2, <2>1, <3>1
        <5>2. \A s \in Runs : FollowUp(s, root) <=> s = runs[root].child
          BY <1>3
        <5>3. \A s \in Runs : FollowUp(s, root)' <=> FollowUp(s, root) /\ s # r
          BY <3>3, <5>1
        <5> QED
          BY <3>4, <5>1, <5>2, <5>3
      <4> QED
        BY <1>1, <1>2, <2>1, <3>5, <4>1, SeriesFitKept DEF Untouched
    <3>6. SeriesFit(r)'
      <4>1. runs'[r].child = NoRun
        BY <1>2, <2>1, <2>3 DEF Attaches, SeriesFit
      <4>2. \A s \in Runs : FollowUp(s, r)' <=> s = runs'[r].child
        BY <1>2, <3>2, <4>1
      <4> QED
        BY <2>1, <2>3, <4>2 DEF SeriesFit, Attaches, FollowUp
    <3> QED
      BY <2>1, <3>5, <3>6 DEF SeriesFits
  <2> QED
    BY <1>5, <2>2, <2>3 DEF Touches
<1>6. CASE Begins(r) /\ Created(runs)' = Created(runs) \cup {r}
  <2>1. /\ r \notin Created(runs)
        /\ \A x \in Created(runs) : Untouched(x) /\ Series(x) /\ runs'[x].child = runs[x].child
    BY <1>2, <1>6, AbsentRow, LineageConstants DEF Begins, Created, Untouched, Series
  <2>2. \A s \in Runs, root \in Created(runs) : FollowUp(s, root)' <=> FollowUp(s, root)
    BY <1>2, <1>6, <2>1 DEF FollowUp, Series, Begins
  <2>3. ASSUME NEW x \in Created(runs)  PROVE SeriesFit(x)'
    <3>1. \A root \in Created(runs) : runs[x].policy # "none" /\ root = runs[x].root =>
            Series(root) /\ \A s \in Runs : FollowUp(s, root)' <=> s = runs'[root].child
      BY <1>3, <2>1, <2>2
    <3> QED
      BY <1>1, <1>2, <2>1, <3>1, SeriesFitKept DEF Untouched
  <2>4. SeriesFit(r)'
    <3>1. \A s \in Runs : ~FollowUp(s, r)'
      BY <1>2, <1>6, <2>1 DEF FollowUp, Series, Begins
    <3> QED
      BY <1>2, <1>6, <3>1 DEF SeriesFit, Begins
  <2> QED
    BY <1>6, <2>3, <2>4 DEF SeriesFits
<1>7. ASSUME NEW c \in Runs, FinishesWith(r, c), Created(runs)' = Created(runs) \cup {c}
      PROVE  SeriesFits'
  <2>1. /\ c \notin Created(runs) /\ c # r /\ r \in Created(runs)
        /\ \A x \in Created(runs) : Series(x) /\ (x # r => Untouched(x))
    <3>1. runs[c].state = "absent" /\ c # r /\ runs[r].state = "running" /\ Series(r)
          /\ \A x \in Runs \ {r, c} : Untouched(x)
      BY <1>7, AbsentRow, LineageConstants DEF FinishesWith
    <3>2. c \notin Created(runs) /\ r \in Created(runs)
      BY <3>1 DEF Created
    <3>3. \A x \in Created(runs) \ {r} : Untouched(x)
      BY <1>2, <3>1, <3>2
    <3>4. \A x \in Created(runs) \ {r} : Series(x)
      BY <3>3 DEF Untouched, Series
    <3> QED
      BY <3>1, <3>2, <3>3, <3>4
  <2>2. \A s \in Runs, root \in Created(runs) : root # r => (FollowUp(s, root)' <=> FollowUp(s, root))
    BY <1>2, <1>7, <2>1 DEF FollowUp, Series, FinishesWith
  <2>3. \A s \in Runs : FollowUp(s, r)' <=> s = c
    BY <1>2, <1>3, <1>7, <2>1 DEF FollowUp, Series, FinishesWith
  <2>4. runs'[r].child = c /\ runs[r].policy # "none" /\ runs[r].version = 1 /\ runs[r].root = r
    BY <1>7 DEF FinishesWith
  <2>5. ASSUME NEW x \in Created(runs)  PROVE SeriesFit(x)'
    <3>1. \A root \in Created(runs) : runs[x].policy # "none" /\ root = runs[x].root =>
            Series(root) /\ \A s \in Runs : FollowUp(s, root)' <=> s = runs'[root].child
      <4> SUFFICES ASSUME NEW root \in Created(runs), runs[x].policy # "none", root = runs[x].root
                   PROVE  \A s \in Runs : FollowUp(s, root)' <=> s = runs'[root].child
        BY <2>1
      <4>1. CASE root = r
        BY <2>3, <2>4, <4>1
      <4>2. CASE root # r
        BY <1>3, <2>1, <2>2, <4>2 DEF Untouched
      <4> QED
        BY <4>1, <4>2
    <3>2. runs[x].policy = "none" => runs'[x].child = runs[x].child
      BY <2>1, <2>4 DEF Untouched
    <3>3. runs[x].version = 2 => reports'[x].holdout = reports[x].holdout
      BY <2>1, <2>4 DEF Untouched
    <3> QED
      BY <1>1, <1>2, <2>1, <3>1, <3>2, <3>3, SeriesFitKept
  <2>6. SeriesFit(c)'
    <3>1. FollowsUp(c, r)'
      <4>1. Completed(r)' = Completed(r) /\ LatestComparisons(r)' = LatestComparisons(r)
        BY <1>7, CompletedKept, LatestKept DEF FinishesWith
      <4>2. \A d \in LatestComparisons(r) : d.of = Completed(r) /\ d.ordinal > work[r].changed
        BY <1>7 DEF FinishesWith, ReportFits
      <4> QED
        BY <1>7, <2>1, <4>1, <4>2 DEF FollowsUp, FinishesWith, Pins, Series, Ended, Terminal
    <3>2. reports'[c].holdout = "none"
      <4>1. ~Ended(c)
        BY <1>7, AbsentRow, LineageConstants DEF FinishesWith, Ended, Terminal
      <4> QED
        BY <1>7, <4>1 DEF Fits, FinishesWith, NoReport
    <3>3. /\ runs'[c].root = r /\ runs'[c].parent = r /\ runs'[c].mode = "auto"
          /\ runs'[c].version = 2 /\ runs'[c].policy = runs[r].policy
      BY <1>7 DEF FinishesWith
    <3>4. /\ r \in Created(runs)' /\ runs'[r].root = r /\ runs'[r].policy = runs[r].policy
      BY <1>7, <2>1, <2>4 DEF Series
    <3> QED
      BY <2>3, <2>4, <3>1, <3>2, <3>3, <3>4 DEF SeriesFit
  <2> QED
    BY <1>7, <2>5, <2>6 DEF SeriesFits
<1>8. ASSUME NEW s \in Runs, Retries(r, s), Created(runs)' = Created(runs) \cup {r}
      PROVE  SeriesFits'
  <2>1. /\ r \notin Created(runs)
        /\ \A x \in Created(runs) : Series(x) /\ runs'[x].child = runs[x].child
    <3>1. r \notin Created(runs)
      BY <1>8, AbsentRow, LineageConstants DEF Retries, Created
    <3>2. Series(s) /\ runs'[s].child = runs[s].child
      BY <1>8 DEF Retries
    <3>3. \A x \in Runs \ {r, s} : Series(x) /\ runs'[x].child = runs[x].child
      BY <1>8 DEF Retries, Untouched, Series
    <3> QED
      BY <3>1, <3>2, <3>3 DEF Created
  <2>2. \A x \in Runs, root \in Created(runs) : FollowUp(x, root)' <=> FollowUp(x, root)
    BY <1>2, <1>8, <2>1 DEF FollowUp, Series, Retries
  <2>3. ASSUME NEW x \in Created(runs)  PROVE SeriesFit(x)'
    <3>1. \A root \in Created(runs) : runs[x].policy # "none" /\ root = runs[x].root =>
            Series(root) /\ \A y \in Runs : FollowUp(y, root)' <=> y = runs'[root].child
      BY <1>3, <2>1, <2>2
    <3>2. reports' = reports
      BY <1>8 DEF Retries
    <3> QED
      BY <1>1, <1>2, <2>1, <3>1, <3>2, SeriesFitKept
  <2>4. SeriesFit(r)'
    BY <1>8 DEF SeriesFit, Retries
  <2> QED
    BY <1>8, <2>3, <2>4 DEF SeriesFits
<1> QED
  BY <1>4, <1>5, <1>6, <1>7, <1>8

LEMMA SeriesAreLinked ==
  ASSUME Fits, SourcesEnd, SeriesFits
  PROVE  SeriesLinks
<1>1. /\ NoRun \notin Runs /\ Created(runs) \subseteq Runs
      /\ \A x \in Created(runs) : runs[x].child \in Created(runs) \cup {NoRun} /\ SeriesFit(x)
  BY LineageConstants DEF SourcesEnd, SeriesFits, Linked, Created
<1> SUFFICES ASSUME NEW r \in Created(runs)
    PROVE  /\ runs[r].policy = "none" <=> runs[r].root = NoRun
           /\ runs[r].policy # "none" =>
                LET root == runs[r].root
                    follow_ups == {s \in Created(runs) : runs[s].root = root /\ runs[s].version = 2}
                IN  /\ runs[root].root = root /\ runs[root].policy = runs[r].policy
                    /\ runs[r].mode = "auto"
                    /\ follow_ups = {runs[root].child} \ {NoRun}
                    /\ runs[r].version = 1 => r = root
                    /\ runs[r].version = 2 => reports[r].holdout \in {"none", "not_evaluated"}
                    /\ runs[r].version = 2 =>
                         LET source == runs[r].parent
                         IN  /\ runs[source].root = root /\ runs[source].version = 1
                             /\ runs[source].window = runs[r].window
                             /\ reports[source].series = "refine_selected"
                             /\ reports[source].selected = runs[r].seed
                             /\ \A c \in LatestComparisons(source) :
                                  c.of = Completed(source) /\ c.ordinal > work[source].changed
  BY DEF SeriesLinks
<1>2. CASE runs[r].policy = "none"
  BY <1>1, <1>2 DEF SeriesFit
<1>3. CASE runs[r].policy # "none"
  <2> DEFINE root == runs[r].root
             follow_ups == {s \in Created(runs) : runs[s].root = root /\ runs[s].version = 2}
  <2>1. root \in Created(runs) /\ root # NoRun
    BY <1>1, <1>3 DEF SeriesFit
  <2>2. follow_ups = {runs[root].child} \ {NoRun}
    <3>1. \A s \in Runs : FollowUp(s, root) <=> s = runs[root].child
      BY <1>1, <1>3 DEF SeriesFit
    <3>2. runs[root].child \in Runs \cup {NoRun}
      BY <1>1, <2>1
    <3>3. \A s : s \in follow_ups <=> FollowUp(s, root)
      BY DEF FollowUp
    <3>4. \A s : FollowUp(s, root) => s \in Runs
      BY <1>1 DEF FollowUp
    <3> HIDE DEF follow_ups, root
    <3> QED
      BY <1>1, <3>1, <3>2, <3>3, <3>4
  <2>3. runs[r].version = 2 => FollowsUp(r, runs[r].parent)
    BY <1>1, <1>3 DEF SeriesFit
  <2>4. /\ runs[root].root = root /\ runs[root].policy = runs[r].policy /\ runs[r].mode = "auto"
        /\ runs[r].version = 1 => r = root
        /\ runs[r].version = 2 => reports[r].holdout \in {"none", "not_evaluated"}
    BY <1>1, <1>3 DEF SeriesFit
  <2> QED
    BY <1>3, <2>1, <2>2, <2>3, <2>4 DEF FollowsUp
<1> QED
  BY <1>2, <1>3

-----------------------------------------------------------------------------
(* Reports and holdouts.                                                   *)

\* What a report that selects a strategy says of its run, for good.
Reported(r) ==
  reports[r].selected # NoKey =>
    /\ reports[r].compared = Completed(r)
    /\ DecisionValid(Completed(r), reports[r].selected)
    /\ \A c \in LatestComparisons(r) : c.of = Completed(r)
    /\ \/ reports[r].stop # "none" /\ Cardinality(Completed(r)) = 2
       \/ MaxExperiments = 3 => Cardinality(Completed(r)) = 3 /\ Cardinality(LinkedOf(r)) = 1

\* A report is written once, as its run ends.
LEMMA ReportsChange ==
  ASSUME Fits, Step, NEW x \in Runs
  PROVE  \/ reports'[x] = reports[x]
         \/ Live(x) /\ Ended(x)' /\ work'[x] = work[x] /\ ReportFits(x, reports'[x])
<1>1. PICK r \in Runs :
        \/ Works(r) \/ Stops(r) \/ Approves(r) \/ Begins(r) \/ Finishes(r)
        \/ \E s \in Runs : FinishesWith(r, s) \/ Retries(r, s)
  BY DEF Step
<1>2. CASE Works(r) \/ Stops(r) \/ Approves(r) \/ Begins(r)
  BY <1>2 DEF Works, Stops, Approves, Begins, Alone, Untouched
<1>3. CASE Finishes(r)
  BY <1>3 DEF Finishes, Alone, Untouched, Live, Ended, Terminal
<1>4. ASSUME NEW s \in Runs, FinishesWith(r, s)
      PROVE  \/ reports'[x] = reports[x]
             \/ Live(x) /\ Ended(x)' /\ work'[x] = work[x] /\ ReportFits(x, reports'[x])
  <2>1. x # r => reports'[x] = reports[x]
    BY <1>4 DEF FinishesWith, Untouched
  <2>2. Live(r) /\ Ended(r)' /\ work'[r] = work[r] /\ ReportFits(r, reports'[r])
    BY <1>4 DEF FinishesWith, Live, Ended, Terminal
  <2> QED
    BY <2>1, <2>2
<1>5. ASSUME NEW s \in Runs, Retries(r, s)
      PROVE  reports'[x] = reports[x]
  BY <1>5 DEF Retries
<1> QED
  BY <1>1, <1>2, <1>3, <1>4, <1>5

LEMMA ReportedKept ==
  ASSUME Fits, Step, NEW x \in Runs, Reported(x)
  PROVE  Reported(x)'
<1>1. CASE reports'[x] = reports[x] /\ Ended(x)
  <2>1. work'[x] = work[x]
    BY <1>1, StepIsSealed, AbsentIsFree DEF Sealed
  <2>2. Completed(x)' = Completed(x) /\ LatestComparisons(x)' = LatestComparisons(x)
    BY <2>1, CompletedKept, LatestKept
  <2>3. LinkedOf(x)' = LinkedOf(x)
    BY <2>1 DEF LinkedOf
  <2> QED
    BY <1>1, <2>2, <2>3 DEF Reported, DecisionValid
<1>2. CASE reports'[x] = reports[x] /\ ~Ended(x)
  BY <1>2 DEF Fits, NoReport, Reported
<1>3. CASE work'[x] = work[x] /\ ReportFits(x, reports'[x])
  <2>1. Completed(x)' = Completed(x) /\ LatestComparisons(x)' = LatestComparisons(x)
    BY <1>3, CompletedKept, LatestKept
  <2>2. LinkedOf(x)' = LinkedOf(x)
    BY <1>3 DEF LinkedOf
  <2> QED
    BY <1>3, <2>1, <2>2 DEF Reported, ReportFits, StrictSequence, DecisionValid
<1> QED
  BY <1>1, <1>2, <1>3, ReportsChange

LEMMA ReportsAreBound ==
  ASSUME MaxExperiments = 3, \A r \in Runs : Reported(r)
  PROVE  ReportsBound /\ ReportsAreComplete
  BY DEF Reported, ReportsBound, ReportsAreComplete, Created

\* A run descends from ended runs only, which the code's closure finds all.
LEMMA DescentHasEnded ==
  ASSUME SourcesEnd, NEW r \in Runs
  PROVE  \A s \in Descent(r) : Ended(s) /\ s \in Closure(runs, r)
<1> DEFINE closed(S) == \A s \in S \cup {r} : /\ runs[s].parent \in S \cup {NoRun}
                                              /\ runs[s].retry_of \in S \cup {NoRun}
           ended == {s \in Runs : Ended(s)}
<1>1. \A s \in Runs : /\ runs[s].parent \in Runs \cup {NoRun} /\ runs[s].retry_of \in Runs \cup {NoRun}
                      /\ runs[s].parent # NoRun => Ended(runs[s].parent)
                      /\ runs[s].retry_of # NoRun => Ended(runs[s].retry_of)
  BY DEF SourcesEnd, Linked, Created
<1>2. ended \in SUBSET Runs /\ closed(ended)
  BY <1>1
<1>3. \A S \in SUBSET Runs : (\A s \in S \cup {r} : Sources(runs, s) \subseteq S) => closed(S)
  BY DEF Sources
<1>4. ASSUME NEW s \in Descent(r)
      PROVE  s \in Runs \ {r} /\ \A S \in SUBSET Runs : closed(S) => s \in S
  BY <1>4 DEF Descent
<1>5. ASSUME NEW s \in Descent(r)
      PROVE  s \in Closure(runs, r)
  BY <1>3, <1>4 DEF Closure
<1> QED
  BY <1>2, <1>4, <1>5

\* A step gives a run that was created no new ancestor.
LEMMA DescentKept ==
  ASSUME Fits, Step, SourcesEnd, NEW r \in Created(runs)
  PROVE  Descent(r)' \subseteq Descent(r)
<1>1. \A s \in Created(runs) : /\ s \in Runs /\ runs'[s].parent = runs[s].parent
                               /\ runs'[s].retry_of = runs[s].retry_of
                               /\ runs[s].parent \in Created(runs) \cup {NoRun}
                               /\ runs[s].retry_of \in Created(runs) \cup {NoRun}
  BY StepIsSealed DEF Sealed, Pins, SourcesEnd, Linked, Created
<1> SUFFICES ASSUME NEW x \in Descent(r)', NEW S \in SUBSET Runs,
                    \A s \in S \cup {r} : /\ runs[s].parent \in S \cup {NoRun}
                                          /\ runs[s].retry_of \in S \cup {NoRun}
             PROVE  x \in S /\ x \in Runs \ {r}
  BY DEF Descent
<1> DEFINE T == S \cap Created(runs)
<1>2. T \in SUBSET Runs
  OBVIOUS
<1>3. \A s \in T \cup {r} : runs'[s].parent \in T \cup {NoRun} /\ runs'[s].retry_of \in T \cup {NoRun}
  BY <1>1
<1>4. x \in Runs \ {r} /\ x \in T
  <2> HIDE DEF T
  <2> QED
    BY <1>2, <1>3 DEF Descent
<1> QED
  BY <1>4

LEMMA HoldoutOpenedOnceKept ==
  ASSUME Fits, Step, SourcesEnd, HoldoutOpenedOnce, Fits'
  PROVE  HoldoutOpenedOnce'
<1> SUFFICES ASSUME NEW r \in Runs, NEW s \in Descent(r)',
                    reports'[r].holdout = "fresh_sealed", reports'[s].holdout = "fresh_sealed"
             PROVE  \/ Dataset[runs'[r].window] # Dataset[runs'[s].window]
                    \/ Holdout[runs'[r].window] \cap Holdout[runs'[s].window] = {}
  BY DEF HoldoutOpenedOnce
<1>1. r \in Created(runs)
  <2>1. CASE reports'[r] = reports[r]
    <3>1. Ended(r)
      BY <2>1 DEF Fits, NoReport
    <3> QED
      BY <3>1, AbsentIsFree
  <2>2. CASE Live(r)
    BY <2>2, AbsentIsFree
  <2> QED
    BY <2>1, <2>2, ReportsChange
<1>2. s \in Descent(r) /\ s \in Runs \ {r} /\ Ended(s) /\ s \in Closure(runs, r)
  <2>1. s \in Descent(r)
    BY <1>1, DescentKept
  <2>2. s \in Runs \ {r}
    BY <2>1 DEF Descent
  <2> QED
    BY <2>1, <2>2, DescentHasEnded
<1>3. /\ s \in Created(runs) /\ reports'[s] = reports[s]
      /\ runs'[s].window = runs[s].window /\ runs'[r].window = runs[r].window
  BY <1>1, <1>2, StepIsSealed, AbsentIsFree DEF Sealed, Pins
<1>4. CASE reports'[r] = reports[r]
  BY <1>2, <1>3, <1>4 DEF HoldoutOpenedOnce
<1>5. CASE ReportFits(r, reports'[r])
  <2>1. HoldoutState(r, reports'[r].selected) = "fresh_sealed"
    BY <1>5 DEF ReportFits
  <2> QED
    BY <1>2, <1>3, <2>1 DEF HoldoutState
<1> QED
  BY <1>4, <1>5, ReportsChange

-----------------------------------------------------------------------------
(* The pinned memory.                                                      *)

\* Whatever was created or has ended is no younger than the clock.
Timed ==
  /\ clock \in Nat
  /\ \A s \in Created(runs) : runs[s].created \in Nat /\ runs[s].created <= clock
  /\ \A s \in Runs : Ended(s) => runs[s].ended \in Nat /\ runs[s].ended <= clock

\* What is created or ends in a step is younger than everything before.
Dated(s) ==
  /\ s \in Created(runs)' /\ s \notin Created(runs) =>
       runs'[s].created = clock + 1 /\ clock' \in {clock + 1, clock + 2}
  /\ Ended(s)' /\ ~Ended(s) => runs'[s].ended = clock' /\ clock' \in {clock + 1, clock + 2}

\* A run keeps its series, unless an approval attaches one.
LEMMA StepIsDated ==
  ASSUME Fits, Step
  PROVE  /\ clock' \in {clock, clock + 1, clock + 2}
         /\ \A s \in Runs : Dated(s) /\ (s \in Created(runs) => Series(s) \/ Attaches(s))
<1>1. PICK r \in Runs :
        \/ Works(r) \/ Stops(r) \/ Approves(r) \/ Begins(r) \/ Finishes(r)
        \/ \E s \in Runs : FinishesWith(r, s) \/ Retries(r, s)
  BY DEF Step
<1> DEFINE Kept(s) == Dated(s) /\ (s \in Created(runs) => Series(s) \/ Attaches(s))
<1>2. \A s \in Runs : Untouched(s) => Kept(s)
  BY DEF Untouched, Dated, Created, Ended, Series
<1>3. CASE Works(r) \/ Stops(r) \/ Approves(r) \/ Finishes(r)
  <2>1. /\ \A s \in Runs \ {r} : Untouched(s)
        /\ Series(r) \/ Attaches(r)
        /\ r \in Created(runs)
        /\ clock' \in {clock, clock + 1}
        /\ Ended(r)' /\ ~Ended(r) => runs'[r].ended = clock' /\ clock' = clock + 1
    BY <1>3 DEF Works, Stops, Approves, Finishes, Alone, Attaches, EndsAt, Created, Live, Ended, Terminal
  <2> QED
    BY <1>2, <2>1 DEF Dated
<1>4. CASE Begins(r)
  <2>1. /\ \A s \in Runs \ {r} : Untouched(s)
        /\ r \notin Created(runs) /\ ~Ended(r)' /\ runs'[r].created = clock + 1 /\ clock' = clock + 1
    BY <1>4, AbsentRow, LineageConstants DEF Begins, Created, Ended, Terminal
  <2> QED
    BY <1>2, <2>1 DEF Dated
<1>5. ASSUME NEW c \in Runs, FinishesWith(r, c)
      PROVE  clock' \in {clock, clock + 1, clock + 2} /\ \A s \in Runs : Kept(s)
  <2>1. /\ \A s \in Runs \ {r, c} : Untouched(s)
        /\ r \in Created(runs) /\ Series(r) /\ clock' = clock + 2
        /\ runs'[r].ended = clock' /\ c \notin Created(runs) /\ ~Ended(c)'
        /\ runs'[c].created = clock + 1
    BY <1>5, AbsentRow, LineageConstants DEF FinishesWith, EndsAt, Created, Ended, Terminal
  <2> QED
    BY <1>2, <2>1 DEF Dated
<1>6. ASSUME NEW source \in Runs, Retries(r, source)
      PROVE  clock' \in {clock, clock + 1, clock + 2} /\ \A s \in Runs : Kept(s)
  <2>1. /\ \A s \in Runs \ {r, source} : Untouched(s)
        /\ source \in Created(runs) /\ Series(source) /\ Ended(source) /\ clock' = clock + 1
        /\ r \notin Created(runs) /\ ~Ended(r)' /\ runs'[r].created = clock + 1
    BY <1>6, AbsentRow, LineageConstants DEF Retries, Created, Ended, Terminal
  <2> QED
    BY <1>2, <2>1 DEF Dated
<1> QED
  BY <1>1, <1>3, <1>4, <1>5, <1>6, <1>2

LEMMA TimedKept ==
  ASSUME Fits, Step, Timed
  PROVE  Timed'
<1>1. /\ clock' \in Nat /\ clock <= clock'
      /\ \A s \in Runs : Dated(s)
  BY StepIsDated DEF Timed
<1>2. ASSUME NEW s \in Runs, s \in Created(runs)'
      PROVE  runs'[s].created \in Nat /\ runs'[s].created <= clock'
  BY <1>1, <1>2, StepIsSealed DEF Timed, Dated, Sealed, Pins
<1>3. ASSUME NEW s \in Runs, Ended(s)'
      PROVE  runs'[s].ended \in Nat /\ runs'[s].ended <= clock'
  <2>1. CASE Ended(s)
    BY <1>1, <2>1, StepIsSealed, AbsentIsFree DEF Timed, Sealed
  <2>2. CASE ~Ended(s)
    BY <1>1, <1>3, <2>2 DEF Dated
  <2> QED
    BY <2>1, <2>2
<1> QED
  BY <1>1, <1>2, <1>3 DEF Timed, Created

\* The memory of a run that is no retry is what composing it again gives.
Canonical ==
  \A rs, w : rs = runs /\ w = work =>
    \A r \in Runs : rs[r].state # "absent" /\ rs[r].retry_of = NoRun => PinnedIn(rs, w, r)

\* What counted for a run as it was created still counts, and nothing else does.
LEMMA StillAvailable ==
  ASSUME Fits, Step, SourcesEnd, Timed, NEW x \in Created(runs), NEW s \in Runs,
         NEW rs1, rs1 = runs, NEW rs2, rs2 = runs'
  PROVE  LET o1 == OverrideOf(rs1, x)
             o2 == OverrideOf(rs2, x)
         IN  /\ Available(rs1, x, s, o1) <=> Available(rs2, x, s, o2)
             /\ Available(rs1, x, s, o1) => Ended(s)
<1> DEFINE o1 == OverrideOf(rs1, x)
           o2 == OverrideOf(rs2, x)
<1>1. /\ x \in Runs /\ Pins(x) /\ Dated(s) /\ (Series(x) \/ Attaches(x))
      /\ runs[x].created \in Nat /\ runs[x].created <= clock
      /\ clock \in Nat
  BY StepIsSealed, StepIsDated DEF Sealed, Timed, Created
<1>2. s = runs[x].parent => Ended(s)
  BY LineageConstants, <1>1 DEF SourcesEnd
<1>3. Ended(s) => /\ Series(s) /\ rs2[s].state \in Terminal /\ rs2[s].ended = rs1[s].ended
  BY StepIsSealed, AbsentIsFree DEF Sealed, Ended
<1>4. rs1[s].state \in Terminal <=> Ended(s)
  BY DEF Ended
<1>5. rs1[s].state \in Terminal /\ rs1[s].ended <= rs1[x].created
        <=> rs2[s].state \in Terminal /\ rs2[s].ended <= rs2[x].created
  <2>1. rs2[x].created = rs1[x].created
    BY <1>1 DEF Pins
  <2>2. CASE Ended(s)
    BY <1>3, <1>4, <2>1, <2>2
  <2>3. CASE ~Ended(s)
    <3>1. rs2[s].state \in Terminal => rs2[s].ended = clock' /\ clock' \in {clock + 1, clock + 2}
      BY <1>1, <2>3 DEF Dated, Ended
    <3> QED
      BY <1>1, <1>4, <2>1, <2>3, <3>1
  <2> QED
    BY <2>2, <2>3
<1>6. CASE Series(x)
  <2>1. /\ rs2[x].parent = rs1[x].parent /\ rs2[x].policy = rs1[x].policy
        /\ rs2[x].version = rs1[x].version /\ rs2[x].root = rs1[x].root
    BY <1>1, <1>6 DEF Pins, Series
  <2>2. o1 = o2
    BY <2>1 DEF OverrideOf
  <2>3. s = rs1[x].parent => rs2[s].version = rs1[s].version /\ rs2[s].root = rs1[s].root
    BY <1>2, <1>3 DEF Series
  <2> HIDE DEF o1, o2
  <2>4. Available(rs1, x, s, o1) <=>
          \/ /\ s = o1 /\ rs1[x].parent = s /\ rs1[x].policy # "none" /\ rs1[x].version = 2
             /\ rs1[s].version = 1 /\ rs1[x].root = rs1[s].root
          \/ rs1[s].state \in Terminal /\ rs1[s].ended <= rs1[x].created
    BY DEF Available
  <2>5. Available(rs2, x, s, o2) <=>
          \/ /\ s = o2 /\ rs2[x].parent = s /\ rs2[x].policy # "none" /\ rs2[x].version = 2
             /\ rs2[s].version = 1 /\ rs2[x].root = rs2[s].root
          \/ rs2[s].state \in Terminal /\ rs2[s].ended <= rs2[x].created
    BY DEF Available
  <2>6. Available(rs1, x, s, o1) <=> Available(rs2, x, s, o2)
    BY <1>5, <2>1, <2>2, <2>3, <2>4, <2>5
  <2>7. Available(rs1, x, s, o1) => Ended(s)
    BY <1>2, <1>4, <2>4
  <2> QED
    BY <2>6, <2>7 DEF o1, o2
<1>7. CASE Attaches(x)
  <2>1. rs1[x].parent # s /\ rs2[x].parent # s
    BY <1>1, <1>7, LineageConstants DEF Attaches, Pins
  <2> HIDE DEF o1, o2
  <2>2. /\ Available(rs1, x, s, o1) <=> Available(rs2, x, s, o2)
        /\ Available(rs1, x, s, o1) => Ended(s)
    BY <1>4, <1>5, <2>1 DEF Available
  <2> QED
    BY <2>2 DEF o1, o2
<1> QED
  BY <1>1, <1>6, <1>7

LEMMA CanonicalKept ==
  ASSUME Fits, Step, SourcesEnd, Timed, Canonical
  PROVE  Canonical'
<1> SUFFICES ASSUME NEW rs2, NEW w2, rs2 = runs', w2 = work', NEW x \in Runs,
                    rs2[x].state # "absent", rs2[x].retry_of = NoRun
             PROVE  PinnedIn(rs2, w2, x)
  BY DEF Canonical
<1>1. PICK rs1, w1 : rs1 = runs /\ w1 = work
  OBVIOUS
<1>2. CASE x \in Created(runs)
  <2> DEFINE o1 == OverrideOf(rs1, x)
             o2 == OverrideOf(rs2, x)
  <2>1. /\ \A s \in Created(runs) : /\ rs2[s].parent = rs1[s].parent /\ rs2[s].window = rs1[s].window
                                    /\ rs2[s].created = rs1[s].created /\ rs2[s].state # "absent"
                                    /\ rs1[s].parent \in Created(runs) \cup {NoRun}
        /\ rs2[x].memory = rs1[x].memory /\ rs1[x].retry_of = NoRun
        /\ rs1[x].state # "absent"
    BY <1>1, <1>2, StepIsSealed DEF Sealed, Pins, SourcesEnd, Linked, Created
  <2>2. /\ \A s \in Runs : Available(rs1, x, s, o1) <=> Available(rs2, x, s, o2)
        /\ \A s \in Runs : Available(rs1, x, s, o1) => Ended(s)
    BY <1>1, <1>2, StillAvailable
  <2> HIDE DEF o1, o2
  <2>3. Usable(rs1, x, o1) = Usable(rs2, x, o2)
    <3>1. \A s \in Runs : Available(rs1, x, s, o1) => s \in Created(runs)
      BY <2>2, AbsentIsFree
    <3> QED
      BY <1>2, <2>1, <2>2, <3>1 DEF Usable
  <2>4. Ancestors(rs1, x) = Ancestors(rs2, x)
    <3>1. Created(runs) \in SUBSET Runs
      BY DEF Created
    <3> QED
      BY <1>2, <2>1, <3>1, SameAncestors
  <2>5. History(rs1, x) = History(rs2, x)
    <3>1. /\ \A s \in Runs : Dated(s)
          /\ clock \in Nat /\ rs1[x].created \in Nat /\ rs1[x].created <= clock
          /\ Created(rs1) = Created(runs) /\ Created(rs2) = Created(runs)'
      BY <1>1, <1>2, StepIsDated DEF Timed, Created
    <3>2. \A s \in Created(rs2) \ Created(rs1) : ~(rs2[s].created <= rs2[x].created)
      BY <1>2, <2>1, <3>1 DEF Dated, Created
    <3>3. Created(rs1) \subseteq Created(rs2)
      BY <2>1, <3>1 DEF Created
    <3> QED
      BY <1>2, <2>1, <2>4, <3>1, <3>2, <3>3 DEF History
  <2>6. \A s \in Usable(rs1, x, o1) : rs1[s].created = rs2[s].created /\ w1[s].candidates = w2[s].candidates
    <3>1. \A s \in Usable(rs1, x, o1) : s \in Created(runs) /\ Ended(s)
      BY <2>2, AbsentIsFree DEF Usable
    <3> QED
      BY <1>1, <2>1, <3>1, StepIsSealed DEF Sealed
  <2>7. SameEvidence(rs1, w1, o1, rs2, w2, o2, x)
    BY <2>3, <2>4, <2>5, <2>6 DEF SameEvidence
  <2>8. ComposePin(rs1, w1, x, o1) = ComposePin(rs2, w2, x, o2)
    BY <2>7, SamePin
  <2>9. PinnedIn(rs1, w1, x)
    BY <1>1, <2>1 DEF Canonical
  <2> QED
    BY <2>1, <2>8, <2>9 DEF PinnedIn, o1, o2
<1>3. CASE x \notin Created(runs)
  <2>1. x \in Created(runs)'
    BY DEF Created
  <2>2. Pinned(x)
    <3>1. PICK r \in Runs : \/ Touches(r)
                            \/ Begins(r) /\ Created(runs)' = Created(runs) \cup {r}
                            \/ \E s \in Runs : \/ FinishesWith(r, s) /\ Created(runs)' = Created(runs) \cup {s}
                                               \/ Retries(r, s) /\ Created(runs)' = Created(runs) \cup {r}
      BY StepCases
    <3>2. ~Touches(r)
      BY <1>3, <2>1 DEF Touches
    <3>3. ASSUME NEW s \in Runs, Retries(r, s), Created(runs)' = Created(runs) \cup {r}
          PROVE  FALSE
      BY <1>3, <2>1, <3>3, LineageConstants DEF Retries
    <3> QED
      BY <1>3, <2>1, <3>1, <3>2, <3>3 DEF Begins, FinishesWith
  <2> QED
    BY <2>2 DEF Pinned
<1> QED
  BY <1>2, <1>3

LEMMA MemoriesAreCanonical == Canonical => MemoryCanonical
  BY DEF Canonical, MemoryCanonical, PinnedIn, Created

-----------------------------------------------------------------------------
(* The invariant.                                                          *)

IInv ==
  /\ Fits
  /\ SourcesEnd
  /\ RetryLinks
  /\ RefinementLinks
  /\ SeriesFits
  /\ HoldoutOpenedOnce
  /\ Timed /\ Canonical
  /\ \A r \in Runs : Compared(r) /\ Reported(r)

LEMMA ComparedKept == \A x : Compared(x) /\ work'[x] = work[x] => Compared(x)'
  BY CompletedKept DEF Compared

\* Every operation is one of the steps above.
LEMMA NextIsStep ==
  ASSUME IInv, Next
  PROVE  Step /\ Fits' /\ \A r \in Runs : Compared(r)'
<1>1. PICK r \in Runs : User(r) \/ Agent(r)
  BY DEF Next
<1>2. Fits /\ Compared(r) /\ \A x \in Runs : Compared(x)
  BY DEF IInv
<1>3. CASE CreateCandidate(r) \/ Backtest(r) \/ Revise(r) \/ Compare(r)
  <2>1. Works(r) /\ Tries(r) /\ Fits' /\ Compared(r)'
    BY <1>2, <1>3, CreateCandidateWorks, BacktestWorks, ReviseWorks, CompareWorks
  <2>2. \A x \in Runs \ {r} : Compared(x)'
    BY <1>2, <2>1, ComparedKept DEF Works, Alone, Untouched
  <2> QED
    BY <2>1, <2>2 DEF Step
<1>4. CASE Cancel(r) \/ RunOut(r) \/ FinishRefused(r)
  <2>1. Stops(r) /\ Fits' /\ UNCHANGED work
    BY <1>2, <1>4, StopsEarly DEF Cancel, RunOut, FinishRefused
  <2> QED
    BY <1>2, <2>1, ComparedKept DEF Step
<1>5. CASE Finish(r)
  <2>1. runs[r].policy # "none" /\ runs[r].version = 1 => runs[r].root = r
    BY <1>5, AbsentIsFree DEF IInv, SeriesFits, SeriesFit, Finish, Claimed, Live
  <2>2. (Finishes(r) \/ \E child \in Runs : FinishesWith(r, child)) /\ Fits' /\ UNCHANGED work
    BY <1>2, <1>5, <2>1, FinishDoes DEF Finish
  <2> QED
    BY <1>2, <2>2, ComparedKept DEF Step
<1>6. CASE CreateRun(r) \/ Refine(r)
  <2>1. Begins(r) /\ Fits' /\ UNCHANGED work
    BY <1>2, <1>6, CreateRunDoes, RefineDoes DEF CreateRun, Refine
  <2> QED
    BY <1>2, <2>1, ComparedKept DEF Step
<1>7. CASE Retry(r)
  <2>1. (\E source \in Runs : Retries(r, source)) /\ Fits' /\ UNCHANGED work
    BY <1>2, <1>7, RetryDoes DEF Retry
  <2> QED
    BY <1>2, <2>1, ComparedKept DEF Step
<1>8. CASE Approve(r)
  <2>1. Approves(r) /\ Fits' /\ UNCHANGED work
    BY <1>2, <1>8, ApproveDoes DEF Approve
  <2> QED
    BY <1>2, <2>1, ComparedKept DEF Step
<1> QED
  BY <1>1, <1>3, <1>4, <1>5, <1>6, <1>7, <1>8 DEF User, Agent

LEMMA InitHolds == Init => IInv
<1> SUFFICES ASSUME Init  PROVE IInv
  OBVIOUS
<1>1. \A r \in Runs : runs[r] = Absent /\ work[r] = EmptyWork /\ reports[r] = NoReport
  BY DEF Init
<1>2. WorkFits(EmptyWork) /\ EmptyWork.comparisons = {}
  BY DEF WorkFits, EmptyWork
<1>3. /\ NoReport.selected = NoKey /\ NoReport.holdout = "none"
      /\ \A r \in Runs : ~Ended(r) /\ r \notin Created(runs)
  BY <1>1, AbsentRow, LineageConstants DEF NoReport, Ended, Terminal, Created
<1>4. Fits
  BY <1>1, <1>2, AbsentRow, LineageConstants DEF Fits, Init
<1>5. SourcesEnd
  <2>1. \A r \in Runs : /\ runs[r].parent = NoRun /\ runs[r].retry_of = NoRun
                        /\ runs[r].retry_child = NoRun /\ runs[r].root = NoRun /\ runs[r].child = NoRun
    BY <1>1, AbsentRow, LineageConstants
  <2> QED
    BY <2>1 DEF SourcesEnd, Linked
<1>6. RetryLinks /\ RefinementLinks /\ SeriesFits
  BY <1>3 DEF RetryLinks, RefinementLinks, SeriesFits, Created
<1>7. HoldoutOpenedOnce
  BY <1>1, <1>3 DEF HoldoutOpenedOnce
<1>8. \A r \in Runs : Compared(r) /\ Reported(r)
  BY <1>1, <1>2, <1>3 DEF Compared, Reported
<1>9. Timed /\ Canonical
  BY <1>3 DEF Init, Timed, Canonical, Created
<1> QED
  BY <1>4, <1>5, <1>6, <1>7, <1>8, <1>9 DEF IInv

LEMMA NextKeeps ==
  ASSUME IInv, Next
  PROVE  IInv'
<1>1. Step /\ Fits' /\ \A r \in Runs : Compared(r)'
  BY NextIsStep
<1>2. SourcesEnd' /\ RetryLinks' /\ RefinementLinks' /\ SeriesFits' /\ HoldoutOpenedOnce'
  BY <1>1, SourcesEndKept, RetryLinksKept, RefinementLinksKept, SeriesFitsKept, HoldoutOpenedOnceKept
     DEF IInv
<1>3. \A r \in Runs : Reported(r)'
  BY <1>1, ReportedKept DEF IInv
<1>4. Timed' /\ Canonical'
  BY <1>1, TimedKept, CanonicalKept DEF IInv
<1> QED
  BY <1>1, <1>2, <1>3, <1>4 DEF IInv

LEMMA StutterKeeps ==
  ASSUME IInv, UNCHANGED vars
  PROVE  IInv'
<1> USE DEF vars, IInv, Created, Ended, Completed, InState, LatestComparisons
<1>1. Fits'
  BY DEF Fits
<1>2. SourcesEnd' /\ RetryLinks' /\ RefinementLinks'
  <2>1. SourcesEnd'
    BY DEF SourcesEnd, Linked
  <2>2. RetryLinks'
    BY DEF RetryLinks
  <2>3. RefinementLinks'
    BY DEF RefinementLinks
  <2> QED
    BY <2>1, <2>2, <2>3
<1>3. SeriesFits'
  BY DEF SeriesFits, SeriesFit, FollowsUp, FollowUp
<1>4. HoldoutOpenedOnce'
  BY DEF HoldoutOpenedOnce, Descent
<1>5. \A r \in Runs : Compared(r)' /\ Reported(r)'
  <2> TAKE r \in Runs
  <2>1. /\ Completed(r)' = Completed(r) /\ LatestComparisons(r)' = LatestComparisons(r)
        /\ LinkedOf(r)' = LinkedOf(r)
    BY CompletedKept, LatestKept DEF LinkedOf
  <2>2. Compared(r)'
    BY ComparedKept
  <2>3. Reported(r)'
    BY <2>1 DEF Reported, DecisionValid
  <2> QED
    BY <2>2, <2>3
<1>6. Timed' /\ Canonical'
  BY DEF Timed, Canonical
<1> QED
  BY <1>1, <1>2, <1>3, <1>4, <1>5, <1>6

\* The invariant that the theorems below rest on.
THEOREM Inductive == Spec => []IInv
<1>1. IInv /\ [Next]_vars => IInv'
  BY NextKeeps, StutterKeeps
<1> QED
  BY <1>1, InitHolds, PTL DEF Spec

-----------------------------------------------------------------------------
(* What it gives.                                                          *)

\* The links that _restore_workspace reads again agree at every commit: a retry
\* and its source name each other and share their pins, a refinement descends
\* from an ended run of its dataset through a strategy that is still completed
\* there, and a series is its root and the one follow-up its report committed to.
THEOREM LinksRestore == Spec => [](RetryLinks /\ RefinementLinks /\ SeriesLinks)
<1>1. IInv => RetryLinks /\ RefinementLinks /\ SeriesLinks
  BY SeriesAreLinked DEF IInv
<1> QED
  BY <1>1, Inductive, PTL

\* Along a line of descent, retries included, no sealed holdout is opened twice
\* as fresh evidence (_holdout_evidence_state over _run_lineage_closure).
THEOREM HoldoutsOpenOnce == Spec => []HoldoutOpenedOnce
<1>1. IInv => HoldoutOpenedOnce
  BY DEF IInv
<1> QED
  BY <1>1, Inductive, PTL

\* In the 2+1 sequence, the only one the contract admits, a report covers all
\* that its run completed, and its selection stays the one that the latest
\* comparison justifies: nothing finish_research tested can change afterwards.
THEOREM ReportsRest ==
  ASSUME MaxExperiments = 3
  PROVE  Spec => [](ReportsAreComplete /\ ReportsBound)
<1>1. IInv => ReportsAreComplete /\ ReportsBound
  BY ReportsAreBound DEF IInv
<1> QED
  BY <1>1, Inductive, PTL

\* In the 2+1 sequence, every lineage that can be committed is one that
\* _restore_workspace accepts: links, pinned memories and decisions agree.
THEOREM LineageAlwaysRestores ==
  ASSUME MaxExperiments = 3
  PROVE  Spec => []LineageRestores
<1>1. IInv => LineageRestores
  BY SeriesAreLinked, MemoriesAreCanonical, ReportsAreBound DEF IInv, LineageRestores
<1> QED
  BY <1>1, Inductive, PTL

-----------------------------------------------------------------------------
(* Types, budgets and novelty: a second invariant on top of the first.     *)

\* The columns of a run that Fits leaves open.
Typed(r) ==
  /\ runs[r].window \in Windows /\ runs[r].memory \in Pin
  /\ {runs[r].created, runs[r].ended, runs[r].used, runs[r].repairs} \subseteq Nat
  /\ work[r].feedback \in Feedbacks /\ reports[r] \in Report

\* A candidate was paid for, from one of the budgets of the run.
Booked(r) ==
  /\ Len(work[r].candidates) <= runs[r].used + runs[r].repairs
  /\ runs[r].used <= MaxExperiments /\ runs[r].repairs <= MaxRepairs[r]

\* A run tries nothing that its memory names.
TriesNew(r) == Names(work[r]) \cap Range(runs[r].memory.keys) = {}

\* Each creation has a time of its own.
Apart ==
  \A r, s \in Created(runs) : runs[r].created = runs[s].created => r = s

Older ==
  \A r \in Created(runs), p \in Runs : runs[r].parent = p => runs[p].created < runs[r].created

\* The memory names all that the parent completed on the same evidence.
Covered(r) ==
  \A p \in Runs : /\ r \in Created(runs) /\ runs[r].parent = p
                  /\ runs[p].window = runs[r].window
                  => Completed(p) \subseteq Range(runs[r].memory.keys)

\* The memory has room for one source and for all that one run can try: 15 keys
\* of 5 sources, three experiments and at most two repairs.
Roomy == MaxSources > 0 /\ \A r \in Runs : MaxExperiments + MaxRepairs[r] <= MaxMemoryKeys

\* The source p counts for the new run x.
Counts(x, p) == \A rs : rs = runs' => Available(rs, x, p, OverrideOf(rs, x))

\* A new run has spent nothing; its memory is composed, or that of its source.
Fresh(x) ==
  /\ runs[x] = Absent /\ runs'[x].state # "absent" /\ runs'[x].created = clock + 1
  /\ Blank(runs'[x]) /\ work'[x] = work[x] /\ reports'[x] = reports[x]
  /\ \/ \E s \in Created(runs) : /\ runs'[x].window = runs[s].window
                                 /\ runs'[x].memory = runs[s].memory
                                 /\ runs'[x].parent = runs[s].parent
     \/ /\ Pinned(x) /\ runs'[x].window \in Windows \cup {runs[s].window : s \in Runs}
        /\ \A p \in Runs : runs'[x].parent = p => p \in Created(runs) /\ Counts(x, p)

\* Any other run keeps its pins and pays for what it tries.
GoesOn(x) ==
  /\ (x \in Created(runs)' <=> x \in Created(runs))
  /\ Pins(x) /\ runs'[x].ended \in {runs[x].ended, clock'}
  /\ (Budget(x) /\ work'[x] = work[x]) \/ Tries(x)

LEMMA RunStep ==
  ASSUME Fits, Step, Timed, NEW x \in Runs
  PROVE  Fresh(x) \/ GoesOn(x)
<1>1. PICK r \in Runs :
        \/ Works(r) /\ Tries(r)
        \/ Stops(r) \/ Approves(r) \/ Begins(r) \/ Finishes(r)
        \/ \E s \in Runs : FinishesWith(r, s) \/ Retries(r, s)
  BY DEF Step
<1>2. Untouched(x) => GoesOn(x)
  BY DEF Untouched, GoesOn, Pins, Budget, Created
<1>3. CASE Works(r) /\ Tries(r)
  BY <1>2, <1>3 DEF Works, Alone, GoesOn, Created
<1>4. CASE Stops(r) \/ Approves(r) \/ Finishes(r)
  BY <1>2, <1>4 DEF Stops, Approves, Finishes, Alone, EndsAt, GoesOn,
     Created, Live, Ended, Terminal
<1>5. CASE Begins(r)
  <2>1. x # r => Untouched(x)
    BY <1>5 DEF Begins
  <2>2. ASSUME NEW p \in Runs, runs'[r].parent = p
        PROVE  p \in Created(runs) /\ Counts(r, p)
    <3>1. Ended(p) /\ p \in Created(runs) /\ p # r
      BY <1>5, <2>2, AbsentIsFree, AbsentRow, LineageConstants DEF Begins, Ended, Terminal
    <3>2. runs'[p] = runs[p] /\ runs[p].ended \in Nat /\ runs[p].ended <= clock
      BY <1>5, <3>1 DEF Begins, Untouched, Timed
    <3>3. runs'[p].state \in Terminal /\ runs'[p].ended <= runs'[r].created
      BY <1>5, <3>1, <3>2 DEF Begins, Ended, Timed
    <3> QED
      BY <3>1, <3>3 DEF Counts, Available
  <2>3. Fresh(r)
    BY <1>5, <2>2 DEF Fresh, Begins
  <2> QED
    BY <1>2, <2>1, <2>3
<1>6. ASSUME NEW c \in Runs, FinishesWith(r, c)
      PROVE  Fresh(x) \/ GoesOn(x)
  <2>1. x \notin {r, c} => Untouched(x)
    BY <1>6 DEF FinishesWith
  <2>2. GoesOn(r)
    BY <1>6 DEF FinishesWith, GoesOn, EndsAt, Created
  <2>3. Counts(c, r) /\ r \in Created(runs)
    <3>1. r \in Created(runs)
      BY <1>6 DEF FinishesWith, Created
    <3>2. /\ runs'[c].parent = r /\ runs'[c].policy # "none" /\ runs'[c].version = 2
          /\ runs'[r].version = 1 /\ runs'[c].root = runs'[r].root
      BY <1>6 DEF FinishesWith, Series
    <3> QED
      BY <3>1, <3>2 DEF Counts, Available, OverrideOf
  <2>4. Fresh(c)
    <3>1. work' = work /\ runs'[c].state # "absent" /\ runs'[c].parent = r
          /\ runs'[c].window = runs[r].window
      BY <1>6 DEF FinishesWith
    <3> QED
      BY <1>6, <2>3, <3>1 DEF Fresh, FinishesWith
  <2> QED
    BY <1>2, <2>1, <2>2, <2>4
<1>7. ASSUME NEW s \in Runs, Retries(r, s)
      PROVE  Fresh(x) \/ GoesOn(x)
  <2>1. x \notin {r, s} => Untouched(x)
    BY <1>7 DEF Retries, Untouched
  <2>2. GoesOn(s)
    BY <1>7 DEF Retries, GoesOn, Created
  <2>3. s \in Created(runs)
    BY <1>7, AbsentIsFree DEF Retries
  <2>4. Fresh(r)
    BY <1>7, <2>3 DEF Retries, Fresh
  <2> QED
    BY <1>2, <2>1, <2>2, <2>4
<1> QED
  BY <1>1, <1>3, <1>4, <1>5, <1>6, <1>7

\* The new run of a step, or one that was there.
LEMMA NewRuns ==
  ASSUME Fits, Step, Timed, NEW x \in Created(runs)'
  PROVE  /\ x \in Runs
         /\ \/ x \notin Created(runs) /\ Fresh(x)
            \/ x \in Created(runs) /\ GoesOn(x)
<1>1. x \in Runs
  BY DEF Created
<1>2. Fresh(x) => x \notin Created(runs)
  BY AbsentRow, LineageConstants DEF Fresh, Created
<1>3. GoesOn(x) => x \in Created(runs)
  BY DEF GoesOn
<1> QED
  BY <1>1, <1>2, <1>3, RunStep

\* A step creates one run, which is younger than all before.
LEMMA AgesKept ==
  ASSUME Fits, Step, Timed, SourcesEnd, Apart, Older
  PROVE  Apart' /\ Older'
<1>1. PICK n : \A x \in Created(runs)' \ Created(runs) : x = n
  BY StepCases DEF Touches
<1>2. /\ clock \in Nat
      /\ \A x \in Created(runs) : /\ runs[x].created \in Nat /\ runs[x].created <= clock
                                  /\ runs[x].parent \in Created(runs) \cup {NoRun}
  BY DEF Timed, SourcesEnd, Linked, Created
<1>3. \A x \in Created(runs)' : x \in Created(runs) =>
        runs'[x].created = runs[x].created /\ runs'[x].parent = runs[x].parent
  BY StepIsSealed DEF Sealed, Pins
<1>4. \A x \in Created(runs)' : x \notin Created(runs) =>
        runs'[x].created = clock + 1 /\ runs'[x].parent \in Created(runs) \cup {NoRun}
  BY <1>2, LineageConstants, NewRuns, SourcesEndKept, RunStep DEF Fresh, SourcesEnd, Linked
<1>5. \A x \in Created(runs) : x \in Created(runs)'
  BY StepIsSealed DEF Sealed
<1>6. Apart'
  <2> SUFFICES ASSUME NEW x \in Created(runs)', NEW y \in Created(runs)',
                      runs'[x].created = runs'[y].created
               PROVE  x = y
    BY DEF Apart
  <2>1. CASE x \in Created(runs) /\ y \in Created(runs)
    BY <1>3, <2>1 DEF Apart
  <2>2. CASE x \notin Created(runs) /\ y \notin Created(runs)
    BY <1>1, <2>2
  <2>3. CASE x \in Created(runs) /\ y \notin Created(runs)
    BY <1>2, <1>3, <1>4, <2>3
  <2>4. CASE x \notin Created(runs) /\ y \in Created(runs)
    BY <1>2, <1>3, <1>4, <2>4
  <2> QED
    BY <2>1, <2>2, <2>3, <2>4
<1>7. Older'
  <2> SUFFICES ASSUME NEW x \in Created(runs)', NEW p \in Runs, runs'[x].parent = p
               PROVE  runs'[p].created < runs'[x].created
    BY DEF Older
  <2>1. p # NoRun
    BY LineageConstants
  <2>2. CASE x \in Created(runs)
    BY <1>2, <1>3, <1>5, <2>1, <2>2 DEF Older
  <2>3. CASE x \notin Created(runs)
    BY <1>2, <1>3, <1>4, <1>5, <2>1, <2>3
  <2> QED
    BY <2>2, <2>3
<1> QED
  BY <1>6, <1>7

\* What the memory of a new run is composed from fits.
LEMMA NewPin ==
  ASSUME Fits', SourcesEnd', Apart', Older', NEW x \in Created(runs)', Pinned(x),
         NEW rs, rs = runs', NEW w, w = work', \A s \in Created(runs)' : runs'[s].created \in Nat
  PROVE  /\ rs[x].memory \in Pin
         /\ \A p \in Created(runs)' :
              /\ rs[x].parent = p /\ rs[p].window = rs[x].window /\ Counts(x, p)
              /\ MaxSources > 0 /\ Len(w[p].candidates) <= MaxMemoryKeys
              => \A i \in DOMAIN w[p].candidates : w[p].candidates[i].state = "completed" =>
                   w[p].candidates[i].key \in Range(rs[x].memory.keys)
<1> DEFINE o == OverrideOf(rs, x)
           C == Created(rs)
<1>1. C \in SUBSET Runs /\ x \in C /\ C = Created(runs)' /\ x \in Runs
  BY DEF Created
<1>2. /\ \A s \in C : /\ rs[s].created \in Nat /\ rs[s].parent \in C \cup {NoRun}
                      /\ \A p \in C : rs[s].parent = p => rs[p].created < rs[s].created
      /\ \A s, t \in C : rs[s].created = rs[t].created => s = t
  <2>1. \A s \in C : rs[s].parent \in C \cup {NoRun}
    BY <1>1 DEF SourcesEnd, Linked
  <2>2. \A s \in C, p \in C : rs[s].parent = p => rs[p].created < rs[s].created
    BY <1>1 DEF Older
  <2>3. \A s, t \in C : rs[s].created = rs[t].created => s = t
    BY <1>1 DEF Apart
  <2> QED
    BY <1>1, <2>1, <2>2, <2>3
<1>3. \A s \in Runs : w[s].candidates \in Seq(Candidate)
  BY DEF Fits, WorkFits
<1>4. rs[x].memory = ComposePin(rs, w, x, o)
  BY DEF Pinned, PinnedIn
<1>5. Usable(rs, x, o) \subseteq C
  <2>1. ASSUME NEW s \in Runs, Available(rs, x, s, o)  PROVE s \in C
    <3>1. rs[x].parent = s => s \in C
      BY <1>1, <1>2, <2>1, LineageConstants
    <3>2. rs[s].state \in Terminal => s \in C
      BY DEF Created, Terminal
    <3> QED
      BY <2>1, <3>1, <3>2 DEF Available
  <2> QED
    BY <2>1 DEF Usable
<1>6. \A p \in C : Counts(x, p) => Available(rs, x, p, o)
  BY DEF Counts
<1> HIDE DEF o, C
<1>7. Composable(rs, w, x, o)
  BY <1>1, <1>2, <1>3, <1>5 DEF Composable
<1>8. ASSUME NEW p \in C, rs[x].parent = p, rs[p].window = rs[x].window, Counts(x, p)
      PROVE  /\ p \in Usable(rs, x, o) \cap Ancestors(rs, x)
             /\ \A a \in Usable(rs, x, o) \cap Ancestors(rs, x) : rs[a].created <= rs[p].created
  <2>1. p \in Usable(rs, x, o)
    BY <1>1, <1>6, <1>8 DEF Usable
  <2>2. p \in Runs /\ p # x /\ p # NoRun
    <3>1. p \in Runs /\ p # NoRun
      BY <1>1, <1>8, LineageConstants
    <3>2. rs[p].created < rs[x].created /\ rs[p].created \in Nat
      BY <1>1, <1>2, <1>8
    <3> QED
      BY <3>1, <3>2
  <2>3. p \in Ancestors(rs, x)
    BY <1>8, <2>2 DEF Ancestors
  <2>4. ASSUME NEW a \in Ancestors(rs, x)
        PROVE  rs[a].created <= rs[p].created
    <3> DEFINE S == {s \in C : rs[s].created <= rs[p].created}
    <3>1. S \in SUBSET Runs
      BY <1>1
    <3>2. \A s \in S \cup {x} : rs[s].parent \in S \cup {NoRun}
      <4>1. rs[x].parent \in S
        BY <1>2, <1>8
      <4>2. ASSUME NEW s \in S, rs[s].parent # NoRun  PROVE rs[s].parent \in S
        BY <1>2, <4>2
      <4> QED
        BY <4>1, <4>2
    <3> HIDE DEF S
    <3>3. a \in S
      BY <3>1, <3>2 DEF Ancestors
    <3> QED
      BY <3>3 DEF S
  <2> QED
    BY <2>1, <2>3, <2>4
<1>9. /\ ComposePin(rs, w, x, o) \in Pin
      /\ \A p \in Usable(rs, x, o) \cap Ancestors(rs, x) :
           /\ \A a \in Usable(rs, x, o) \cap Ancestors(rs, x) : rs[a].created <= rs[p].created
           /\ MaxSources > 0 /\ Len(w[p].candidates) <= MaxMemoryKeys
           => \A i \in DOMAIN w[p].candidates : w[p].candidates[i].state = "completed" =>
                w[p].candidates[i].key \in Range(ComposePin(rs, w, x, o).keys)
  BY <1>1, <1>7, PinComposed
<1> QED
  BY <1>1, <1>4, <1>8, <1>9

\* What a run has tried stays paid for and new to its memory.
LEMMA BookedKept ==
  ASSUME Fits, Step, Timed, NEW x \in Runs, Typed(x), Booked(x), TriesNew(x)
  PROVE  /\ Booked(x)' /\ TriesNew(x)'
         /\ {runs'[x].used, runs'[x].repairs} \subseteq Nat /\ work'[x].feedback \in Feedbacks
<1>1. /\ Len(work[x].candidates) \in Nat /\ work[x].candidates \in Seq(Candidate)
      /\ runs[x].used \in Nat /\ runs[x].repairs \in Nat /\ work[x].feedback \in Feedbacks
      /\ MaxExperiments \in Nat /\ MaxRepairs[x] \in Nat
  BY LineageConstants DEF Fits, WorkFits, Typed
<1>2. CASE Fresh(x)
  <2>1. runs'[x].used = 0 /\ runs'[x].repairs = 0 /\ work'[x] = work[x]
    BY <1>2 DEF Fresh, Blank
  <2>2. Len(work[x].candidates) = 0
    <3>1. runs[x].used = 0 /\ runs[x].repairs = 0
      BY <1>2, AbsentRow, LineageConstants DEF Fresh, Blank
    <3>2. Len(work[x].candidates) <= runs[x].used + runs[x].repairs
      BY DEF Booked
    <3> QED
      BY <1>1, <3>1, <3>2
  <2>3. Names(work[x]) = {}
    BY <1>1, <2>2 DEF Names
  <2> QED
    BY <1>1, <2>1, <2>2, <2>3 DEF Booked, TriesNew
<1>3. CASE GoesOn(x) /\ Budget(x) /\ work'[x] = work[x]
  BY <1>1, <1>3 DEF GoesOn, Budget, Pins, Booked, TriesNew
<1>4. CASE GoesOn(x) /\ Tries(x)
  <2>1. /\ runs'[x].memory = runs[x].memory
        /\ Names(work'[x]) \cap Range(runs[x].memory.keys) \subseteq Names(work[x])
        /\ work'[x].feedback \in Feedbacks
    BY <1>1, <1>4 DEF GoesOn, Pins, Tries
  <2>2. TriesNew(x)'
    BY <2>1 DEF TriesNew
  <2>3. CASE runs' = runs /\ Len(work'[x].candidates) = Len(work[x].candidates)
    BY <1>1, <2>1, <2>2, <2>3 DEF Booked
  <2>4. CASE /\ Len(work'[x].candidates) = Len(work[x].candidates) + 1
             /\ runs' = [runs EXCEPT ![x].used = runs[x].used + 1] /\ runs[x].used < MaxExperiments
    <3> DEFINE n == runs[x].used + 1
    <3>1. runs'[x].used = n /\ runs'[x].repairs = runs[x].repairs
      <4>1. runs = [s \in Runs |-> runs[s]] /\ RowFits(runs[x])
        BY DEF Fits
      <4>2. runs' = [runs EXCEPT ![x].used = n]
        BY <2>4
      <4> HIDE DEF n
      <4>3. runs'[x] = [runs[x] EXCEPT !.used = n]
        BY <4>1, <4>2
      <4> QED
        BY <4>1, <4>3 DEF RowFits
    <3>2. /\ Len(work'[x].candidates) = Len(work[x].candidates) + 1 /\ runs[x].used < MaxExperiments
          /\ Len(work[x].candidates) <= runs[x].used + runs[x].repairs
          /\ runs[x].used <= MaxExperiments /\ runs[x].repairs <= MaxRepairs[x]
      BY <2>4 DEF Booked
    <3>3. Booked(x)'
      <4> DEFINE old == Len(work[x].candidates)
                 new == Len(work'[x].candidates)
      <4>1. /\ old \in Nat /\ runs[x].used \in Nat /\ runs[x].repairs \in Nat
            /\ MaxExperiments \in Nat /\ MaxRepairs[x] \in Nat /\ new = old + 1
            /\ old <= runs[x].used + runs[x].repairs
        BY <1>1, <3>2
      <4> HIDE DEF old, new
      <4>2. /\ new <= runs'[x].used + runs'[x].repairs
            /\ runs'[x].used <= MaxExperiments /\ runs'[x].repairs <= MaxRepairs[x]
        BY <3>1, <3>2, <4>1
      <4> QED
        BY <4>2 DEF Booked, new
    <3> QED
      BY <1>1, <2>1, <2>2, <3>1, <3>3
  <2>5. CASE /\ Len(work'[x].candidates) = Len(work[x].candidates) + 1
             /\ runs' = [runs EXCEPT ![x].repairs = runs[x].repairs + 1]
             /\ runs[x].repairs < MaxRepairs[x]
    <3> DEFINE n == runs[x].repairs + 1
    <3>1. runs'[x].repairs = n /\ runs'[x].used = runs[x].used
      <4>1. runs = [s \in Runs |-> runs[s]] /\ RowFits(runs[x])
        BY DEF Fits
      <4>2. runs' = [runs EXCEPT ![x].repairs = n]
        BY <2>5
      <4> HIDE DEF n
      <4>3. runs'[x] = [runs[x] EXCEPT !.repairs = n]
        BY <4>1, <4>2
      <4> QED
        BY <4>1, <4>3 DEF RowFits
    <3>2. /\ Len(work'[x].candidates) = Len(work[x].candidates) + 1 /\ runs[x].repairs < MaxRepairs[x]
          /\ Len(work[x].candidates) <= runs[x].used + runs[x].repairs
          /\ runs[x].used <= MaxExperiments /\ runs[x].repairs <= MaxRepairs[x]
      BY <2>5 DEF Booked
    <3>3. Booked(x)'
      <4> DEFINE old == Len(work[x].candidates)
                 new == Len(work'[x].candidates)
      <4>1. /\ old \in Nat /\ runs[x].used \in Nat /\ runs[x].repairs \in Nat
            /\ MaxExperiments \in Nat /\ MaxRepairs[x] \in Nat /\ new = old + 1
            /\ old <= runs[x].used + runs[x].repairs
        BY <1>1, <3>2
      <4> HIDE DEF old, new
      <4>2. /\ new <= runs'[x].used + runs'[x].repairs
            /\ runs'[x].used <= MaxExperiments /\ runs'[x].repairs <= MaxRepairs[x]
        BY <3>1, <3>2, <4>1
      <4> QED
        BY <4>2 DEF Booked, new
    <3> QED
      BY <1>1, <2>1, <2>2, <3>1, <3>3
  <2> QED
    BY <1>4, <2>3, <2>4, <2>5 DEF Tries
<1> QED
  BY <1>2, <1>3, <1>4, RunStep DEF GoesOn

LEMMA TypedKept ==
  ASSUME Fits, Step, Timed, SourcesEnd, Apart, Older, Fits',
         \A r \in Runs : Typed(r) /\ Booked(r) /\ TriesNew(r)
  PROVE  \A r \in Runs : Typed(r)'
<1>1. SourcesEnd' /\ Apart' /\ Older' /\ Timed'
  BY SourcesEndKept, AgesKept, TimedKept
<1> SUFFICES ASSUME NEW x \in Runs  PROVE Typed(x)'
  OBVIOUS
<1>2. {runs'[x].used, runs'[x].repairs} \subseteq Nat /\ work'[x].feedback \in Feedbacks
  BY BookedKept
<1>3. reports'[x] \in Report
  BY ReportsChange DEF Typed, ReportFits
<1>4. clock \in Nat /\ clock' \in Nat
  BY <1>1 DEF Timed
<1>5. CASE GoesOn(x)
  BY <1>2, <1>3, <1>4, <1>5 DEF GoesOn, Pins, Typed
<1>6. CASE Fresh(x)
  <2>1. runs'[x].created \in Nat /\ runs'[x].ended \in Nat
    BY <1>4, <1>6 DEF Fresh, Blank
  <2>2. x \in Created(runs)'
    BY <1>6 DEF Fresh, Created
  <2>3. ASSUME NEW s \in Created(runs), runs'[x].window = runs[s].window,
               runs'[x].memory = runs[s].memory
        PROVE  runs'[x].window \in Windows /\ runs'[x].memory \in Pin
    BY <2>3 DEF Typed, Created
  <2>4. ASSUME Pinned(x), runs'[x].window \in Windows \cup {runs[s].window : s \in Runs}
        PROVE  runs'[x].window \in Windows /\ runs'[x].memory \in Pin
    <3>1. \A s \in Created(runs)' : runs'[s].created \in Nat
      BY <1>1 DEF Timed
    <3>2. PICK rs, w : rs = runs' /\ w = work'
      OBVIOUS
    <3>3. rs[x].memory \in Pin
      BY <1>1, <2>2, <2>4, <3>1, <3>2, NewPin
    <3>4. \A s \in Runs : runs[s].window \in Windows
      BY DEF Typed
    <3> QED
      BY <2>4, <3>2, <3>3, <3>4
  <2>5. runs'[x].window \in Windows /\ runs'[x].memory \in Pin
    <3>1. CASE \E s \in Created(runs) : /\ runs'[x].window = runs[s].window
                                        /\ runs'[x].memory = runs[s].memory
      BY <2>3, <3>1
    <3> QED
      BY <1>6, <2>4, <3>1 DEF Fresh
  <2> QED
    BY <1>2, <1>3, <2>1, <2>5 DEF Typed
<1> QED
  BY <1>5, <1>6, RunStep

LEMMA CoveredKept ==
  ASSUME Fits, Step, Timed, SourcesEnd, Apart, Older, Fits', Roomy,
         \A r \in Runs : Typed(r) /\ Booked(r) /\ TriesNew(r) /\ Covered(r)
  PROVE  \A r \in Runs : Covered(r)'
<1>1. SourcesEnd' /\ Apart' /\ Older' /\ Timed'
  BY SourcesEndKept, AgesKept, TimedKept
<1> SUFFICES ASSUME NEW x \in Created(runs)', NEW p \in Runs, runs'[x].parent = p,
                    runs'[p].window = runs'[x].window
             PROVE  Completed(p)' \subseteq Range(runs'[x].memory.keys)
  BY DEF Covered
<1>2. ASSUME NEW s \in Created(runs), runs'[x].parent = runs[s].parent,
             runs'[x].window = runs[s].window, runs'[x].memory = runs[s].memory
      PROVE  Completed(p)' \subseteq Range(runs'[x].memory.keys)
  <2>1. s \in Runs /\ runs[s].parent = p /\ p # NoRun
    BY <1>2, LineageConstants DEF Created
  <2>2. Ended(p) /\ p \in Created(runs)
    BY <2>1, AbsentIsFree DEF SourcesEnd
  <2>3. runs'[p].window = runs[p].window /\ work'[p] = work[p]
    BY <2>2, StepIsSealed DEF Sealed, Pins
  <2>4. Completed(p)' = Completed(p)
    BY <2>3, CompletedKept
  <2> QED
    BY <1>2, <2>1, <2>3, <2>4 DEF Covered
<1>3. CASE x \in Created(runs) /\ GoesOn(x)
  BY <1>2, <1>3 DEF GoesOn, Pins
<1>4. CASE Pinned(x) /\ p \in Created(runs) /\ Counts(x, p)
  <2>1. PICK rs, w : rs = runs' /\ w = work'
    OBVIOUS
  <2>2. p \in Created(runs)' /\ \A s \in Created(runs)' : runs'[s].created \in Nat
    BY <1>1, <1>4, StepIsSealed DEF Timed, Sealed
  <2>3. Len(w[p].candidates) <= MaxMemoryKeys
    <3>1. Booked(p)' /\ {runs'[p].used, runs'[p].repairs} \subseteq Nat
      BY BookedKept
    <3>2. w[p].candidates \in Seq(Candidate)
      BY <2>1 DEF Fits, WorkFits
    <3>3. /\ Len(w[p].candidates) \in Nat /\ MaxExperiments \in Nat /\ MaxRepairs[p] \in Nat
          /\ MaxMemoryKeys \in Nat /\ MaxExperiments + MaxRepairs[p] <= MaxMemoryKeys
      BY <3>2, LineageConstants DEF Roomy
    <3>4. /\ Len(w[p].candidates) <= rs[p].used + rs[p].repairs
          /\ rs[p].used <= MaxExperiments /\ rs[p].repairs <= MaxRepairs[p]
          /\ rs[p].used \in Nat /\ rs[p].repairs \in Nat
      BY <2>1, <3>1 DEF Booked
    <3> QED
      BY <3>3, <3>4
  <2>4. \A i \in DOMAIN w[p].candidates : w[p].candidates[i].state = "completed" =>
          w[p].candidates[i].key \in Range(rs[x].memory.keys)
    BY <1>1, <1>4, <2>1, <2>2, <2>3, NewPin DEF Roomy
  <2>5. Completed(p)' = {w[p].candidates[i].key :
                           i \in {j \in DOMAIN w[p].candidates : w[p].candidates[j].state = "completed"}}
    BY <2>1 DEF Completed, InState
  <2> QED
    BY <2>1, <2>4, <2>5
<1> QED
  BY <1>2, <1>3, <1>4, NewRuns DEF Fresh

LEMMA EarlyKept ==
  ASSUME Next, early \in Nat
  PROVE  early' \in Nat
<1>1. PICK r \in Runs : User(r) \/ Agent(r)
  BY DEF Next
<1>2. CASE User(r)
  <2>1. CASE CreateRun(r) \/ Refine(r)
    BY <2>1 DEF CreateRun, Refine
  <2>2. CASE Retry(r) \/ Approve(r)
    BY <2>2 DEF Retry, Approve
  <2>3. CASE Cancel(r)
    BY <2>3 DEF Cancel
  <2> QED
    BY <1>2, <2>1, <2>2, <2>3 DEF User
<1>3. CASE Agent(r)
  <2>1. CASE CreateCandidate(r) \/ Revise(r)
    BY <2>1 DEF CreateCandidate, Revise
  <2>2. CASE Backtest(r) \/ Compare(r)
    BY <2>2 DEF Backtest, Compare
  <2>3. CASE Finish(r) \/ FinishRefused(r)
    BY <2>3 DEF Finish, FinishRefused
  <2>4. CASE RunOut(r)
    BY <2>4 DEF RunOut
  <2> QED
    BY <1>3, <2>1, <2>2, <2>3, <2>4 DEF Agent
<1> QED
  BY <1>1, <1>2, <1>3

\* The second invariant.
JInv ==
  /\ IInv
  /\ early \in Nat /\ Apart /\ Older
  /\ \A r \in Runs : Typed(r) /\ Booked(r) /\ TriesNew(r)
  /\ Roomy => \A r \in Runs : Covered(r)

LEMMA InitHoldsToo == Init => JInv
<1> SUFFICES ASSUME Init  PROVE JInv
  OBVIOUS
<1>1. \A r \in Runs : /\ runs[r] = Absent /\ work[r] = EmptyWork /\ reports[r] = NoReport
                      /\ r \notin Created(runs)
  BY AbsentRow, LineageConstants DEF Init, Created
<1>2. /\ Len(EmptyWork.candidates) = 0 /\ Names(EmptyWork) = {} /\ EmptyWork.feedback \in Feedbacks
  BY DEF EmptyWork, Names, Feedbacks
<1>3. /\ Absent.window \in Windows /\ Absent.memory \in Pin /\ Absent.created = 0
      /\ Absent.ended = 0 /\ Absent.used = 0 /\ Absent.repairs = 0
  BY LineageConstants DEF Absent, Pin, EmptyPin
<1>4. NoReport \in Report
  BY DEF NoReport, Report
<1>5. \A r \in Runs : Typed(r)
  BY <1>1, <1>2, <1>3, <1>4 DEF Typed
<1>6. \A r \in Runs : Booked(r) /\ TriesNew(r)
  BY <1>1, <1>2, <1>3, LineageConstants DEF Booked, TriesNew
<1>7. Apart /\ Older /\ \A r \in Runs : Covered(r)
  BY <1>1 DEF Apart, Older, Covered, Created
<1> QED
  BY <1>5, <1>6, <1>7, InitHolds DEF JInv, Init

LEMMA NextKeepsToo ==
  ASSUME JInv, Next
  PROVE  JInv'
<1>1. Step /\ Fits' /\ IInv'
  BY NextIsStep, NextKeeps DEF JInv
<1>2. Fits /\ Timed /\ SourcesEnd
  BY DEF JInv, IInv
<1>3. Apart' /\ Older'
  BY <1>1, <1>2, AgesKept DEF JInv
<1>4. \A r \in Runs : Typed(r)' /\ Booked(r)' /\ TriesNew(r)'
  BY <1>1, <1>2, TypedKept, BookedKept DEF JInv
<1>5. Roomy => \A r \in Runs : Covered(r)'
  BY <1>1, <1>2, CoveredKept DEF JInv
<1>6. early' \in Nat
  BY EarlyKept DEF JInv
<1> QED
  BY <1>1, <1>3, <1>4, <1>5, <1>6 DEF JInv

LEMMA StutterKeepsToo ==
  ASSUME JInv, UNCHANGED vars
  PROVE  JInv'
<1>1. IInv' /\ early' \in Nat
  BY StutterKeeps DEF JInv, vars
<1>2. Apart' /\ Older'
  BY DEF JInv, Apart, Older, Created, vars
<1>3. \A r \in Runs : Typed(r)' /\ Booked(r)' /\ TriesNew(r)'
  BY DEF JInv, Typed, Booked, TriesNew, vars
<1>4. ASSUME NEW r \in Runs, Covered(r)  PROVE Covered(r)'
  <2>1. \A p \in Runs : Completed(p)' = Completed(p)
    BY CompletedKept DEF vars
  <2> QED
    BY <1>4, <2>1 DEF Covered, Created, vars
<1> QED
  BY <1>1, <1>2, <1>3, <1>4 DEF JInv

\* The invariant that the two theorems below rest on: every candidate was paid
\* for, is none that the pinned memory of its run names, and that memory names
\* all that the run it refines completed.
THEOREM InductiveToo == Spec => []JInv
<1>1. JInv /\ [Next]_vars => JInv'
  BY NextKeepsToo, StutterKeepsToo
<1> QED
  BY <1>1, InitHoldsToo, PTL DEF Spec

LEMMA RowsHaveTypes ==
  ASSUME JInv
  PROVE  TypeOK
<1>1. /\ runs = [r \in Runs |-> runs[r]] /\ work = [r \in Runs |-> work[r]]
      /\ reports = [r \in Runs |-> reports[r]]
      /\ \A r \in Runs : RowFits(runs[r]) /\ WorkFits(work[r]) /\ Typed(r)
      /\ clock \in Nat /\ early \in Nat
  BY DEF JInv, IInv, Fits, Timed
<1>2. ASSUME NEW r \in Runs  PROVE runs[r] \in RunRow
  <2>1. RowFits(runs[r]) /\ Typed(r)
    BY <1>1
  <2> QED
    BY <2>1 DEF RowFits, Typed, RunRow
<1>3. ASSUME NEW r \in Runs  PROVE work[r] \in WorkRow
  <2>1. WorkFits(work[r]) /\ work[r].feedback \in Feedbacks
    BY <1>1 DEF Typed
  <2> QED
    BY <2>1 DEF WorkFits, WorkRow, Feedbacks
<1>4. \A r \in Runs : reports[r] \in Report
  BY <1>1 DEF Typed
<1> QED
  BY <1>1, <1>2, <1>3, <1>4 DEF TypeOK

LEMMA NoveltyHolds ==
  ASSUME JInv, Roomy
  PROVE  RefinementIsNovel
<1> SUFFICES ASSUME NEW r \in Created(runs), NEW p, p = runs[r].parent, p # NoRun,
                    runs[p].window = runs[r].window
             PROVE  Tested(r) \cap Completed(p) = {}
  BY DEF RefinementIsNovel
<1>1. r \in Runs /\ p \in Runs
  BY DEF JInv, IInv, SourcesEnd, Linked, Created
<1>2. Completed(p) \subseteq Range(runs[r].memory.keys)
  BY <1>1 DEF JInv, Covered
<1>3. Tested(r) = Names(work[r])
  BY DEF Tested, Names
<1> QED
  BY <1>1, <1>2, <1>3 DEF JInv, TriesNew

\* Every row of the workspace has the columns and the values of its type,
\* whatever create_run, the agent's calls and the finishes did before.
THEOREM RowsStayTyped == Spec => []TypeOK
<1>1. JInv => TypeOK
  BY RowsHaveTypes
<1> QED
  BY <1>1, InductiveToo, PTL

\* As long as the pinned memory has room for one source and for all that one run
\* can try, a refinement and its retries never test again, on the same evidence,
\* what the run they refine completed (create_agent_candidate and
\* revise_agent_candidate against the pin of _compose_research_memory_pin).
THEOREM RefinementsStayNovel ==
  ASSUME Roomy
  PROVE  Spec => []RefinementIsNovel
<1>1. JInv => RefinementIsNovel
  BY NoveltyHolds
<1> QED
  BY <1>1, InductiveToo, PTL
=============================================================================
