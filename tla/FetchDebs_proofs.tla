-------------------------- MODULE FetchDebs_proofs --------------------------
(***************************************************************************)
(* Proofs about FetchDebs, for any packages, any index (circles, gaps and  *)
(* alternatives of any shape) and any number of runs.                      *)
(***************************************************************************)
EXTENDS FetchDebs, SequenceTheorems, FiniteSetTheorems, TLAPS

----------------------------------------------------------------------------
(* What is in a sequence.                                                   *)

LEMMA RangeAppend ==
    ASSUME NEW S, NEW s \in Seq(S), NEW e \in S
    PROVE  Range(Append(s, e)) = Range(s) \cup {e}
<1>1. Append(s, e) = s \o <<e>>
  BY AppendIsConcat
<1>2. <<e>> \in Seq(S) /\ DOMAIN <<e>> = 1 .. 1 /\ <<e>>[1] = e
  OBVIOUS
<1>3. Range(<<e>>) = {e}
  BY <1>2 DEF Range
<1>4. \A t \in Seq(S) : Range(s \o t) = Range(s) \cup Range(t)
  BY RangeConcatenation
<1> QED
  BY <1>1, <1>2, <1>3, <1>4, Zenon

----------------------------------------------------------------------------
(* Types.                                                                   *)

\* The first alternatives of a package's clauses are names, one for each clause.
LEMMA DepsType ==
    ASSUME index \in Indexes, NEW p \in DOMAIN index
    PROVE  /\ p \in Package
           /\ Deps(p) \in Seq(Package)
           /\ DOMAIN index[p] = 1 .. Len(Deps(p))
           /\ \A i \in DOMAIN index[p] : /\ Deps(p)[i] = index[p][i][1]
                                         /\ 1 \in DOMAIN index[p][i]
<1> DEFINE c == index[p]
<1>1. p \in Package /\ c \in Seq(Seq(Package) \ {<<>>})
  BY IndexAssumption
<1>2. Len(c) \in Nat /\ DOMAIN c = 1 .. Len(c)
  BY <1>1
<1>3. \A i \in DOMAIN c : c[i] \in Seq(Package) /\ c[i] # <<>>
  BY <1>1
<1>4. \A i \in DOMAIN c : 1 \in DOMAIN c[i] /\ c[i][1] \in Package
  <2> SUFFICES ASSUME NEW i \in DOMAIN c PROVE 1 \in DOMAIN c[i] /\ c[i][1] \in Package
    OBVIOUS
  <2>1. c[i] \in Seq(Package) /\ Len(c[i]) \in Nat \ {0}
    BY <1>3, EmptySeq
  <2> QED
    BY <2>1
<1> HIDE DEF c
<1>5. [i \in DOMAIN c |-> c[i][1]] \in [1 .. Len(c) -> Package]
  BY <1>2, <1>4
<1>6. [i \in DOMAIN c |-> c[i][1]] \in Seq(Package) /\ Len([i \in DOMAIN c |-> c[i][1]]) = Len(c)
  BY <1>2, <1>5
<1> QED
  BY <1>1, <1>2, <1>4, <1>6 DEF Deps, c

\* A run that is under way has not failed yet, has nothing before it downloads, and
\* has looked at all it has put in order.
RunOK ==
    /\ pc \in {"index", "resolve", "download"} => failed < runs
    /\ pc \in {"index", "resolve"} => paths = 0
    /\ pc = "resolve" => BasePkgs \cup Range(ordered) \subseteq seen

LEMMA TypesAndRun == Spec => [](TypeOK /\ RunOK)
<1> USE IndexAssumption DEF resolveVars, downloadVars
<1>0. <<>> \in Seq(Package) /\ Len(<<>>) = 0 /\ \A S : <<>> \in Seq(S)
  BY EmptySeq
<1>00. IsInjective(<<>>) /\ Range(<<>>) = {}
  BY DEF IsInjective, Range
<1>1. Init => TypeOK /\ RunOK
  <2> SUFFICES ASSUME Init PROVE TypeOK /\ RunOK
    OBVIOUS
  <2>1. /\ queue \in Seq(Package) /\ ordered \in Seq(DOMAIN index) /\ IsInjective(ordered)
        /\ paths \in 0 .. Len(ordered) /\ runs \in 0 .. MaxRuns /\ failed \in 0 .. runs
    BY <1>0, <1>00 DEF Init
  <2> QED
    BY <2>1 DEF Init, TypeOK, RunOK
<1>2. TypeOK /\ RunOK /\ [Next]_vars => (TypeOK /\ RunOK)'
  <2> SUFFICES ASSUME TypeOK, RunOK, Next \/ UNCHANGED vars
               PROVE  (TypeOK /\ RunOK)'
    OBVIOUS
  <2> USE DEF TypeOK, RunOK
  <2>0. runs \in Nat /\ failed \in Nat /\ failed <= runs
    OBVIOUS
  <2>1. CASE Start
    <3>1. runs' \in 0 .. MaxRuns /\ failed' \in 0 .. runs' /\ failed' < runs'
      BY <2>0, <2>1 DEF Start
    <3>2. ordered' \in Seq(DOMAIN index') /\ IsInjective(ordered') /\ paths' \in 0 .. Len(ordered')
      BY <2>1, <1>0, <1>00 DEF Start
    <3> QED
      BY <2>1, <3>1, <3>2, <1>0 DEF Start
  <2>2. CASE IndexFails
    <3>1. failed' \in 0 .. runs' /\ runs' = runs
      BY <2>0, <2>2 DEF IndexFails, Fail
    <3> QED
      BY <2>2, <3>1 DEF IndexFails, Fail
  <2>3. CASE IndexFetched
    <3>1. ordered' \in Seq(DOMAIN index') /\ IsInjective(ordered') /\ paths' \in 0 .. Len(ordered')
      BY <2>3, <1>0, <1>00 DEF IndexFetched
    <3> QED
      BY <2>3, <3>1, <1>00 DEF IndexFetched
  <2>4. CASE Resolve
    <3>1. /\ queue # <<>> /\ pc = "resolve"
          /\ UNCHANGED <<pc, index, paths, file, runs, failed>>
      BY <2>4 DEF Resolve
    <3>2. Head(queue) \in Package /\ Tail(queue) \in Seq(Package)
      BY <3>1, HeadTailProperties
    <3>3. CASE Skip
      BY <3>1, <3>2, <3>3 DEF Skip, AfterSkip
    <3>4. CASE Missing
      BY <3>1, <3>2, <3>4 DEF Missing, SeenWith
    <3>5. CASE Take
      <4> DEFINE q == Head(queue)
      <4>1. /\ q \in DOMAIN index /\ q \notin seen
            /\ queue' = Tail(queue) \o Deps(q) /\ seen' = seen \cup {q}
            /\ ordered' = Append(ordered, q)
        BY <3>5 DEF Take, SeenWith
      <4>2. queue' \in Seq(Package)
        BY <3>2, <4>1, DepsType, ConcatProperties
      <4>3. q \notin Range(ordered)
        BY <3>1, <4>1
      <4> HIDE DEF q
      <4>4. /\ ordered' \in Seq(DOMAIN index) /\ Len(ordered') = Len(ordered) + 1
            /\ \A i \in 1 .. Len(ordered) : ordered'[i] = ordered[i]
            /\ ordered'[Len(ordered) + 1] = q
            /\ DOMAIN ordered' = 1 .. Len(ordered) + 1
            /\ DOMAIN ordered = 1 .. Len(ordered) /\ Len(ordered) \in Nat
        BY <4>1, AppendProperties, LenProperties
      <4>5. \A i \in 1 .. Len(ordered) : ordered[i] # q
        BY <4>3, <4>4 DEF Range
      <4>6. IsInjective(ordered')
        <5>1. \A i \in DOMAIN ordered', j \in DOMAIN ordered' : ordered'[i] = ordered'[j] => i = j
          <6> SUFFICES ASSUME NEW i \in 1 .. Len(ordered) + 1, NEW j \in 1 .. Len(ordered) + 1,
                              ordered'[i] = ordered'[j]
                       PROVE  i = j
            BY <4>4
          <6>1. CASE i \in 1 .. Len(ordered) /\ j \in 1 .. Len(ordered)
            BY <4>4, <6>1 DEF IsInjective
          <6>2. CASE i = Len(ordered) + 1 \/ j = Len(ordered) + 1
            <7>1. ASSUME NEW k \in 1 .. Len(ordered) + 1, ordered'[k] = q
                  PROVE  k = Len(ordered) + 1
              <8>1. k \in 1 .. Len(ordered) => ordered[k] = q
                BY <4>4, <7>1
              <8>2. k \notin 1 .. Len(ordered)
                BY <4>5, <8>1
              <8> QED
                BY <4>4, <8>2
            <7> QED
              BY <4>4, <6>2, <7>1
          <6> QED
            BY <4>4, <6>1, <6>2
        <5> QED
          BY <5>1 DEF IsInjective
      <4>7. Range(ordered') = Range(ordered) \cup {q}
        BY <4>1, RangeAppend
      <4>8. q \in Package /\ paths' \in 0 .. Len(ordered')
        BY <3>1, <4>1, <4>4, IndexAssumption
      <4> QED
        BY <3>1, <4>1, <4>2, <4>4, <4>6, <4>7, <4>8
    <3> QED
      BY <2>4, <3>3, <3>4, <3>5 DEF Resolve
  <2>5. CASE Resolved
    BY <2>5 DEF Resolved
  <2>6. CASE Cached \/ Fetch
    <3>1. Current \in Package
      <4>1. paths + 1 \in 1 .. Len(ordered)
        BY <2>6 DEF Cached, Fetch, Downloading
      <4>2. Current \in DOMAIN index
        BY <4>1, ElementOfSeq DEF Current
      <4> QED
        BY <4>2
    <3>2. paths' \in 0 .. Len(ordered)
      BY <2>6 DEF Cached, Fetch, Downloading
    <3>3. file' \in [Package -> {"none", "part", "whole"}]
      BY <2>6, <3>1 DEF Cached, Fetch
    <3> QED
      BY <2>6, <3>2, <3>3 DEF Cached, Fetch, Downloading
  <2>7. CASE FetchFails
    <3>1. failed' \in 0 .. runs' /\ runs' = runs
      BY <2>0, <2>7 DEF FetchFails, AfterFailedFetch, Fail, Downloading
    <3>2. file' \in [Package -> {"none", "part", "whole"}]
      BY <2>7 DEF FetchFails
    <3> QED
      BY <2>7, <3>1, <3>2 DEF FetchFails, AfterFailedFetch, Fail
  <2>8. CASE Printed
    BY <2>8 DEF Printed
  <2>9. CASE UNCHANGED vars
    BY <2>9 DEF vars
  <2> QED
    BY <2>1, <2>2, <2>3, <2>4, <2>5, <2>6, <2>7, <2>8, <2>9 DEF Next
<1> QED
  BY <1>1, <1>2, PTL DEF Spec

\* Types; and no package is taken twice.
THEOREM TypeCorrect == Spec => []TypeOK
<1> QED
  BY TypesAndRun, PTL

----------------------------------------------------------------------------
(* What the files are worth.                                                *)

Damaged == {p \in Package : file[p] = "part"}

\* Inductive: a file was damaged by a run that failed, and every package the run has
\* counted has a file.
DamageInv ==
    /\ IsFiniteSet(Damaged) /\ Cardinality(Damaged) <= failed
    /\ \A i \in 1 .. paths : file[ordered[i]] # "none"
    /\ pc = "done" => paths = Len(ordered)

\* A run that ends well has a file for each package, and no more files are damaged
\* than runs failed.
THEOREM DamageBounded == Spec => []DamageOnlyByFailedRuns
<1>1. Init => DamageInv
  <2> SUFFICES ASSUME Init PROVE DamageInv
    OBVIOUS
  <2>1. Damaged = {}
    BY DEF Init, Damaged
  <2> QED
    BY <2>1, FS_EmptySet DEF Init, DamageInv
<1>2. TypeOK /\ RunOK /\ DamageInv /\ [Next]_vars => DamageInv'
  <2> SUFFICES ASSUME TypeOK, RunOK, DamageInv, Next \/ UNCHANGED vars
               PROVE  DamageInv'
    OBVIOUS
  <2> USE DEF resolveVars, downloadVars
  <2>0. Cardinality(Damaged) \in Nat /\ failed \in Nat /\ Cardinality(Damaged) <= failed
    BY FS_CardinalityType DEF DamageInv, TypeOK
  <2>1. ASSUME UNCHANGED file
        PROVE  Damaged' = Damaged
    BY <2>1 DEF Damaged
  <2>2. CASE Start
    BY <2>1, <2>2 DEF Start, DamageInv
  <2>3. CASE IndexFails
    <3>1. /\ UNCHANGED <<file, paths, ordered>> /\ failed' = failed + 1 /\ pc' = "failed"
      BY <2>3 DEF IndexFails, Fail
    <3> QED
      BY <2>0, <2>1, <3>1 DEF DamageInv
  <2>4. CASE IndexFetched
    <3>1. UNCHANGED <<file, failed>> /\ paths' = 0 /\ pc' = "resolve"
      BY <2>4 DEF IndexFetched, RunOK
    <3> QED
      BY <2>1, <3>1 DEF DamageInv
  <2>5. CASE Resolve
    <3>1. UNCHANGED <<file, failed>> /\ paths' = 0 /\ pc' = "resolve"
      BY <2>5 DEF Resolve, RunOK
    <3> QED
      BY <2>1, <3>1 DEF DamageInv
  <2>6. CASE Resolved
    <3>1. UNCHANGED <<file, failed, paths, ordered>> /\ pc' = "download"
      BY <2>6 DEF Resolved
    <3> QED
      BY <2>1, <3>1 DEF DamageInv
  <2>7. CASE Cached \/ Fetch
    <3>1. /\ paths' = paths + 1 /\ ordered' = ordered /\ failed' = failed /\ pc' = "download"
          /\ paths \in Nat /\ paths + 1 \in 1 .. Len(ordered)
      BY <2>7 DEF Cached, Fetch, Downloading, TypeOK
    <3>2. Current = ordered[paths + 1] /\ Current \in Package
      <4>1. Current \in DOMAIN index
        BY <3>1, ElementOfSeq DEF Current, TypeOK
      <4> QED
        BY <4>1, IndexAssumption DEF Current, TypeOK
    <3>3. /\ Damaged' = Damaged
          /\ \A p \in Package : file[p] # "none" => file'[p] # "none"
          /\ file'[Current] # "none"
      BY <2>7, <3>2 DEF Cached, Fetch, Damaged, TypeOK
    <3>4. \A i \in 1 .. paths : ordered[i] \in Package
      <4> SUFFICES ASSUME NEW i \in 1 .. paths PROVE ordered[i] \in Package
        OBVIOUS
      <4>1. i \in 1 .. Len(ordered)
        BY <3>1
      <4>2. ordered[i] \in DOMAIN index
        BY <4>1, ElementOfSeq DEF TypeOK
      <4> QED
        BY <4>2, IndexAssumption DEF TypeOK
    <3>5. ASSUME NEW i \in 1 .. paths + 1
          PROVE  file'[ordered[i]] # "none"
      <4>1. CASE i \in 1 .. paths
        BY <3>3, <3>4, <4>1 DEF DamageInv
      <4>2. CASE i \notin 1 .. paths
        <5>1. i = paths + 1
          BY <3>1, <4>2
        <5> QED
          BY <3>2, <3>3, <5>1
      <4> QED
        BY <4>1, <4>2
    <3> QED
      BY <3>1, <3>3, <3>5 DEF DamageInv
  <2>8. CASE FetchFails
    <3>1. /\ failed' = failed + 1 /\ pc' = "failed" /\ UNCHANGED <<paths, ordered>>
      BY <2>8 DEF FetchFails, AfterFailedFetch, Fail
    <3>2. PICK left \in {"none", "part"} : file' = [file EXCEPT ![Current] = left]
      BY <2>8 DEF FetchFails
    <3>3. Current \in Package /\ file[Current] = "none"
      <4>1. paths + 1 \in 1 .. Len(ordered)
        BY <2>8 DEF FetchFails, Downloading, TypeOK
      <4>2. Current \in DOMAIN index
        BY <4>1, ElementOfSeq DEF Current, TypeOK
      <4> QED
        BY <2>8, <4>2, IndexAssumption DEF FetchFails, TypeOK
    <3>4. Damaged' = Damaged \/ Damaged' = Damaged \cup {Current}
      BY <3>2, <3>3 DEF Damaged, TypeOK
    <3>5. IsFiniteSet(Damaged') /\ Cardinality(Damaged') <= failed + 1
      <4>1. CASE Damaged' = Damaged
        BY <2>0, <4>1 DEF DamageInv
      <4>2. CASE Damaged' = Damaged \cup {Current}
        <5>1. /\ IsFiniteSet(Damaged \cup {Current})
              /\ \/ Cardinality(Damaged \cup {Current}) = Cardinality(Damaged)
                 \/ Cardinality(Damaged \cup {Current}) = Cardinality(Damaged) + 1
          BY FS_AddElement DEF DamageInv
        <5> QED
          BY <2>0, <4>2, <5>1
      <4> QED
        BY <3>4, <4>1, <4>2
    <3>6. ASSUME NEW i \in 1 .. paths
          PROVE  file'[ordered[i]] # "none"
      <4>1. file[ordered[i]] # "none"
        BY DEF DamageInv
      <4> QED
        BY <3>2, <3>3, <4>1 DEF TypeOK
    <3> QED
      BY <3>1, <3>5, <3>6 DEF DamageInv
  <2>9. CASE Printed
    <3>1. UNCHANGED <<file, failed, paths, ordered>> /\ paths = Len(ordered)
      BY <2>9 DEF Printed
    <3> QED
      BY <2>1, <3>1 DEF DamageInv
  <2>10. CASE UNCHANGED vars
    BY <2>10 DEF vars, DamageInv, Damaged
  <2> QED
    BY <2>2, <2>3, <2>4, <2>5, <2>6, <2>7, <2>8, <2>9, <2>10 DEF Next
<1>3. TypeOK /\ DamageInv => DamageOnlyByFailedRuns
  <2> SUFFICES ASSUME TypeOK, DamageInv
               PROVE  /\ pc = "done" => /\ paths = Len(ordered)
                                        /\ \A p \in Range(ordered) : file[p] # "none"
                      /\ Cardinality(Damaged) <= failed
    BY DEF DamageOnlyByFailedRuns, Damaged
  <2>1. DOMAIN ordered = 1 .. Len(ordered)
    BY LenProperties DEF TypeOK
  <2> QED
    BY <2>1 DEF DamageInv, Range
<1> QED
  BY <1>1, <1>2, <1>3, TypesAndRun, PTL DEF Spec

----------------------------------------------------------------------------
(* resolve's order.  Who asks for a name: place 0 stands for those who      *)
(* started the program, place j for the j-th package taken, D for what each *)
(* package depends on.                                                      *)

Asks(D, o, j, p) == IF j = 0 THEN p \in Range(Roots) ELSE p \in Range(D[o[j]])

\* m[i] is the first that asks for the i-th package taken,
TakenFor(D, o, m) ==
    \A i \in 1 .. Len(o) :
        /\ m[i] < i /\ Asks(D, o, m[i], o[i])
        /\ \A j \in 0 .. Len(o) : Asks(D, o, j, o[i]) => m[i] <= j

\* a[x] is one of those that ask for the x-th name still queued,
QueuedFor(D, o, q, a) ==
    \A x \in 1 .. Len(q) : a[x] <= Len(o) /\ Asks(D, o, a[x], q[x])

\* both are in order, and the queue's come after those of the packages taken,
InOrder(o, q, m, a) ==
    /\ \A i, k \in 1 .. Len(o) : i <= k => m[i] <= m[k]
    /\ \A x, y \in 1 .. Len(q) : x <= y => a[x] <= a[y]
    /\ \A i \in 1 .. Len(o), x \in 1 .. Len(q) : m[i] <= a[x]

\* and whatever is asked for was looked at or is queued, soon enough.
NoneForgotten(D, o, q, s, a) ==
    \A j \in 0 .. Len(o), p \in Package :
        Asks(D, o, j, p) => p \in s \/ \E x \in 1 .. Len(q) : q[x] = p /\ a[x] <= j

FirstAskers(D, o, q, s, m, a) ==
    /\ m \in [1 .. Len(o) -> Nat] /\ a \in [1 .. Len(q) -> Nat]
    /\ TakenFor(D, o, m) /\ QueuedFor(D, o, q, a)
    /\ InOrder(o, q, m, a) /\ NoneForgotten(D, o, q, s, a)

\* A name is off the queue and was looked at: Skip and Missing.
LEMMA OffTheQueue ==
    ASSUME NEW D, NEW o, Len(o) \in Nat, NEW q \in Seq(Package), q # <<>>, NEW s,
           NEW m, NEW a, FirstAskers(D, o, q, s, m, a)
    PROVE  \E b : FirstAskers(D, o, Tail(q), s \cup {Head(q)}, m, b)
<1> DEFINE b == [x \in 1 .. Len(Tail(q)) |-> a[x + 1]]
           t == Tail(q)
<1>1. /\ Len(q) \in Nat \ {0} /\ t \in Seq(Package) /\ Len(t) = Len(q) - 1
      /\ \A x \in 1 .. Len(t) : t[x] = q[x + 1] /\ x + 1 \in 1 .. Len(q)
      /\ Head(q) = q[1]
  BY EmptySeq, HeadTailProperties
<1>2. b \in [1 .. Len(t) -> Nat] /\ \A x \in 1 .. Len(t) : b[x] = a[x + 1]
  BY <1>1 DEF FirstAskers
<1> HIDE DEF b, t
<1>3. QueuedFor(D, o, t, b)
  BY <1>1, <1>2 DEF FirstAskers, QueuedFor
<1>4. InOrder(o, t, m, b)
  BY <1>1, <1>2 DEF FirstAskers, InOrder
<1>5. NoneForgotten(D, o, t, s \cup {q[1]}, b)
  <2> SUFFICES ASSUME NEW j \in 0 .. Len(o), NEW p \in Package, Asks(D, o, j, p),
                      p \notin s \cup {q[1]}
               PROVE  \E x \in 1 .. Len(t) : t[x] = p /\ b[x] <= j
    BY DEF NoneForgotten
  <2>1. PICK x \in 1 .. Len(q) : q[x] = p /\ a[x] <= j
    BY DEF FirstAskers, NoneForgotten
  <2>2. x # 1
    BY <2>1
  <2>3. x - 1 \in 1 .. Len(t) /\ (x - 1) + 1 = x
    BY <1>1, <2>2
  <2> QED
    BY <1>1, <1>2, <2>1, <2>3
<1>6. FirstAskers(D, o, t, s \cup {q[1]}, m, b)
  BY <1>2, <1>3, <1>4, <1>5 DEF FirstAskers
<1> QED
  BY <1>1, <1>6 DEF t

\* Take: the name is the next package, and what it depends on is queued.
LEMMA TakenNext ==
    ASSUME NEW P \in SUBSET Package, NEW D \in [P -> Seq(Package)],
           NEW o \in Seq(P), NEW q \in Seq(Package), q # <<>>, NEW s,
           NEW m, NEW a, FirstAskers(D, o, q, s, m, a),
           Head(q) \in P, Head(q) \notin s
    PROVE  \E mm, b : FirstAskers(D, Append(o, Head(q)), Tail(q) \o D[Head(q)],
                                  s \cup {Head(q)}, mm, b)
<1> DEFINE h == q[1]
           n == Len(o)
           l == Len(q)
           d == D[h]
           t == Tail(q)
           o2 == Append(o, h)
           q2 == t \o d
           mm == [i \in 1 .. n + 1 |-> IF i <= n THEN m[i] ELSE a[1]]
           b == [x \in 1 .. Len(q2) |-> IF x <= l - 1 THEN a[x + 1] ELSE n + 1]
<1>1. /\ l \in Nat \ {0} /\ t \in Seq(Package) /\ Len(t) = l - 1
      /\ \A x \in 1 .. l - 1 : t[x] = q[x + 1]
      /\ Head(q) = h /\ 1 \in 1 .. l
  BY EmptySeq, HeadTailProperties
<1>2. h \in P /\ h \notin s /\ d \in Seq(Package) /\ Len(d) \in Nat /\ n \in Nat
  BY <1>1
<1>3. /\ Len(o2) = n + 1 /\ o2[n + 1] = h
      /\ \A i \in 1 .. n : o2[i] = o[i]
  BY <1>2, AppendProperties
<1>4. /\ Len(q2) = l - 1 + Len(d)
      /\ \A x \in 1 .. l - 1 : q2[x] = q[x + 1]
      /\ \A x \in 1 .. Len(q2) : x > l - 1 => q2[x] = d[x - (l - 1)]
  BY <1>1, <1>2, ConcatProperties
<1>5. /\ m \in [1 .. n -> Nat] /\ a \in [1 .. l -> Nat]
      /\ TakenFor(D, o, m) /\ QueuedFor(D, o, q, a)
      /\ InOrder(o, q, m, a) /\ NoneForgotten(D, o, q, s, a)
  BY DEF FirstAskers
<1>6. /\ mm \in [1 .. n + 1 -> Nat] /\ \A i \in 1 .. n : mm[i] = m[i]
      /\ mm[n + 1] = a[1]
  <2>1. a[1] \in Nat /\ \A i \in 1 .. n : m[i] \in Nat
    BY <1>1, <1>5
  <2>2. n + 1 \in 1 .. n + 1 /\ ~(n + 1 <= n) /\ \A i \in 1 .. n : i \in 1 .. n + 1 /\ i <= n
    BY <1>2
  <2>3. \A i \in 1 .. n + 1 : i <= n => i \in 1 .. n
    BY <1>2
  <2> HIDE DEF n
  <2>4. mm \in [1 .. n + 1 -> Nat]
    BY <2>1, <2>3
  <2> QED
    BY <2>2, <2>4
<1>7. /\ b \in [1 .. Len(q2) -> Nat] /\ \A x \in 1 .. l - 1 : b[x] = a[x + 1]
      /\ \A x \in 1 .. Len(q2) : x > l - 1 => b[x] = n + 1
  BY <1>1, <1>2, <1>4, <1>5
<1>8. DOMAIN d = 1 .. Len(d)
  BY <1>2, LenProperties
<1> HIDE DEF o2, q2, mm, b, t, d, h, n, l
<1>9. /\ \A j \in 0 .. n : \A p : Asks(D, o2, j, p) <=> Asks(D, o, j, p)
      /\ \A p : Asks(D, o2, n + 1, p) <=> p \in Range(d)
  BY <1>2, <1>3 DEF Asks, d
<1>10. a[1] <= n /\ Asks(D, o, a[1], h) /\ a[1] \in Nat
  <2>1. a[1] <= Len(o) /\ Asks(D, o, a[1], q[1])
    BY <1>1, <1>5 DEF QueuedFor, l
  <2>2. a[1] \in Nat
    BY <1>1, <1>5
  <2> QED
    BY <2>1, <2>2 DEF h, n
<1>11. \A j \in 0 .. n : Asks(D, o, j, h) => a[1] <= j
  <2> SUFFICES ASSUME NEW j \in 0 .. n, Asks(D, o, j, h) PROVE a[1] <= j
    OBVIOUS
  <2>1. PICK x \in 1 .. l : q[x] = h /\ a[x] <= j
    BY <1>2, <1>5 DEF NoneForgotten, n, l
  <2>2. a[1] <= a[x] /\ a[x] \in Nat
    <3>1. \A x1, y1 \in 1 .. l : x1 <= y1 => a[x1] <= a[y1]
      BY <1>5 DEF InOrder, l
    <3>2. 1 <= x /\ a[x] \in Nat
      <4>1. x \in 1 .. l /\ l \in Nat
        BY <1>1, <2>1
      <4>2. 1 <= x
        BY <4>1
      <4>3. a[x] \in Nat
        BY <1>5, <4>1
      <4> QED
        BY <4>2, <4>3
    <3> QED
      BY <1>1, <2>1, <3>1, <3>2
  <2> QED
    BY <1>10, <2>1, <2>2
<1>12. TakenFor(D, o2, mm)
  <2>1. ASSUME NEW i \in 1 .. n
        PROVE  /\ mm[i] < i /\ Asks(D, o2, mm[i], o2[i])
               /\ \A j \in 0 .. n + 1 : Asks(D, o2, j, o2[i]) => mm[i] <= j
    <3>1. /\ m[i] < i /\ Asks(D, o, m[i], o[i]) /\ m[i] \in Nat
          /\ \A j \in 0 .. n : Asks(D, o, j, o[i]) => m[i] <= j
      BY <1>5 DEF TakenFor, n
    <3>2. mm[i] = m[i] /\ o2[i] = o[i] /\ m[i] \in 0 .. n
      BY <1>2, <1>3, <1>6, <3>1
    <3>3. Asks(D, o2, mm[i], o2[i])
      BY <1>9, <3>1, <3>2
    <3>4. ASSUME NEW j \in 0 .. n + 1, Asks(D, o2, j, o2[i])
          PROVE  mm[i] <= j
      <4>1. CASE j = n + 1
        BY <1>2, <3>2, <4>1
      <4>2. CASE j # n + 1
        <5>1. j \in 0 .. n
          BY <1>2, <4>2
        <5> QED
          BY <1>9, <3>1, <3>2, <3>4, <5>1
      <4> QED
        BY <4>1, <4>2
    <3> QED
      BY <3>1, <3>2, <3>3, <3>4
  <2>2. /\ mm[n + 1] < n + 1 /\ Asks(D, o2, mm[n + 1], o2[n + 1])
        /\ \A j \in 0 .. n + 1 : Asks(D, o2, j, o2[n + 1]) => mm[n + 1] <= j
    <3>1. Asks(D, o2, a[1], h)
      BY <1>2, <1>9, <1>10
    <3>2. ASSUME NEW j \in 0 .. n + 1, Asks(D, o2, j, h)
          PROVE  a[1] <= j
      <4>1. CASE j = n + 1
        BY <1>2, <1>10, <4>1
      <4>2. CASE j # n + 1
        <5>1. j \in 0 .. n
          BY <1>2, <4>2
        <5> QED
          BY <1>9, <1>11, <3>2, <5>1
      <4> QED
        BY <4>1, <4>2
    <3> QED
      BY <1>2, <1>3, <1>6, <1>10, <3>1, <3>2
  <2>3. \A i \in 1 .. n + 1 : i \in 1 .. n \/ i = n + 1
    BY <1>2
  <2> QED
    BY <1>3, <2>1, <2>2, <2>3 DEF TakenFor
<1>13. QueuedFor(D, o2, q2, b)
  <2> SUFFICES ASSUME NEW x \in 1 .. Len(q2)
               PROVE  b[x] <= n + 1 /\ Asks(D, o2, b[x], q2[x])
    BY <1>3 DEF QueuedFor
  <2>1. CASE x <= l - 1
    <3>1. x \in 1 .. l - 1 /\ x + 1 \in 1 .. l
      BY <1>1, <2>1
    <3>2. b[x] = a[x + 1] /\ q2[x] = q[x + 1] /\ a[x + 1] \in Nat
      BY <1>4, <1>5, <1>7, <3>1
    <3>3. a[x + 1] <= n /\ Asks(D, o, a[x + 1], q[x + 1])
      BY <1>5, <3>1 DEF QueuedFor, l, n
    <3> QED
      BY <1>2, <1>9, <3>2, <3>3
  <2>2. CASE x > l - 1
    <3>1. b[x] = n + 1 /\ q2[x] = d[x - (l - 1)] /\ x - (l - 1) \in 1 .. Len(d)
      <4>1. x - (l - 1) \in 1 .. Len(d)
        BY <1>1, <1>2, <1>4, <2>2
      <4> QED
        BY <1>4, <1>7, <2>2, <4>1
    <3>2. q2[x] \in Range(d)
      BY <1>8, <3>1 DEF Range
    <3> QED
      BY <1>2, <1>9, <3>1, <3>2
  <2> QED
    BY <1>1, <1>2, <1>4, <2>1, <2>2
<1>14. InOrder(o2, q2, mm, b)
  <2>1. /\ \A i, k \in 1 .. n : i <= k => m[i] <= m[k]
        /\ \A x, y \in 1 .. l : x <= y => a[x] <= a[y]
        /\ \A i \in 1 .. n, x \in 1 .. l : m[i] <= a[x]
    BY <1>5 DEF InOrder, n, l
  <2>2. \A i \in 1 .. n + 1 : mm[i] <= n /\ mm[i] <= a[1] /\ mm[i] \in Nat
    <3> SUFFICES ASSUME NEW i \in 1 .. n + 1
                 PROVE  mm[i] <= n /\ mm[i] <= a[1] /\ mm[i] \in Nat
      OBVIOUS
    <3>1. CASE i = n + 1
      BY <1>6, <1>10, <3>1
    <3>2. CASE i # n + 1
      <4>1. i \in 1 .. n
        BY <1>2, <3>2
      <4>2. mm[i] = m[i] /\ m[i] <= a[1] /\ m[i] \in Nat
        <5>1. m[i] <= a[1]
          BY <1>1, <2>1, <4>1
        <5>2. mm[i] = m[i] /\ m[i] \in Nat
          BY <1>5, <1>6, <4>1
        <5> QED
          BY <5>1, <5>2
      <4> QED
        BY <1>2, <1>10, <4>2
    <3> QED
      BY <3>1, <3>2
  <2>3. ASSUME NEW i \in 1 .. n + 1, NEW k \in 1 .. n + 1, i <= k
        PROVE  mm[i] <= mm[k]
    <3>1. CASE k = n + 1
      BY <1>6, <2>2, <3>1
    <3>2. CASE k # n + 1
      <4>1. i \in 1 .. n /\ k \in 1 .. n
        BY <1>2, <2>3, <3>2
      <4> QED
        BY <1>6, <2>1, <2>3, <4>1
    <3> QED
      BY <3>1, <3>2
  <2>4. ASSUME NEW x \in 1 .. Len(q2)
        PROVE  a[1] <= b[x] /\ b[x] <= n + 1 /\ b[x] \in Nat
    <3>1. CASE x <= l - 1
      <4>1. x \in 1 .. l - 1 /\ x + 1 \in 1 .. l /\ 1 \in 1 .. l
        BY <1>1, <3>1
      <4>2. b[x] = a[x + 1] /\ a[1] <= a[x + 1] /\ a[x + 1] \in Nat
        <5>1. a[1] <= a[x + 1]
          <6>1. 1 <= x + 1
            BY <4>1
          <6> QED
            BY <2>1, <4>1, <6>1
        <5>2. b[x] = a[x + 1] /\ a[x + 1] \in Nat
          BY <1>5, <1>7, <4>1
        <5> QED
          BY <5>1, <5>2
      <4>3. a[x + 1] <= n
        BY <1>5, <4>1 DEF QueuedFor, l, n
      <4> QED
        BY <1>2, <4>2, <4>3
    <3>2. CASE x > l - 1
      <4>1. b[x] = n + 1
        BY <1>7, <3>2
      <4> QED
        BY <1>2, <1>10, <4>1
    <3> QED
      BY <1>1, <1>2, <1>4, <3>1, <3>2
  <2>5. ASSUME NEW x \in 1 .. Len(q2), NEW y \in 1 .. Len(q2), x <= y
        PROVE  b[x] <= b[y]
    <3>1. CASE y <= l - 1
      <4>1. x \in 1 .. l - 1 /\ y \in 1 .. l - 1 /\ x + 1 \in 1 .. l /\ y + 1 \in 1 .. l
            /\ x + 1 <= y + 1
        BY <1>1, <2>5, <3>1
      <4> QED
        BY <1>7, <2>1, <4>1
    <3>2. CASE y > l - 1
      <4>1. b[y] = n + 1
        BY <1>7, <3>2
      <4> QED
        BY <2>4, <4>1
    <3> QED
      BY <1>1, <1>2, <1>4, <3>1, <3>2
  <2>6. ASSUME NEW i \in 1 .. n + 1, NEW x \in 1 .. Len(q2)
        PROVE  mm[i] <= b[x]
    <3>1. mm[i] <= a[1] /\ a[1] <= b[x] /\ mm[i] \in Nat /\ b[x] \in Nat
      BY <2>2, <2>4
    <3> QED
      BY <1>10, <3>1
  <2> QED
    BY <1>3, <2>3, <2>5, <2>6 DEF InOrder
<1>15. NoneForgotten(D, o2, q2, s \cup {h}, b)
  <2> SUFFICES ASSUME NEW j \in 0 .. n + 1, NEW p \in Package, Asks(D, o2, j, p),
                      p \notin s \cup {h}
               PROVE  \E x \in 1 .. Len(q2) : q2[x] = p /\ b[x] <= j
    BY <1>3 DEF NoneForgotten
  <2>1. CASE j = n + 1
    <3>1. p \in Range(d)
      BY <1>9, <2>1
    <3>2. PICK k \in 1 .. Len(d) : d[k] = p
      BY <1>8, <3>1 DEF Range
    <3>3. l - 1 + k \in 1 .. Len(q2) /\ l - 1 + k > l - 1 /\ (l - 1 + k) - (l - 1) = k
      BY <1>1, <1>2, <1>4
    <3>4. q2[l - 1 + k] = p /\ b[l - 1 + k] = n + 1
      BY <1>4, <1>7, <3>2, <3>3
    <3> QED
      BY <1>2, <2>1, <3>3, <3>4
  <2>2. CASE j # n + 1
    <3>1. j \in 0 .. n /\ Asks(D, o, j, p)
      BY <1>2, <1>9, <2>2
    <3>2. PICK x \in 1 .. l : q[x] = p /\ a[x] <= j
      BY <1>5, <3>1 DEF NoneForgotten, n, l
    <3>3. x # 1
      BY <3>2 DEF h
    <3>4. x - 1 \in 1 .. l - 1 /\ (x - 1) + 1 = x /\ x - 1 \in 1 .. Len(q2)
      BY <1>1, <1>2, <1>4, <3>3
    <3> QED
      BY <1>4, <1>7, <3>2, <3>4
  <2> QED
    BY <2>1, <2>2
<1>16. FirstAskers(D, o2, q2, s \cup {h}, mm, b)
  BY <1>3, <1>6, <1>7, <1>12, <1>13, <1>14, <1>15 DEF FirstAskers
<1> QED
  BY <1>1, <1>16 DEF o2, q2, t, d

----------------------------------------------------------------------------
(* What resolve has looked at.                                              *)

AllDeps == [p \in DOMAIN index |-> Deps(p)]

\* Inductive: while resolve runs, what was looked at and is in the index was taken or
\* is there already; each package taken has a first asker, in order; and whatever is
\* asked for was looked at or is queued.
SeenInv ==
    pc \in {"resolve", "download", "done"} =>
        /\ BasePkgs \subseteq seen
        /\ seen \cap DOMAIN index \subseteq BasePkgs \cup Range(ordered)
        /\ Range(ordered) \cap BasePkgs = {}
        /\ pc # "resolve" => queue = <<>>
        /\ \E m, a : FirstAskers(AllDeps, ordered, queue, seen, m, a)

LEMMA AllDepsType ==
    ASSUME index \in Indexes
    PROVE  AllDeps \in [DOMAIN index -> Seq(Package)] /\ DOMAIN index \in SUBSET Package
BY DepsType DEF AllDeps

LEMMA SeenInvariant == Spec => []SeenInv
<1> USE DEF resolveVars, downloadVars
<1>1. Init => SeenInv
  BY DEF Init, SeenInv
<1>2. TypeOK /\ RunOK /\ SeenInv /\ [Next]_vars => SeenInv'
  <2> SUFFICES ASSUME TypeOK, RunOK, SeenInv, Next \/ UNCHANGED vars
               PROVE  SeenInv'
    OBVIOUS
  <2>0. ASSUME index' = index
        PROVE  AllDeps' = AllDeps
    BY <2>0 DEF AllDeps, Deps
  <2>1. CASE Start \/ IndexFails \/ FetchFails
    <3>1. pc' \in {"index", "failed"}
      BY <2>1 DEF Start, IndexFails, FetchFails, AfterFailedFetch, Fail
    <3> QED
      BY <3>1 DEF SeenInv
  <2>2. CASE IndexFetched
    <3>1. /\ index' = index /\ pc' = "resolve"
          /\ queue' = Roots /\ seen' = BasePkgs /\ ordered' = <<>>
      BY <2>2 DEF IndexFetched
    <3>2. Range(<<>>) = {} /\ Len(<<>>) = 0
      BY DEF Range
    <3>3. FirstAskers(AllDeps, <<>>, Roots, BasePkgs, <<>>, [x \in 1 .. Len(Roots) |-> 0])
      <4> DEFINE a == [x \in 1 .. Len(Roots) |-> 0]
      <4>1. Roots \in Seq(Package) /\ Len(Roots) \in Nat /\ DOMAIN Roots = 1 .. Len(Roots)
        BY IndexAssumption, LenProperties
      <4>2. a \in [1 .. Len(Roots) -> Nat] /\ \A x \in 1 .. Len(Roots) : a[x] = 0
        OBVIOUS
      <4> HIDE DEF a
      <4>3. <<>> \in [1 .. Len(<<>>) -> Nat] /\ 1 .. Len(<<>>) = {} /\ 0 .. Len(<<>>) = {0}
        BY <3>2
      <4>4. \A p : Asks(AllDeps, <<>>, 0, p) <=> p \in Range(Roots)
        BY DEF Asks
      <4>5. TakenFor(AllDeps, <<>>, <<>>) /\ InOrder(<<>>, Roots, <<>>, a)
        BY <4>2, <4>3 DEF TakenFor, InOrder
      <4>6. QueuedFor(AllDeps, <<>>, Roots, a)
        BY <3>2, <4>1, <4>2, <4>4 DEF QueuedFor, Range
      <4>7. NoneForgotten(AllDeps, <<>>, Roots, BasePkgs, a)
        BY <4>1, <4>2, <4>3, <4>4 DEF NoneForgotten, Range
      <4> QED
        BY <4>2, <4>3, <4>5, <4>6, <4>7 DEF FirstAskers, a
    <3>4. \E m, a : FirstAskers(AllDeps', ordered', queue', seen', m, a)
      BY <2>0, <3>1, <3>3
    <3> QED
      BY <3>1, <3>2, <3>4 DEF SeenInv
  <2>3. CASE Resolve
    <3>1. /\ pc = "resolve" /\ queue # <<>> /\ pc' = "resolve" /\ index' = index
          /\ AllDeps' = AllDeps
      BY <2>0, <2>3 DEF Resolve
    <3>2. /\ queue \in Seq(Package) /\ ordered \in Seq(DOMAIN index) /\ Len(ordered) \in Nat
          /\ AllDeps \in [DOMAIN index -> Seq(Package)] /\ DOMAIN index \in SUBSET Package
      BY AllDepsType, LenProperties DEF TypeOK
    <3>3. /\ BasePkgs \subseteq seen
          /\ seen \cap DOMAIN index \subseteq BasePkgs \cup Range(ordered)
          /\ Range(ordered) \cap BasePkgs = {}
      BY <3>1 DEF SeenInv
    <3>4. PICK m, a : FirstAskers(AllDeps, ordered, queue, seen, m, a)
      BY <3>1 DEF SeenInv
    <3>5. \E b : FirstAskers(AllDeps, ordered, Tail(queue), seen \cup {Head(queue)}, m, b)
      BY <3>1, <3>2, <3>4, OffTheQueue
    <3>6. CASE Skip
      <4>1. queue' = Tail(queue) /\ seen' = seen \cup {Head(queue)} /\ ordered' = ordered
        BY <3>6 DEF Skip, AfterSkip
      <4>2. \E m1, a1 : FirstAskers(AllDeps', ordered', queue', seen', m1, a1)
        BY <3>1, <3>5, <4>1
      <4>3. Head(queue) \in seen
        BY <3>6 DEF Skip
      <4> QED
        BY <3>1, <3>3, <4>1, <4>2, <4>3 DEF SeenInv
    <3>7. CASE Missing
      <4>1. queue' = Tail(queue) /\ seen' = seen \cup {Head(queue)} /\ ordered' = ordered
        BY <3>7 DEF Missing, SeenWith
      <4>2. \E m1, a1 : FirstAskers(AllDeps', ordered', queue', seen', m1, a1)
        BY <3>1, <3>5, <4>1
      <4>3. Head(queue) \notin DOMAIN index
        BY <3>7 DEF Missing
      <4> QED
        BY <3>1, <3>3, <4>1, <4>2, <4>3 DEF SeenInv
    <3>8. CASE Take
      <4>1. /\ Head(queue) \in DOMAIN index /\ Head(queue) \notin seen
            /\ queue' = Tail(queue) \o Deps(Head(queue)) /\ seen' = seen \cup {Head(queue)}
            /\ ordered' = Append(ordered, Head(queue))
        BY <3>8 DEF Take, SeenWith
      <4>2. AllDeps[Head(queue)] = Deps(Head(queue))
        BY <4>1 DEF AllDeps
      <4>3. \E m1, a1 : FirstAskers(AllDeps, Append(ordered, Head(queue)),
                            Tail(queue) \o AllDeps[Head(queue)], seen \cup {Head(queue)}, m1, a1)
        BY <3>1, <3>2, <3>4, <4>1, TakenNext
      <4>4. \E m1, a1 : FirstAskers(AllDeps', ordered', queue', seen', m1, a1)
        BY <3>1, <4>1, <4>2, <4>3
      <4>5. Range(ordered') = Range(ordered) \cup {Head(queue)}
        BY <3>2, <4>1, RangeAppend
      <4> QED
        BY <3>1, <3>3, <4>1, <4>4, <4>5 DEF SeenInv
    <3> QED
      BY <2>3, <3>6, <3>7, <3>8 DEF Resolve
  <2>4. CASE Resolved
    <3>1. pc = "resolve" /\ pc' = "download" /\ queue = <<>>
          /\ UNCHANGED <<index, queue, seen, ordered>>
      BY <2>4 DEF Resolved
    <3> QED
      BY <2>0, <3>1 DEF SeenInv
  <2>5. CASE Cached \/ Fetch \/ Printed
    <3>1. pc = "download" /\ pc' \in {"download", "done"}
          /\ UNCHANGED <<index, queue, seen, ordered>>
      BY <2>5 DEF Cached, Fetch, Printed, Downloading
    <3> QED
      BY <2>0, <3>1 DEF SeenInv
  <2>6. CASE UNCHANGED vars
    <3>1. UNCHANGED <<pc, index, queue, seen, ordered>>
      BY <2>6 DEF vars
    <3> QED
      BY <2>0, <3>1 DEF SeenInv
  <2> QED
    BY <2>1, <2>2, <2>3, <2>4, <2>5, <2>6 DEF Next
<1> QED
  BY <1>1, <1>2, TypesAndRun, PTL DEF Spec

LEMMA MinIs ==
    ASSUME NEW S \in SUBSET Nat, NEW x \in S, \A y \in S : x <= y
    PROVE  Min(S) = x
<1>1. Min(S) \in S /\ \A y \in S : Min(S) <= y
  BY Zenon DEF Min
<1>2. Min(S) \in Nat /\ x \in Nat /\ Min(S) <= x /\ x <= Min(S)
  BY <1>1
<1> HIDE DEF Min
<1> QED
  BY <1>2

\* Whatever the index is like, what resolve hands over is installable and just what is
\* needed, in breadth-first order.
THEOREM NeededResolved == Spec => []ResolvesNeeded
<1>1. TypeOK /\ SeenInv => ResolvesNeeded
  <2> SUFFICES ASSUME TypeOK, SeenInv, pc \in {"download", "done"}
               PROVE  Installable /\ BreadthFirst
    BY DEF ResolvesNeeded
  <2> DEFINE n == Len(ordered)
  <2>1. PICK m, a : FirstAskers(AllDeps, ordered, <<>>, seen, m, a)
    BY DEF SeenInv
  <2>2. /\ n \in Nat /\ DOMAIN ordered = 1 .. n
        /\ \A i \in 1 .. n : ordered[i] \in DOMAIN index
    BY LenProperties, ElementOfSeq DEF TypeOK
  <2>3. /\ DOMAIN index \in SUBSET Package
        /\ \A p \in DOMAIN index : AllDeps[p] = Deps(p)
    BY AllDepsType DEF AllDeps, TypeOK
  <2>4. /\ seen \cap DOMAIN index \subseteq BasePkgs \cup Range(ordered)
        /\ Range(ordered) \cap BasePkgs = {}
    BY DEF SeenInv
  <2>5. /\ \A p : Asks(AllDeps, ordered, 0, p) <=> p \in Range(Roots)
        /\ \A j \in 1 .. n : \A p : Asks(AllDeps, ordered, j, p) <=> p \in Range(Deps(ordered[j]))
    BY <2>2, <2>3 DEF Asks
  <2>6. \A j \in 0 .. n, p \in Package : Asks(AllDeps, ordered, j, p) => p \in seen
    <3>1. Len(<<>>) = 0
      OBVIOUS
    <3>2. 1 .. Len(<<>>) = {}
      BY <3>1
    <3> QED
      BY <2>1, <3>2 DEF FirstAskers, NoneForgotten, n
  <2>7. Installable
    <3>1. ASSUME NEW p \in Range(Roots), p \in DOMAIN index
          PROVE  p \in BasePkgs \cup Range(ordered)
      <4>1. Asks(AllDeps, ordered, 0, p) /\ 0 \in 0 .. n
        BY <2>2, <2>5
      <4> QED
        BY <2>3, <2>4, <2>6, <3>1, <4>1
    <3>2. ASSUME NEW p \in Range(ordered), NEW i \in DOMAIN index[p],
                 Unmet(index[p][i]), index[p][i][1] \in DOMAIN index
          PROVE  FALSE
      <4>1. PICK j \in 1 .. n : ordered[j] = p
        BY <2>2 DEF Range
      <4>2. p \in DOMAIN index
        BY <2>2, <4>1
      <4>3. /\ Deps(p) \in Seq(Package) /\ Deps(p)[i] = index[p][i][1]
            /\ i \in 1 .. Len(Deps(p)) /\ 1 \in DOMAIN index[p][i]
        BY <4>2, DepsType DEF TypeOK
      <4>4. index[p][i][1] \in Range(Deps(p))
        BY <4>3, LenProperties DEF Range
      <4>5. Asks(AllDeps, ordered, j, index[p][i][1]) /\ j \in 0 .. n
        BY <2>2, <2>5, <4>1, <4>4
      <4>6. index[p][i][1] \in BasePkgs \cup Range(ordered)
        BY <2>3, <2>4, <2>6, <3>2, <4>5
      <4> QED
        BY <3>2, <4>3, <4>6 DEF Unmet
    <3> QED
      BY <3>1, <3>2 DEF Installable
  <2>8. ASSUME NEW i \in 1 .. n
        PROVE  m[i] \in Askers(i) /\ Min(Askers(i)) = m[i] /\ m[i] < i
    <3>1. Askers(i) = {j \in 0 .. n : Asks(AllDeps, ordered, j, ordered[i])}
      <4>1. \A j : j \in Askers(i) <=> j \in 0 .. n /\ Asks(AllDeps, ordered, j, ordered[i])
        <5>1. \A j : j \in 0 .. n <=> j = 0 \/ j \in 1 .. n
          BY <2>2
        <5>2. ~(0 \in 1 .. n)
          OBVIOUS
        <5> HIDE DEF n
        <5>3. Askers(i) = {j \in 1 .. n : ordered[i] \in Range(Deps(ordered[j]))}
                              \cup (IF ordered[i] \in Range(Roots) THEN {0} ELSE {})
          BY DEF Askers, n
        <5> QED
          BY <2>5, <5>1, <5>2, <5>3
      <4> QED
        BY <4>1
    <3>2. /\ m[i] < i /\ Asks(AllDeps, ordered, m[i], ordered[i]) /\ m[i] \in Nat
          /\ \A j \in 0 .. n : Asks(AllDeps, ordered, j, ordered[i]) => m[i] <= j
      BY <2>1 DEF FirstAskers, TakenFor, n
    <3>3. m[i] \in 0 .. n
      BY <2>2, <3>2
    <3>4. m[i] \in Askers(i) /\ (\A j \in Askers(i) : m[i] <= j) /\ Askers(i) \in SUBSET Nat
      BY <3>1, <3>2, <3>3
    <3> QED
      BY <3>2, <3>4, MinIs
  <2>9. BreadthFirst
    <3> SUFFICES ASSUME NEW i \in 1 .. n
                 PROVE  /\ ordered[i] \notin BasePkgs
                        /\ Askers(i) # {} /\ Min(Askers(i)) < i
                        /\ \A k \in 1 .. i : Min(Askers(k)) <= Min(Askers(i))
      BY DEF BreadthFirst
    <3>1. ordered[i] \notin BasePkgs
      BY <2>2, <2>4 DEF Range
    <3>2. ASSUME NEW k \in 1 .. i
          PROVE  Min(Askers(k)) <= Min(Askers(i))
      <4>1. k \in 1 .. n /\ k <= i
        BY <2>2
      <4>2. m[k] <= m[i]
        BY <2>1, <4>1 DEF FirstAskers, InOrder, n
      <4> QED
        BY <2>8, <4>1, <4>2
    <3> QED
      BY <2>8, <3>1, <3>2
  <2> QED
    BY <2>7, <2>9
<1> QED
  BY <1>1, SeenInvariant, TypesAndRun, PTL
=============================================================================
