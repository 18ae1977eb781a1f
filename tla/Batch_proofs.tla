----------------------------- MODULE Batch_proofs -----------------------------
(***************************************************************************)
(* Proofs about the two programs that analyse many files.                  *)
(*                                                                         *)
(* FolderScan, for every folder, every nesting of archives and all limits: *)
(* every file that entered the heap is in exactly one place, and the work  *)
(* of a scan stays within its limits and is done once.                     *)
(*                                                                         *)
(* Bench, for every manifest, machine and answer of the tools: the gates   *)
(* of the benchmark say nothing that its cases do not bear out.            *)
(***************************************************************************)
EXTENDS FolderScan, Bench, TLAPS, FiniteSetTheorems, FunctionTheorems, SequenceTheorems

-----------------------------------------------------------------------------
(* Induction                                                               *)

\* Induction over the natural numbers with the induction hypothesis as a set:
\* if the set misses x, adding one maps what it has below x into itself, without
\* ever reaching 0.
LEMMA NatSetInduction ==
    ASSUME NEW P \in SUBSET Nat, 0 \in P, \A n \in P : n + 1 \in P
    PROVE  P = Nat
<1> SUFFICES ASSUME NEW x \in Nat, x \notin P PROVE FALSE
  OBVIOUS
<1> DEFINE Q == {n \in 0..x : n \in P}
           f == [n \in Q |-> n + 1]
<1>1. \A n \in Q : n \in Nat /\ n + 1 \in Q
  <2> SUFFICES ASSUME NEW n \in Q PROVE n \in Nat /\ n + 1 \in Q
    OBVIOUS
  <2>1. n \in 0..x /\ n \in P /\ n # x
    OBVIOUS
  <2>2. n + 1 \in 0..x
    BY <2>1
  <2> QED BY <2>1, <2>2
<1>2. IsFiniteSet(Q)
  <2>1. IsFiniteSet(0..x)
    BY FS_Interval
  <2>2. Q \subseteq 0..x
    OBVIOUS
  <2> QED BY <2>1, <2>2, FS_Subset
<1> HIDE DEF Q
<1>3. f \in [Q -> Q] /\ \A m, n \in Q : f[m] = f[n] => m = n
  BY <1>1
<1>4. f \in Injection(Q, Q)
  BY <1>3, Fun_IsInj
<1>5. f \in Surjection(Q, Q)
  BY <1>2, <1>4, FS_Injection
<1>6. 0 \in Q
  BY DEF Q
<1>7. PICK n \in Q : f[n] = 0
  BY <1>5, <1>6 DEF Surjection
<1> QED BY <1>1, <1>7

-----------------------------------------------------------------------------
(* The rounds over a list of files                                         *)

\* The n-th file of a list is offered if it is there.
Round1(h, where, files, there, level, reports, n) ==
    IF files[n] \in there THEN Offer(h, Item(where, files[n], level), reports) ELSE h

\* g holds the heap after each of the first m rounds.
Rounds(g, h, where, files, there, level, reports, m) ==
    g = [n \in 0..m |-> IF n = 0 THEN h ELSE Round1(g[n - 1], where, files, there, level, reports, n)]

LEMMA RoundsExist ==
    ASSUME NEW h, NEW where, NEW files, NEW there, NEW level, NEW reports, NEW m \in Nat
    PROVE  \E g : Rounds(g, h, where, files, there, level, reports, m)
<1> DEFINE R(g, n) == Rounds(g, h, where, files, there, level, reports, n)
           P == {n \in Nat : \E g : R(g, n)}
<1>1. 0 \in P
  <2> DEFINE g == [n \in 0..0 |-> h]
  <2>1. R(g, 0)
    <3>1. \A n \in 0..0 : n = 0
      OBVIOUS
    <3> QED BY <3>1 DEF Rounds
  <2> QED BY <2>1
<1>2. ASSUME NEW n \in P PROVE n + 1 \in P
  <2>1. PICK g : R(g, n)
    OBVIOUS
  <2> DEFINE e == Round1(g[n], where, files, there, level, reports, n + 1)
             gg == [i \in 0..(n + 1) |-> IF i = n + 1 THEN e ELSE g[i]]
  <2>2. n \in Nat
    OBVIOUS
  <2>3. \A i \in 0..n : g[i] = IF i = 0 THEN h ELSE Round1(g[i - 1], where, files, there, level, reports, i)
    BY <2>1 DEF Rounds
  <2> HIDE DEF e
  <2>4. ASSUME NEW i \in 0..(n + 1)
        PROVE  gg[i] = IF i = 0 THEN h ELSE Round1(gg[i - 1], where, files, there, level, reports, i)
    <3>1. CASE i = n + 1
      <4>1. gg[i] = e /\ gg[n] = g[n] /\ i # 0 /\ i - 1 = n
        BY <2>2, <3>1
      <4> QED BY <3>1, <4>1 DEF e
    <3>2. CASE i # n + 1 /\ i # 0
      <4>1. i \in 0..n /\ i - 1 \in 0..(n + 1) /\ i - 1 # n + 1
        BY <2>2, <3>2
      <4>2. gg[i] = g[i] /\ gg[i - 1] = g[i - 1]
        BY <3>2, <4>1
      <4> QED BY <2>3, <3>2, <4>1, <4>2
    <3>3. CASE i = 0
      <4>1. 0 \in 0..n /\ 0 # n + 1
        BY <2>2
      <4> QED BY <2>3, <3>3, <4>1
    <3> QED BY <3>1, <3>2, <3>3
  <2>5. R(gg, n + 1)
    BY <2>4 DEF Rounds
  <2> QED BY <2>2, <2>5
<1>3. P = Nat
  <2>1. P \in SUBSET Nat
    OBVIOUS
  <2> HIDE DEF P
  <2> QED BY <1>1, <1>2, <2>1, NatSetInduction
<1> QED BY <1>3

\* OfferAll is the heap after the last round.
LEMMA OfferAllRounds ==
    ASSUME NEW h, NEW where, NEW files, Len(files) \in Nat, NEW there, NEW level, NEW reports
    PROVE  \E g : /\ Rounds(g, h, where, files, there, level, reports, Len(files))
                  /\ OfferAll(h, where, files, there, level, reports) = g[Len(files)]
<1> DEFINE g == CHOOSE f : f = [n \in 0..Len(files) |->
                    IF n = 0 THEN h
                    ELSE IF files[n] \in there THEN Offer(f[n - 1], Item(where, files[n], level), reports)
                    ELSE f[n - 1]]
<1>1. \E f : Rounds(f, h, where, files, there, level, reports, Len(files))
  BY RoundsExist
<1>2. Rounds(g, h, where, files, there, level, reports, Len(files))
  BY <1>1 DEF Rounds, Round1
<1>3. OfferAll(h, where, files, there, level, reports) = g[Len(files)]
  BY DEF OfferAll
<1> QED BY <1>2, <1>3

\* Induction over the subsets of a finite set, in the same form.
LEMMA SetInduction ==
    ASSUME NEW S, IsFiniteSet(S), NEW P \in SUBSET SUBSET S, {} \in P,
           \A T \in P : \A x \in S \ T : T \cup {x} \in P
    PROVE  S \in P
<1> DEFINE N == {n \in Nat : \A T \in SUBSET S : Cardinality(T) = n => T \in P}
<1>1. 0 \in N
  BY FS_Subset, FS_EmptySet
<1>2. ASSUME NEW n \in N PROVE n + 1 \in N
  <2>1. ASSUME NEW T \in SUBSET S, Cardinality(T) = n + 1 PROVE T \in P
    <3>1. IsFiniteSet(T)
      BY FS_Subset
    <3>2. n \in Nat /\ T # {}
      <4>1. n \in Nat /\ n + 1 # 0
        OBVIOUS
      <4>2. Cardinality({}) = 0
        BY FS_EmptySet
      <4> QED BY <2>1, <4>1, <4>2
    <3>3. PICK x \in T : TRUE
      BY <3>2
    <3>4. Cardinality(T \ {x}) = n
      <4>1. Cardinality(T \ {x}) = Cardinality(T) - 1
        BY <3>1, <3>3, FS_RemoveElement
      <4> QED BY <2>1, <3>2, <4>1
    <3>5. T \ {x} \in P /\ x \in S \ (T \ {x}) /\ T = (T \ {x}) \cup {x}
      BY <3>4
    <3> QED BY <3>5
  <2> QED BY <2>1
<1>3. N = Nat
  <2>1. N \in SUBSET Nat
    OBVIOUS
  <2> HIDE DEF N
  <2> QED BY <1>1, <1>2, <2>1, NatSetInduction
<1>4. Cardinality(S) \in N
  BY <1>3, FS_CardinalityType
<1> QED BY <1>4

-----------------------------------------------------------------------------
(* Sums                                                                    *)

\* The sum of one set, from those of smaller ones.
SumFrom(g, f, s) ==
    IF s = {} THEN 0 ELSE f[CHOOSE x \in s : TRUE] + g[s \ {CHOOSE x \in s : TRUE}]

\* g holds the sum of f over every subset of S.
Sums(g, f, S) == g = [s \in SUBSET S |-> SumFrom(g, f, s)]

LEMMA SumsExist ==
    ASSUME NEW f, NEW S, IsFiniteSet(S)
    PROVE  \E g : Sums(g, f, S)
<1> DEFINE E(g, n) == \A s \in SUBSET S : Cardinality(s) <= n => g[s] = SumFrom(g, f, s)
           P == {n \in Nat : \E g : g = [s \in SUBSET S |-> g[s]] /\ E(g, n)}
<1>0. \A s \in SUBSET S : IsFiniteSet(s) /\ Cardinality(s) \in Nat
  BY FS_Subset, FS_CardinalityType
<1>1. 0 \in P
  <2> DEFINE g == [s \in SUBSET S |-> 0]
  <2>1. ASSUME NEW s \in SUBSET S, Cardinality(s) <= 0 PROVE g[s] = SumFrom(g, f, s)
    <3>1. s = {}
      BY <1>0, <2>1, FS_EmptySet
    <3> QED BY <3>1 DEF SumFrom
  <2> HIDE DEF SumFrom
  <2>2. g = [s \in SUBSET S |-> g[s]] /\ E(g, 0)
    BY <2>1
  <2> QED BY <2>2
<1>2. ASSUME NEW n \in P PROVE n + 1 \in P
  <2>1. PICK g : g = [s \in SUBSET S |-> g[s]] /\ E(g, n)
    OBVIOUS
  <2>2. n \in Nat
    OBVIOUS
  <2> DEFINE gg == [s \in SUBSET S |-> IF Cardinality(s) = n + 1 THEN SumFrom(g, f, s) ELSE g[s]]
  <2>3. ASSUME NEW s \in SUBSET S, Cardinality(s) <= n + 1 PROVE gg[s] = SumFrom(gg, f, s)
    <3>1. gg[s] = SumFrom(g, f, s)
      <4>1. CASE Cardinality(s) = n + 1
        BY <4>1
      <4>2. CASE Cardinality(s) # n + 1
        <5>1. Cardinality(s) <= n
          BY <1>0, <2>2, <2>3, <4>2
        <5>2. gg[s] = g[s]
          BY <4>2
        <5> QED BY <2>1, <5>1, <5>2
      <4> QED BY <4>1, <4>2
    <3>2. CASE s = {}
      BY <3>1, <3>2 DEF SumFrom
    <3>3. CASE s # {}
      <4> DEFINE x == CHOOSE y \in s : TRUE
      <4>1. x \in s
        BY <3>3
      <4> HIDE DEF x
      <4>2. Cardinality(s \ {x}) = Cardinality(s) - 1
        BY <1>0, <4>1, FS_RemoveElement
      <4>3. Cardinality(s \ {x}) # n + 1
        BY <1>0, <2>2, <2>3, <4>2
      <4>4. gg[s \ {x}] = g[s \ {x}]
        BY <4>3
      <4> QED BY <3>1, <4>4 DEF SumFrom, x
    <3> QED BY <3>2, <3>3
  <2>4. gg = [s \in SUBSET S |-> gg[s]]
    OBVIOUS
  <2> HIDE DEF gg
  <2>5. E(gg, n + 1)
    BY <2>3
  <2>6. n + 1 \in Nat
    BY <2>2
  <2>7. \E h : h = [s \in SUBSET S |-> h[s]] /\ E(h, n + 1)
    BY <2>4, <2>5
  <2> HIDE DEF E
  <2> QED BY <2>6, <2>7
<1>3. P = Nat
  <2>1. P \in SUBSET Nat
    OBVIOUS
  <2> HIDE DEF P
  <2> QED BY <1>1, <1>2, <2>1, NatSetInduction
<1>4. Cardinality(S) \in P
  BY <1>3, FS_CardinalityType
<1>5. PICK g : g = [s \in SUBSET S |-> g[s]] /\ E(g, Cardinality(S))
  BY <1>4
<1>6. \A s \in SUBSET S : g[s] = SumFrom(g, f, s)
  BY <1>5, FS_Subset
<1>7. Sums(g, f, S)
  BY <1>5, <1>6 DEF Sums
<1> QED BY <1>7

\* SumFunction is the sum over the whole domain.
LEMMA SumFunctionSums ==
    ASSUME NEW f, IsFiniteSet(DOMAIN f)
    PROVE  \E g : Sums(g, f, DOMAIN f) /\ SumFunction(f) = g[DOMAIN f]
<1> DEFINE g == CHOOSE h : h = [s \in SUBSET DOMAIN f |->
                    IF s = {} THEN 0
                    ELSE LET x == CHOOSE y \in s : TRUE IN f[x] + h[s \ {x}]]
<1>1. \E h : Sums(h, f, DOMAIN f)
  BY SumsExist
<1>2. Sums(g, f, DOMAIN f)
  BY <1>1 DEF Sums, SumFrom
<1>3. SumFunction(f) = g[DOMAIN f]
  BY DEF SumFunction, SumFunctionOnSet, FoldFunctionOnSet, MapThenFoldSet
<1> QED BY <1>2, <1>3

\* Which element is taken first makes no difference.
LEMMA SumsTakeAny ==
    ASSUME NEW S, IsFiniteSet(S), NEW f \in [S -> Nat], NEW g, Sums(g, f, S)
    PROVE  \A T \in SUBSET S : g[T] \in Nat /\ \A x \in T : g[T] = f[x] + g[T \ {x}]
<1> DEFINE L(T) == g[T] \in Nat /\ \A x \in T : g[T] = f[x] + g[T \ {x}] /\ g[T \ {x}] \in Nat
           P == {n \in Nat : \A T \in SUBSET S : Cardinality(T) = n => L(T)}
<1>0. \A T \in SUBSET S : IsFiniteSet(T) /\ Cardinality(T) \in Nat /\ g[T] = SumFrom(g, f, T)
  BY FS_Subset, FS_CardinalityType DEF Sums
<1>1. 0 \in P
  <2>1. ASSUME NEW T \in SUBSET S, Cardinality(T) = 0 PROVE L(T)
    <3>1. T = {}
      BY <1>0, <2>1, FS_EmptySet
    <3>2. g[T] = 0
      BY <1>0, <3>1 DEF SumFrom
    <3> QED BY <3>1, <3>2
  <2> QED BY <2>1
<1>2. ASSUME NEW n \in P PROVE n + 1 \in P
  <2>0. n \in Nat /\ n + 1 \in Nat /\ n + 1 # 0 /\ (n + 1) - 1 = n
    OBVIOUS
  <2>1. ASSUME NEW T \in SUBSET S, Cardinality(T) = n + 1 PROVE L(T)
    <3>1. T # {}
      <4>1. Cardinality({}) = 0
        BY FS_EmptySet
      <4> QED BY <2>0, <2>1, <4>1
    <3> DEFINE y == CHOOSE x \in T : TRUE
    <3>2. y \in T
      BY <3>1
    <3>3. g[T] = f[y] + g[T \ {y}]
      BY <1>0, <3>1 DEF SumFrom
    <3> HIDE DEF y
    <3>4. ASSUME NEW x \in T PROVE T \ {x} \in SUBSET S /\ Cardinality(T \ {x}) = n
      <4>1. Cardinality(T \ {x}) = Cardinality(T) - 1
        BY <1>0, FS_RemoveElement
      <4> QED BY <2>0, <2>1, <4>1
    <3>5. \A x \in T : L(T \ {x})
      BY <3>4
    <3>7. g[T] \in Nat
      <4>1. f[y] \in Nat /\ g[T \ {y}] \in Nat
        BY <3>2, <3>5
      <4> QED BY <3>3, <4>1
    <3>8. ASSUME NEW x \in T PROVE g[T] = f[x] + g[T \ {x}]
      <4>1. CASE x = y
        BY <3>3, <4>1
      <4>2. CASE x # y
        <5>1. y \in T \ {x} /\ x \in T \ {y} /\ (T \ {x}) \ {y} = (T \ {y}) \ {x}
          BY <3>2, <4>2
        <5>2. g[T \ {x}] = f[y] + g[(T \ {x}) \ {y}] /\ g[T \ {y}] = f[x] + g[(T \ {y}) \ {x}]
          BY <3>2, <3>5, <5>1
        <5>3. g[(T \ {x}) \ {y}] \in Nat /\ f[x] \in Nat /\ f[y] \in Nat
          BY <3>2, <3>5, <5>1
        <5> DEFINE r == g[(T \ {x}) \ {y}]
                   a == g[T \ {x}]
                   b == g[T \ {y}]
        <5>4. a = f[y] + r /\ b = f[x] + r /\ r \in Nat /\ g[T] = f[y] + b
          BY <3>3, <5>1, <5>2, <5>3
        <5> HIDE DEF r, a, b
        <5>5. g[T] = f[x] + a
          BY <5>3, <5>4
        <5> QED BY <5>5 DEF a
      <4> QED BY <4>1, <4>2
    <3> QED BY <3>5, <3>7, <3>8
  <2> QED BY <2>0, <2>1
<1>3. P = Nat
  <2>1. P \in SUBSET Nat
    OBVIOUS
  <2> HIDE DEF P
  <2> QED BY <1>1, <1>2, <2>1, NatSetInduction
<1> QED BY <1>0, <1>3

\* Sums of functions that agree are equal.
LEMMA SumsAgree ==
    ASSUME NEW S, IsFiniteSet(S), NEW f, NEW g, Sums(g, f, S),
           NEW R \in SUBSET S, NEW e, NEW h, Sums(h, e, R), \A x \in R : e[x] = f[x]
    PROVE  h[R] = g[R]
<1> DEFINE P == {n \in Nat : \A T \in SUBSET R : Cardinality(T) = n => h[T] = g[T]}
<1>0. \A T \in SUBSET R : /\ IsFiniteSet(T) /\ Cardinality(T) \in Nat
                          /\ g[T] = SumFrom(g, f, T) /\ h[T] = SumFrom(h, e, T)
  <2>1. \A T \in SUBSET R : T \in SUBSET S
    OBVIOUS
  <2>2. \A T \in SUBSET R : IsFiniteSet(T) /\ Cardinality(T) \in Nat
    BY <2>1, FS_Subset, FS_CardinalityType
  <2> QED BY <2>1, <2>2 DEF Sums
<1>1. 0 \in P
  <2>1. ASSUME NEW T \in SUBSET R, Cardinality(T) = 0 PROVE h[T] = g[T]
    <3>1. T = {}
      BY <1>0, <2>1, FS_EmptySet
    <3> QED BY <1>0, <3>1 DEF SumFrom
  <2> QED BY <2>1
<1>2. ASSUME NEW n \in P PROVE n + 1 \in P
  <2>0. n \in Nat /\ n + 1 \in Nat /\ n + 1 # 0 /\ (n + 1) - 1 = n
    OBVIOUS
  <2>1. ASSUME NEW T \in SUBSET R, Cardinality(T) = n + 1 PROVE h[T] = g[T]
    <3>1. T # {}
      <4>1. Cardinality({}) = 0
        BY FS_EmptySet
      <4> QED BY <2>0, <2>1, <4>1
    <3> DEFINE y == CHOOSE x \in T : TRUE
    <3>2. y \in T
      BY <3>1
    <3>3. g[T] = f[y] + g[T \ {y}] /\ h[T] = e[y] + h[T \ {y}]
      BY <1>0, <3>1 DEF SumFrom
    <3> HIDE DEF y
    <3>4. Cardinality(T \ {y}) = n
      <4>1. Cardinality(T \ {y}) = Cardinality(T) - 1
        BY <1>0, <3>2, FS_RemoveElement
      <4> QED BY <2>0, <2>1, <4>1
    <3>5. h[T \ {y}] = g[T \ {y}]
      BY <3>4
    <3> QED BY <3>2, <3>3, <3>5
  <2> QED BY <2>0, <2>1
<1>3. P = Nat
  <2>1. P \in SUBSET Nat
    OBVIOUS
  <2> HIDE DEF P
  <2> QED BY <1>1, <1>2, <2>1, NatSetInduction
<1> QED BY <1>0, <1>3

\* The sum of nothing.
LEMMA SumEmpty ==
    ASSUME NEW f, DOMAIN f = {}
    PROVE  SumFunction(f) = 0
<1>1. IsFiniteSet(DOMAIN f)
  BY FS_EmptySet
<1>2. PICK g : Sums(g, f, DOMAIN f) /\ SumFunction(f) = g[DOMAIN f]
  BY <1>1, SumFunctionSums
<1> QED BY <1>2 DEF Sums, SumFrom

\* The sum without one element of the domain.
LEMMA SumTake ==
    ASSUME NEW S, IsFiniteSet(S), NEW f \in [S -> Nat], NEW x \in S
    PROVE  /\ SumFunction(f) \in Nat /\ SumFunction([y \in S \ {x} |-> f[y]]) \in Nat
           /\ SumFunction(f) = f[x] + SumFunction([y \in S \ {x} |-> f[y]])
<1> DEFINE R == S \ {x}
           e == [y \in R |-> f[y]]
<1>1. DOMAIN f = S /\ DOMAIN e = R /\ R \in SUBSET S /\ IsFiniteSet(R)
  BY FS_Subset
<1>2. PICK g : Sums(g, f, S) /\ SumFunction(f) = g[S]
  BY <1>1, SumFunctionSums
<1>3. PICK h : Sums(h, e, R) /\ SumFunction(e) = h[R]
  <2> HIDE DEF e
  <2> QED BY <1>1, SumFunctionSums
<1>4. h[R] = g[R]
  <2>1. \A y \in R : e[y] = f[y]
    OBVIOUS
  <2> HIDE DEF R, e
  <2> QED BY <1>1, <1>2, <1>3, <2>1, SumsAgree
<1>5. g[S] \in Nat /\ g[R] \in Nat /\ g[S] = f[x] + g[R]
  BY <1>1, <1>2, SumsTakeAny
<1> QED BY <1>2, <1>3, <1>4, <1>5

LEMMA SumWithout ==
    ASSUME NEW S, IsFiniteSet(S), NEW f \in [S -> Nat], NEW x \in S,
           NEW T, T = S \ {x}, NEW e, e = [y \in T |-> f[y]]
    PROVE  SumFunction(f) \in Nat /\ SumFunction(e) \in Nat /\ SumFunction(f) = f[x] + SumFunction(e)
BY SumTake

LEMMA SumNat ==
    ASSUME NEW S, IsFiniteSet(S), NEW f \in [S -> Nat]
    PROVE  SumFunction(f) \in Nat
<1>1. CASE S = {}
  BY <1>1, SumEmpty
<1>2. CASE S # {}
  <2>1. PICK x \in S : TRUE
    BY <1>2
  <2> QED BY SumTake
<1> QED BY <1>1, <1>2

\* The sum with one element more.
LEMMA SumOn ==
    ASSUME NEW S, IsFiniteSet(S), NEW f \in [S -> Nat], NEW T \in SUBSET S, NEW x \in S \ T
    PROVE  /\ SumFunction(Restrict(f, T)) \in Nat
           /\ SumFunction(Restrict(f, T \cup {x})) = f[x] + SumFunction(Restrict(f, T))
<1> DEFINE U == T \cup {x}
           k == Restrict(f, U)
           r == Restrict(f, T)
<1>1. IsFiniteSet(T) /\ x \in U /\ U \ {x} = T
  BY FS_Subset
<1>2. IsFiniteSet(U) /\ k \in [U -> Nat] /\ r \in [T -> Nat]
  BY <1>1, FS_AddElement DEF Restrict
<1>3. k[x] = f[x] /\ r = [y \in T |-> k[y]]
  BY DEF Restrict
<1> HIDE DEF k, r, U
<1>4. SumFunction(k) = k[x] + SumFunction([y \in U \ {x} |-> k[y]])
  BY <1>1, <1>2, SumTake
<1>5. SumFunction(r) \in Nat
  BY <1>1, <1>2, SumNat
<1>6. SumFunction(k) = f[x] + SumFunction(r)
  BY <1>1, <1>3, <1>4
<1> QED BY <1>5, <1>6 DEF k, r, U

\* The sum of sums.
LEMMA SumAdd ==
    ASSUME NEW S, IsFiniteSet(S), NEW f \in [S -> Nat], NEW e \in [S -> Nat]
    PROVE  SumFunction([x \in S |-> f[x] + e[x]]) = SumFunction(f) + SumFunction(e)
<1> DEFINE b == [x \in S |-> f[x] + e[x]]
           Both(T) == SumFunction(Restrict(b, T)) = SumFunction(Restrict(f, T)) + SumFunction(Restrict(e, T))
           P == {T \in SUBSET S : Both(T)}
<1>1. Both({})
  <2>1. \A h : DOMAIN Restrict(h, {}) = {}
    BY DEF Restrict
  <2>2. \A h : SumFunction(Restrict(h, {})) = 0
    BY <2>1, SumEmpty
  <2> QED BY <2>2
<1>2. ASSUME NEW T \in SUBSET S, Both(T), NEW x \in S \ T PROVE Both(T \cup {x})
  <2>1. b \in [S -> Nat] /\ b[x] = f[x] + e[x]
    OBVIOUS
  <2> HIDE DEF b
  <2> DEFINE sb == SumFunction(Restrict(b, T))
             sf == SumFunction(Restrict(f, T))
             se == SumFunction(Restrict(e, T))
  <2>2. /\ SumFunction(Restrict(b, T \cup {x})) = b[x] + sb
        /\ SumFunction(Restrict(f, T \cup {x})) = f[x] + sf /\ sf \in Nat /\ f[x] \in Nat
        /\ SumFunction(Restrict(e, T \cup {x})) = e[x] + se /\ se \in Nat /\ e[x] \in Nat
    <3>1. \A h \in [S -> Nat] : /\ SumFunction(Restrict(h, T)) \in Nat
                                /\ SumFunction(Restrict(h, T \cup {x})) = h[x] + SumFunction(Restrict(h, T))
      BY SumOn
    <3>2. f[x] \in Nat /\ e[x] \in Nat
      OBVIOUS
    <3> QED BY <2>1, <3>1, <3>2
  <2>3. sb = sf + se
    BY <1>2
  <2> HIDE DEF sb, sf, se
  <2>4. b[x] + sb = (f[x] + sf) + (e[x] + se)
    BY <2>1, <2>2, <2>3
  <2> QED BY <2>2, <2>4
<1>3. S \in P
  <2> HIDE DEF Both
  <2>1. P \in SUBSET SUBSET S /\ {} \in P /\ \A T \in P : \A x \in S \ T : T \cup {x} \in P
    BY <1>1, <1>2
  <2> HIDE DEF P
  <2> QED BY <2>1, SetInduction
<1>4. Restrict(b, S) = b /\ Restrict(f, S) = f /\ Restrict(e, S) = e
  BY DEF Restrict
<1> HIDE DEF b
<1>5. SumFunction(b) = SumFunction(f) + SumFunction(e)
  BY <1>3, <1>4
<1> QED BY <1>5 DEF b

-----------------------------------------------------------------------------
(* What a round of a loop does to the heap                                 *)

\* Where files are, which files, and their paths.
Where == Contents \cup {Root}
FilesAt(w) == IF w = Root THEN Tree ELSE ToSet(Archived[w])
PathOf(w, f) == <<w, f.name, f.ext>>

FitsLimit(f) == Size[f.content] <= SingleFileByteLimit

\* What the heap holds: a file of the tree or of an archive.
IsItem(i) == \E w \in Where : \E f \in FilesAt(w) : \E l \in 0..ArchiveDepth : i = Item(w, f, l)

Weight(items) == SumFunction([i \in items |-> Size[i.content]])

HeapRec(h) == h = [queue |-> h.queue, enqueued |-> h.enqueued, total |-> h.total,
                   skipped |-> h.skipped, more |-> h.more]

\* A path is offered with the same file each time, so one that entered fits and
\* one that was listed instead does not, or is the root's, which is offered once.
Sound(h) ==
    /\ IsFiniteSet(h.queue) /\ \A i \in h.queue : IsItem(i) /\ i.path \in h.enqueued
    /\ \A i, j \in h.queue : i.path = j.path => i = j
    /\ \A p \in h.enqueued : \E w \in Where : \E f \in FilesAt(w) : p = PathOf(w, f) /\ FitsLimit(f)
    /\ \A p \in h.skipped \ h.enqueued : \E w \in Where : \E f \in FilesAt(w) :
        p = PathOf(w, f) /\ (w = Root \/ ~FitsLimit(f))
    /\ Cardinality(h.queue) <= MaxFiles /\ h.total \in Nat /\ h.total <= MaxBytes

\* How a loop over the files at w makes a heap h out of o; others are archives
\* that were opened.
Grown(o, h, w, level, others) ==
    /\ o.queue \subseteq h.queue /\ o.enqueued \subseteq h.enqueued
    /\ \A i \in h.queue \ o.queue : i.path \notin o.enqueued /\ i.path[1] = w /\ i.level = level
    /\ \A p \in h.enqueued \ o.enqueued : \E i \in h.queue : i.path = p
    /\ h.skipped \cap h.enqueued = o.skipped \cap o.enqueued
    /\ Weight(h.queue \cup others) + o.total = Weight(o.queue \cup others) + h.total

LEMMA OfferIs ==
    ASSUME NEW h, HeapRec(h), NEW i, NEW reports
    PROVE  LET n == Offer(h, i, reports)
           IN  /\ HeapRec(n)
               /\ \/ n = h
                  \/ /\ n.queue = h.queue /\ n.enqueued = h.enqueued /\ n.total = h.total
                     /\ n.skipped = h.skipped \cup {i.path}
                     /\ Size[i.content] > SingleFileByteLimit \/ reports
                  \/ /\ n.queue = h.queue /\ n.enqueued = h.enqueued /\ n.total = h.total
                     /\ n.skipped = h.skipped
                  \/ /\ n.queue = h.queue \cup {i} /\ n.enqueued = h.enqueued \cup {i.path}
                     /\ n.total = h.total + Size[i.content] /\ n.skipped = h.skipped
                     /\ i.path \notin h.enqueued /\ ~(Cardinality(h.queue) >= MaxFiles)
                     /\ ~(Size[i.content] > SingleFileByteLimit) /\ ~(h.total + Size[i.content] > MaxBytes)
BY DEF HeapRec, Offer

LEMMA HeapWithout ==
    ASSUME NEW h, HeapRec(h), NEW i
    PROVE  LET n == [h EXCEPT !.queue = @ \ {i}]
           IN  /\ HeapRec(n) /\ n.queue = h.queue \ {i} /\ n.enqueued = h.enqueued /\ n.total = h.total
               /\ n.skipped = h.skipped
BY DEF HeapRec

\* A path names one file.
LEMMA OneFile ==
    ASSUME NEW v \in Where, NEW f \in FilesAt(v), NEW w \in Where, NEW g \in FilesAt(w),
           PathOf(v, f) = PathOf(w, g)
    PROVE  v = w /\ f = g
BY FolderScanAssumption DEF PathOf, FilesAt, Where, Directory

\* The files are files.
LEMMA FilesAreFiles ==
    ASSUME NEW w \in Where, NEW f \in FilesAt(w)
    PROVE  f \in File /\ f.content \in Contents /\ Size[f.content] \in Nat
<1>1. f \in File
  <2>1. CASE w = Root
    BY <2>1, FolderScanAssumption DEF FilesAt
  <2>2. CASE w # Root
    BY <2>2, FolderScanAssumption DEF FilesAt, Where, ToSet
  <2> QED BY <2>1, <2>2
<1> QED BY <1>1, FolderScanAssumption DEF File

LEMMA ItemsAre ==
    ASSUME NEW i, IsItem(i)
    PROVE  i.content \in Contents /\ i.level \in 0..ArchiveDepth /\ Size[i.content] \in Nat
BY FilesAreFiles DEF IsItem, Item

\* A new item adds its size.
LEMMA WeightAdd ==
    ASSUME NEW S, IsFiniteSet(S), \A j \in S : IsItem(j), NEW i, IsItem(i), i \notin S
    PROVE  Weight(S) \in Nat /\ Weight(S \cup {i}) = Weight(S) + Size[i.content]
<1> DEFINE U == S \cup {i}
           f == [j \in U |-> Size[j.content]]
<1>1. IsFiniteSet(U) /\ S \in SUBSET U /\ i \in U \ S
  BY FS_AddElement
<1>2. f \in [U -> Nat] /\ f[i] = Size[i.content] /\ Size[i.content] \in Nat
  BY ItemsAre
<1>3. Restrict(f, S) = [j \in S |-> Size[j.content]] /\ Restrict(f, U) = f
  BY DEF Restrict
<1>4. SumFunction(Restrict(f, S)) \in Nat /\ SumFunction(Restrict(f, S \cup {i})) = f[i] + SumFunction(Restrict(f, S))
  <2> HIDE DEF f, U
  <2> QED BY <1>1, <1>2, SumOn
<1> DEFINE s == SumFunction(Restrict(f, S))
<1>5. Weight(S) = s /\ Weight(U) = f[i] + s /\ s \in Nat
  BY <1>3, <1>4 DEF Weight
<1> HIDE DEF s, f
<1> QED BY <1>2, <1>5

\* A round keeps a sound heap sound and is part of the growth of its loop.
LEMMA OfferKeeps ==
    ASSUME NEW o, NEW h, HeapRec(h), Sound(h), NEW w \in Where, NEW f \in FilesAt(w),
           NEW level \in 0..ArchiveDepth, NEW reports \in BOOLEAN,
           NEW others, IsFiniteSet(others), \A j \in others : IsItem(j) /\ j.path \in o.enqueued,
           o.total \in Nat, Weight(o.queue \cup others) \in Nat,
           Grown(o, h, w, level, others),
           IF reports THEN w = Root /\ PathOf(w, f) \notin h.enqueued \cup h.skipped ELSE w # Root
    PROVE  LET n == Offer(h, Item(w, f, level), reports)
           IN  /\ HeapRec(n) /\ Sound(n) /\ Grown(o, n, w, level, others)
               /\ n.enqueued \cup n.skipped \subseteq h.enqueued \cup h.skipped \cup {PathOf(w, f)}
<1> DEFINE i == Item(w, f, level)
           n == Offer(h, i, reports)
           p == PathOf(w, f)
<1>1. i.path = p /\ i.path[1] = w /\ i.content = f.content /\ i.level = level /\ IsItem(i)
  BY DEF Item, PathOf, IsItem
<1>2. Size[f.content] \in Nat /\ SingleFileByteLimit \in Nat /\ MaxFiles \in Nat /\ MaxBytes \in Nat
  BY FilesAreFiles, FolderScanAssumption
<1> HIDE DEF i, p
<1>3. /\ HeapRec(n)
      /\ \/ n = h
         \/ /\ n.queue = h.queue /\ n.enqueued = h.enqueued /\ n.total = h.total
            /\ n.skipped = h.skipped \cup {i.path}
            /\ Size[i.content] > SingleFileByteLimit \/ reports
         \/ /\ n.queue = h.queue /\ n.enqueued = h.enqueued /\ n.total = h.total
            /\ n.skipped = h.skipped
         \/ /\ n.queue = h.queue \cup {i} /\ n.enqueued = h.enqueued \cup {i.path}
            /\ n.total = h.total + Size[i.content] /\ n.skipped = h.skipped
            /\ i.path \notin h.enqueued /\ ~(Cardinality(h.queue) >= MaxFiles)
            /\ ~(Size[i.content] > SingleFileByteLimit) /\ ~(h.total + Size[i.content] > MaxBytes)
  BY OfferIs
<1> HIDE DEF n
<1> SUFFICES Sound(n) /\ Grown(o, n, w, level, others) /\ n.enqueued \cup n.skipped \subseteq h.enqueued \cup h.skipped \cup {p}
  BY <1>3 DEF n, i, p
<1>4. CASE n = h
  BY <1>4
<1>5. CASE /\ n.queue = h.queue /\ n.enqueued = h.enqueued /\ n.total = h.total
           /\ n.skipped = h.skipped \cup {i.path}
           /\ Size[i.content] > SingleFileByteLimit \/ reports
  <2>1. p \notin h.enqueued /\ (w = Root \/ ~FitsLimit(f))
    <3>1. CASE reports
      BY <3>1 DEF p
    <3>2. CASE Size[f.content] > SingleFileByteLimit
      <4>1. ~FitsLimit(f)
        BY <1>2, <3>2 DEF FitsLimit
      <4>2. ASSUME p \in h.enqueued PROVE FALSE
        <5>1. PICK v \in Where : \E g \in FilesAt(v) : p = PathOf(v, g) /\ FitsLimit(g)
          BY <4>2 DEF Sound
        <5>2. PICK g \in FilesAt(v) : p = PathOf(v, g) /\ FitsLimit(g)
          BY <5>1
        <5>3. f = g
          BY <5>2, OneFile DEF p
        <5> QED BY <4>1, <5>2, <5>3
      <4> QED BY <4>1, <4>2
    <3> QED BY <1>1, <1>5, <3>1, <3>2
  <2>2. Sound(n)
    <3>1. \A q \in n.skipped \ n.enqueued : \E v \in Where : \E g \in FilesAt(v) :
            q = PathOf(v, g) /\ (v = Root \/ ~FitsLimit(g))
      <4>1. ASSUME NEW q \in n.skipped \ n.enqueued, q # p
            PROVE  \E v \in Where : \E g \in FilesAt(v) : q = PathOf(v, g) /\ (v = Root \/ ~FitsLimit(g))
        <5>1. q \in h.skipped \ h.enqueued
          BY <1>1, <1>5, <4>1
        <5> QED BY <5>1 DEF Sound
      <4>2. \E v \in Where : \E g \in FilesAt(v) : p = PathOf(v, g) /\ (v = Root \/ ~FitsLimit(g))
        BY <2>1 DEF p
      <4> QED BY <4>1, <4>2
    <3> QED BY <1>5, <3>1 DEF Sound
  <2>3. n.skipped \cap n.enqueued = h.skipped \cap h.enqueued
    BY <1>1, <1>5, <2>1
  <2>4. Grown(o, n, w, level, others)
    BY <1>5, <2>3 DEF Grown
  <2> QED BY <1>1, <1>5, <2>2, <2>4
<1>6. CASE /\ n.queue = h.queue /\ n.enqueued = h.enqueued /\ n.total = h.total
           /\ n.skipped = h.skipped
  BY <1>6 DEF Sound, Grown
<1>7. CASE /\ n.queue = h.queue \cup {i} /\ n.enqueued = h.enqueued \cup {i.path}
           /\ n.total = h.total + Size[i.content] /\ n.skipped = h.skipped
           /\ i.path \notin h.enqueued /\ ~(Cardinality(h.queue) >= MaxFiles)
           /\ ~(Size[i.content] > SingleFileByteLimit) /\ ~(h.total + Size[i.content] > MaxBytes)
  <2>1. FitsLimit(f)
    BY <1>1, <1>2, <1>7 DEF FitsLimit
  <2>2. p \notin h.enqueued /\ p \notin h.skipped
    <3>1. p \notin h.enqueued
      BY <1>1, <1>7
    <3>2. ASSUME p \in h.skipped PROVE FALSE
      <4>1. CASE reports
        BY <3>2, <4>1 DEF p
      <4>2. CASE ~reports
        <5>1. p \in h.skipped \ h.enqueued
          BY <3>1, <3>2
        <5>2. PICK v \in Where : \E g \in FilesAt(v) : p = PathOf(v, g) /\ (v = Root \/ ~FitsLimit(g))
          BY <5>1 DEF Sound
        <5>3. PICK g \in FilesAt(v) : p = PathOf(v, g) /\ (v = Root \/ ~FitsLimit(g))
          BY <5>2
        <5>4. v = w /\ f = g
          BY <5>3, OneFile DEF p
        <5> QED BY <2>1, <4>2, <5>3, <5>4
      <4> QED BY <4>1, <4>2
    <3> QED BY <3>1, <3>2
  <2>3. i \notin h.queue /\ i \notin others /\ i.path \notin o.enqueued
    BY <1>1, <2>2 DEF Sound, Grown
  <2>4. Sound(n)
    <3>1. IsFiniteSet(h.queue) /\ IsFiniteSet(n.queue) /\ Cardinality(n.queue) = Cardinality(h.queue) + 1
          /\ Cardinality(h.queue) \in Nat
      BY <1>7, <2>3, FS_AddElement, FS_CardinalityType DEF Sound
    <3>2. Cardinality(n.queue) <= MaxFiles
      BY <1>2, <1>7, <3>1
    <3>3. n.total \in Nat /\ n.total <= MaxBytes
      BY <1>1, <1>2, <1>7 DEF Sound
    <3>4. \A j \in n.queue : IsItem(j) /\ j.path \in n.enqueued
      BY <1>1, <1>7 DEF Sound
    <3>5. \A j, k \in n.queue : j.path = k.path => j = k
      BY <1>7 DEF Sound
    <3>6. \A q \in n.enqueued : \E v \in Where : \E g \in FilesAt(v) : q = PathOf(v, g) /\ FitsLimit(g)
      <4>1. \A q \in h.enqueued : \E v \in Where : \E g \in FilesAt(v) : q = PathOf(v, g) /\ FitsLimit(g)
        BY DEF Sound
      <4>2. \E v \in Where : \E g \in FilesAt(v) : p = PathOf(v, g) /\ FitsLimit(g)
        BY <2>1 DEF p
      <4> QED BY <1>1, <1>7, <4>1, <4>2
    <3>7. n.skipped \ n.enqueued \subseteq h.skipped \ h.enqueued
      BY <1>7
    <3>8. \A q \in n.skipped \ n.enqueued : \E v \in Where : \E g \in FilesAt(v) :
            q = PathOf(v, g) /\ (v = Root \/ ~FitsLimit(g))
      BY <3>7 DEF Sound
    <3> QED BY <3>1, <3>2, <3>3, <3>4, <3>5, <3>6, <3>8 DEF Sound
  <2>5. Weight(n.queue \cup others) + o.total = Weight(o.queue \cup others) + n.total
    <3> DEFINE S == h.queue \cup others
    <3>1. IsFiniteSet(S) /\ (\A j \in S : IsItem(j)) /\ i \notin S
      BY <2>3, FS_Union DEF Sound
    <3> HIDE DEF S
    <3>2. Weight(S) \in Nat /\ Weight(S \cup {i}) = Weight(S) + Size[i.content]
      BY <1>1, <3>1, WeightAdd
    <3>3. n.queue \cup others = S \cup {i}
      BY <1>7 DEF S
    <3>4. Weight(S) + o.total = Weight(o.queue \cup others) + h.total
      BY DEF Grown, S
    <3>5. Weight(n.queue \cup others) = Weight(S) + Size[i.content] /\ n.total = h.total + Size[i.content]
      BY <1>7, <3>2, <3>3
    <3>6. h.total \in Nat /\ Size[i.content] \in Nat
      BY <1>1, <1>2 DEF Sound
    <3> QED BY <3>2, <3>4, <3>5, <3>6
  <2>6. n.skipped \cap n.enqueued = o.skipped \cap o.enqueued
    <3>1. n.skipped \cap n.enqueued = h.skipped \cap h.enqueued
      BY <1>1, <1>7, <2>2
    <3> QED BY <3>1 DEF Grown
  <2>7. /\ o.queue \subseteq n.queue /\ o.enqueued \subseteq n.enqueued
        /\ \A j \in n.queue \ o.queue : j.path \notin o.enqueued /\ j.path[1] = w /\ j.level = level
    BY <1>1, <1>7, <2>3 DEF Grown
  <2>8. \A q \in n.enqueued \ o.enqueued : \E j \in n.queue : j.path = q
    BY <1>7 DEF Grown
  <2>9. Grown(o, n, w, level, others)
    BY <2>5, <2>6, <2>7, <2>8 DEF Grown
  <2> QED BY <1>1, <1>7, <2>4, <2>9
<1> QED BY <1>3, <1>4, <1>5, <1>6, <1>7

\* A loop keeps a sound heap sound, and makes it grow.
LEMMA OfferAllKeeps ==
    ASSUME NEW o, HeapRec(o), Sound(o), NEW w \in Where, NEW files, Len(files) \in Nat, NEW there,
           \A n \in 1..Len(files) : files[n] \in there => files[n] \in FilesAt(w),
           NEW level \in 0..ArchiveDepth, NEW reports \in BOOLEAN,
           NEW others, IsFiniteSet(others), \A j \in others : IsItem(j) /\ j.path \in o.enqueued,
           Weight(o.queue \cup others) \in Nat,
           IF reports THEN /\ w = Root /\ o.enqueued = {} /\ o.skipped = {}
                           /\ \A m, n \in 1..Len(files) : m # n => files[m] # files[n]
           ELSE w # Root
    PROVE  LET h == OfferAll(o, w, files, there, level, reports)
           IN  Sound(h) /\ Grown(o, h, w, level, others)
<1> DEFINE h == OfferAll(o, w, files, there, level, reports)
<1>1. PICK g : Rounds(g, o, w, files, there, level, reports, Len(files)) /\ h = g[Len(files)]
  BY OfferAllRounds
<1> DEFINE Met(n) == reports => g[n].enqueued \cup g[n].skipped \subseteq
                                  {PathOf(w, files[k]) : k \in {m \in 1..n : files[m] \in there}}
           Ok(n)  == HeapRec(g[n]) /\ Sound(g[n]) /\ Grown(o, g[n], w, level, others) /\ Met(n)
           P == {n \in Nat : n <= Len(files) => Ok(n)}
<1>2. o.total \in Nat
  BY DEF Sound
<1>3. Ok(0)
  <2>1. 0 \in 0..Len(files)
    OBVIOUS
  <2>2. g[0] = o
    BY <1>1, <2>1 DEF Rounds
  <2>3. Grown(o, o, w, level, others)
    BY <1>2 DEF Grown
  <2> QED BY <2>2, <2>3
<1>4. ASSUME NEW n \in Nat, n + 1 <= Len(files), Ok(n) PROVE Ok(n + 1)
  <2>1. n + 1 \in 0..Len(files) /\ n + 1 # 0 /\ (n + 1) - 1 = n /\ n + 1 \in 1..Len(files)
    BY <1>4
  <2>2. g[n + 1] = Round1(g[n], w, files, there, level, reports, n + 1)
    BY <1>1, <2>1 DEF Rounds
  <2> DEFINE f == files[n + 1]
             a == g[n]
             b == g[n + 1]
  <2>3. {m \in 1..n : files[m] \in there} \subseteq {m \in 1..(n + 1) : files[m] \in there}
    BY <1>4
  <2>4. CASE f \notin there
    <3>1. b = a
      BY <2>2, <2>4 DEF Round1
    <3> QED BY <1>4, <2>3, <3>1
  <2>5. CASE f \in there
    <3>1. b = Offer(a, Item(w, f, level), reports) /\ f \in FilesAt(w)
      BY <2>1, <2>2, <2>5 DEF Round1
    <3>2. ASSUME reports, PathOf(w, f) \in a.enqueued \cup a.skipped PROVE FALSE
      <4>1. PICK k \in {m \in 1..n : files[m] \in there} : PathOf(w, f) = PathOf(w, files[k])
        BY <1>4, <3>2
      <4>2. k \in 1..Len(files) /\ k # n + 1 /\ files[k] \in there
        BY <1>4
      <4>3. files[k] \in FilesAt(w)
        BY <4>2
      <4>4. f = files[k]
        BY <3>1, <4>1, <4>3, OneFile
      <4> QED BY <2>1, <3>2, <4>2, <4>4
    <3>3. IF reports THEN w = Root /\ PathOf(w, f) \notin a.enqueued \cup a.skipped ELSE w # Root
      BY <3>2
    <3> HIDE DEF f, a, b
    <3>4. HeapRec(a) /\ Sound(a) /\ Grown(o, a, w, level, others)
      BY <1>4 DEF a
    <3>5. /\ HeapRec(b) /\ Sound(b) /\ Grown(o, b, w, level, others)
          /\ b.enqueued \cup b.skipped \subseteq a.enqueued \cup a.skipped \cup {PathOf(w, f)}
      BY <1>2, <3>1, <3>3, <3>4, OfferKeeps
    <3>6. ASSUME reports, NEW p \in b.enqueued \cup b.skipped
          PROVE  p \in {PathOf(w, files[k]) : k \in {m \in 1..(n + 1) : files[m] \in there}}
      <4>1. CASE p = PathOf(w, f)
        <5>1. n + 1 \in {m \in 1..(n + 1) : files[m] \in there}
          BY <2>5 DEF f
        <5> QED BY <4>1, <5>1 DEF f
      <4>2. CASE p \in a.enqueued \cup a.skipped
        <5>1. p \in {PathOf(w, files[k]) : k \in {m \in 1..n : files[m] \in there}}
          BY <1>4, <3>6, <4>2 DEF a
        <5> QED BY <2>3, <5>1
      <4> QED BY <3>5, <3>6, <4>1, <4>2
    <3> QED BY <3>5, <3>6 DEF b
  <2> QED BY <2>4, <2>5
<1>5. P = Nat
  <2> HIDE DEF Ok
  <2>1. P \in SUBSET Nat /\ 0 \in P
    BY <1>3
  <2>2. ASSUME NEW n \in P PROVE n + 1 \in P
    <3>1. n \in Nat /\ n + 1 \in Nat /\ (n + 1 <= Len(files) => n <= Len(files))
      OBVIOUS
    <3> QED BY <1>4, <3>1
  <2> HIDE DEF P
  <2> QED BY <2>1, <2>2, NatSetInduction
<1>6. Ok(Len(files))
  <2>1. Len(files) \in P /\ Len(files) <= Len(files)
    BY <1>5
  <2> HIDE DEF Ok
  <2> QED BY <2>1
<1> QED BY <1>1, <1>6

-----------------------------------------------------------------------------
(* The inductive invariant                                                 *)

PathsOf(items) == {i.path : i \in items}
SamplePaths == UNION {samples[c].paths : c \in DOMAIN samples}

\* Five sets that share out e.
Shared(q, o, d, s, k, e) ==
    /\ q \cup o \cup d \cup s \cup k = e
    /\ q \cap o = {} /\ q \cap d = {} /\ q \cap s = {} /\ q \cap k = {} /\ o \cap d = {}
    /\ o \cap s = {} /\ o \cap k = {} /\ d \cap s = {} /\ d \cap k = {} /\ s \cap k = {}

\* An archive was opened before what came out of it, and was not at the limit.
Nested ==
    /\ IsFiniteSet(opened) /\ \A o \in opened : IsItem(o) /\ o.level < ArchiveDepth
    /\ \A i \in queue \cup opened : i.path[1] # Root =>
        \E o \in opened : o.content = i.path[1] /\ o.level < i.level

SamplesOK ==
    /\ IsFiniteSet(DOMAIN samples) /\ samples = [c \in DOMAIN samples |-> samples[c]]
    /\ \A c \in DOMAIN samples : /\ samples[c] = [paths |-> samples[c].paths, error |-> samples[c].error]
                                 /\ IsFiniteSet(samples[c].paths) /\ samples[c].error \in BOOLEAN
    /\ analysed \in [Contents -> Nat] /\ ContentAnalysedOnce

\* The tree is walked once, an item is lost only on the way out, and the index
\* is written last.
InOrder ==
    /\ pc = "walk" => queue = {} /\ enqueued = {} /\ skipped = {} /\ opened = {}
    /\ pc \in {"walk", "scan"} => dropped = {}
    /\ index.written => pc = "done"

SampleWeight == SumFunction([c \in DOMAIN samples |-> Size[c] * Cardinality(samples[c].paths)])

\* What was let in accounts for what waits, was opened or is a sample's.
Weighed == Weight(queue \cup opened) + SampleWeight <= total

FolderInv ==
    /\ TypeOK /\ EveryFileHasOnePlace /\ Sound(Heap) /\ Nested /\ SamplesOK /\ InOrder /\ Weighed
    /\ FindingsCountedOnce

-----------------------------------------------------------------------------
(* The findings of the samples                                             *)

RowsWith(c, T) == {r \in Rows(c) : r.key \in T}
CountOf(k) == SumFunction([c \in DOMAIN samples |-> Cardinality({r \in Rows(c) : r.key = k})])

Pattern(k) ==
    [key |-> k,
     binaries  |-> Cardinality({c \in DOMAIN samples : {r \in Rows(c) : r.key = k} # {}}),
     count     |-> CountOf(k),
     confirmed |-> SumFunction([c \in DOMAIN samples |->
                                    Cardinality({r \in {r \in Rows(c) : r.key = k} : r.confirmed})])]

Keys == UNION {{r.key : r \in Rows(c)} : c \in DOMAIN samples}

LEMMA PatternsAre == Patterns = {Pattern(k) : k \in Keys}
BY DEF Patterns, Pattern, Keys, CountOf

LEMMA KeysFinite ==
    ASSUME IsFiniteSet(DOMAIN samples), \A c \in DOMAIN samples : IsFiniteSet(Rows(c))
    PROVE  IsFiniteSet(Keys)
<1> DEFINE K(c) == {r.key : r \in Rows(c)}
           KK == {K(c) : c \in DOMAIN samples}
           f == [c \in DOMAIN samples |-> K(c)]
<1>1. ASSUME NEW c \in DOMAIN samples PROVE IsFiniteSet(K(c))
  <2> DEFINE g == [r \in Rows(c) |-> r.key]
  <2>1. g \in Surjection(Rows(c), K(c))
    BY DEF Surjection
  <2> HIDE DEF g, K
  <2> QED BY <2>1, FS_Surjection
<1>2. f \in Surjection(DOMAIN samples, KK)
  <2> HIDE DEF K
  <2> QED BY DEF Surjection
<1>3. IsFiniteSet(KK)
  <2> HIDE DEF f, KK
  <2> QED BY <1>2, FS_Surjection
<1>4. \A T \in KK : IsFiniteSet(T)
  <2> HIDE DEF K
  <2> QED BY <1>1
<1>5. IsFiniteSet(UNION KK)
  <2> HIDE DEF KK
  <2> QED BY <1>3, <1>4, FS_UNION
<1> QED BY <1>5 DEF Keys

\* The records of the attack surface share out the rows of the samples.
LEMMA PatternsCount ==
    ASSUME IsFiniteSet(DOMAIN samples), \A c \in DOMAIN samples : IsFiniteSet(Rows(c))
    PROVE  SumFunction([p \in Patterns |-> p.count]) =
           SumFunction([c \in DOMAIN samples |-> Cardinality(Rows(c))])
<1> DEFINE D == DOMAIN samples
           Pats(T) == {Pattern(k) : k \in T}
           L(T) == SumFunction([p \in Pats(T) |-> p.count])
           R(T) == SumFunction([c \in D |-> Cardinality(RowsWith(c, T))])
           Q == {T \in SUBSET Keys : IsFiniteSet(Pats(T)) /\ L(T) = R(T)}
<1>1. ASSUME NEW c \in D, NEW T
      PROVE  IsFiniteSet(RowsWith(c, T)) /\ Cardinality(RowsWith(c, T)) \in Nat
  <2>1. RowsWith(c, T) \in SUBSET Rows(c)
    BY DEF RowsWith
  <2>2. IsFiniteSet(RowsWith(c, T))
    BY <2>1, FS_Subset
  <2> QED BY <2>2, FS_CardinalityType
<1>2. ASSUME NEW k PROVE /\ CountOf(k) = R({k}) /\ CountOf(k) \in Nat
                         /\ Pattern(k).count = CountOf(k) /\ Pattern(k).key = k
  <2>1. \A c \in D : {r \in Rows(c) : r.key = k} = RowsWith(c, {k})
    BY DEF RowsWith
  <2>2. [c \in D |-> Cardinality({r \in Rows(c) : r.key = k})] = [c \in D |-> Cardinality(RowsWith(c, {k}))]
    BY <2>1
  <2>3. CountOf(k) = R({k})
    BY <2>2 DEF CountOf
  <2>4. [c \in D |-> Cardinality(RowsWith(c, {k}))] \in [D -> Nat]
    BY <1>1
  <2>5. R({k}) \in Nat
    BY <2>4, SumNat
  <2> QED BY <2>3, <2>5 DEF Pattern
<1>3. {} \in Q
  <2>1. Pats({}) = {}
    OBVIOUS
  <2>2. IsFiniteSet(Pats({})) /\ L({}) = 0
    BY <2>1, FS_EmptySet, SumEmpty
  <2> DEFINE z == [c \in D |-> Cardinality(RowsWith(c, {}))]
  <2>3. z = [c \in D |-> z[c] + z[c]] /\ z \in [D -> Nat]
    <3>1. \A c \in D : RowsWith(c, {}) = {}
      BY DEF RowsWith
    <3>2. \A c \in D : Cardinality(RowsWith(c, {})) = 0
      BY <3>1, FS_EmptySet
    <3> QED BY <3>2
  <2> HIDE DEF z
  <2>4. SumFunction(z) = SumFunction(z) + SumFunction(z) /\ SumFunction(z) \in Nat
    <3>1. SumFunction([c \in D |-> z[c] + z[c]]) = SumFunction(z) + SumFunction(z)
      BY <2>3, SumAdd
    <3>2. SumFunction(z) \in Nat
      BY <2>3, SumNat
    <3> QED BY <2>3, <3>1, <3>2
  <2>5. R({}) = 0
    <3> DEFINE v == SumFunction(z)
    <3>1. v = v + v /\ v \in Nat
      BY <2>4
    <3> HIDE DEF v
    <3>2. v = 0
      BY <3>1
    <3> QED BY <3>2 DEF v, z
  <2> HIDE DEF L, R, Pats
  <2> QED BY <2>2, <2>5
<1>4. ASSUME NEW T \in SUBSET Keys, IsFiniteSet(Pats(T)), L(T) = R(T), NEW k \in Keys \ T
      PROVE  IsFiniteSet(Pats(T \cup {k})) /\ L(T \cup {k}) = R(T \cup {k})
  <2> DEFINE S == Pats(T \cup {k})
             f == [p \in S |-> p.count]
             x == Pattern(k)
  <2>1. S = Pats(T) \cup {x}
    <3> HIDE DEF x
    <3>1. \A j \in T \cup {k} : Pattern(j) \in Pats(T) \cup {Pattern(k)}
      OBVIOUS
    <3>2. \A j \in T : Pattern(j) \in S
      OBVIOUS
    <3>3. Pattern(k) \in S
      OBVIOUS
    <3> QED BY <3>1, <3>2, <3>3 DEF x
  <2>2. x \notin Pats(T)
    <3> SUFFICES ASSUME NEW j \in T, Pattern(k) = Pattern(j) PROVE FALSE
      OBVIOUS
    <3>1. Pattern(k).key = k /\ Pattern(j).key = j
      BY <1>2
    <3> QED BY <3>1
  <2>3. IsFiniteSet(S)
    <3> HIDE DEF S, x, Pats
    <3> QED BY <1>4, <2>1, FS_AddElement
  <2>4. f \in [S -> Nat]
    <3>1. \A j \in T \cup {k} : Pattern(j).count \in Nat
      BY <1>2
    <3> QED BY <3>1
  <2>5. L(T \cup {k}) = CountOf(k) + L(T)
    <3>1. x \in S /\ S \ {x} = Pats(T)
      BY <2>1, <2>2
    <3>2. f[x] = CountOf(k)
      BY <1>2, <3>1
    <3> DEFINE V == Pats(T)
               e == [p \in V |-> p.count]
    <3>3. e = [p \in V |-> f[p]]
      BY <3>1
    <3> HIDE DEF f, S, x, V, e
    <3>4. V = S \ {x}
      BY <3>1 DEF V
    <3>5. SumFunction(f) = f[x] + SumFunction(e)
      BY <2>3, <2>4, <3>1, <3>3, <3>4, SumWithout
    <3> QED BY <3>2, <3>5 DEF f, e, S, V
  <2> DEFINE a == [c \in D |-> Cardinality(RowsWith(c, T))]
             b == [c \in D |-> Cardinality(RowsWith(c, {k}))]
  <2>6. a \in [D -> Nat] /\ b \in [D -> Nat]
    BY <1>1
  <2>7. ASSUME NEW c \in D PROVE Cardinality(RowsWith(c, T \cup {k})) = a[c] + b[c]
    <3>1. RowsWith(c, T \cup {k}) = RowsWith(c, T) \cup RowsWith(c, {k}) /\ RowsWith(c, T) \cap RowsWith(c, {k}) = {}
      BY DEF RowsWith
    <3>2. Cardinality(RowsWith(c, T) \cup RowsWith(c, {k})) =
            Cardinality(RowsWith(c, T)) + Cardinality(RowsWith(c, {k})) - Cardinality({})
      BY <1>1, <3>1, FS_Union
    <3>3. Cardinality({}) = 0
      BY FS_EmptySet
    <3>4. a[c] = Cardinality(RowsWith(c, T)) /\ b[c] = Cardinality(RowsWith(c, {k})) /\ a[c] \in Nat /\ b[c] \in Nat
      BY <1>1
    <3> HIDE DEF a, b
    <3> DEFINE u == Cardinality(RowsWith(c, T \cup {k}))
    <3>5. u = a[c] + b[c] - 0
      BY <3>1, <3>2, <3>3, <3>4
    <3> HIDE DEF u
    <3>6. u = a[c] + b[c]
      BY <3>4, <3>5
    <3> QED BY <3>6 DEF u
  <2>8. R(T \cup {k}) = SumFunction([c \in D |-> a[c] + b[c]])
    <3> HIDE DEF a, b
    <3>1. [c \in D |-> Cardinality(RowsWith(c, T \cup {k}))] = [c \in D |-> a[c] + b[c]]
      BY <2>7
    <3> QED BY <3>1
  <2>9. SumFunction([c \in D |-> a[c] + b[c]]) = SumFunction(a) + SumFunction(b)
    <3> HIDE DEF a, b, D
    <3>1. IsFiniteSet(D)
      BY DEF D
    <3> QED BY <2>6, <3>1, SumAdd
  <2>10. SumFunction(a) \in Nat /\ SumFunction(a) = L(T) /\ SumFunction(b) = CountOf(k) /\ CountOf(k) \in Nat
    <3>1. SumFunction(a) \in Nat
      <4> HIDE DEF a
      <4> QED BY <2>6, SumNat
    <3> QED BY <1>2, <1>4, <3>1
  <2>11. L(T \cup {k}) = R(T \cup {k})
    <3> HIDE DEF a, b, L, R, D
    <3> QED BY <2>5, <2>8, <2>9, <2>10
  <2> QED BY <2>3, <2>11
<1>5. Keys \in Q
  <2>1. IsFiniteSet(Keys)
    BY KeysFinite
  <2> HIDE DEF L, R, Pats
  <2>2. Q \in SUBSET SUBSET Keys /\ {} \in Q /\ \A T \in Q : \A k \in Keys \ T : T \cup {k} \in Q
    BY <1>3, <1>4
  <2> HIDE DEF Q
  <2> QED BY <2>1, <2>2, SetInduction
<1>6. Pats(Keys) = Patterns
  BY PatternsAre
<1>7. \A c \in D : RowsWith(c, Keys) = Rows(c)
  BY DEF RowsWith, Keys
<1>8. R(Keys) = SumFunction([c \in D |-> Cardinality(Rows(c))])
  <2>1. [c \in D |-> Cardinality(RowsWith(c, Keys))] = [c \in D |-> Cardinality(Rows(c))]
    BY <1>7
  <2> QED BY <2>1
<1>9. L(Keys) = SumFunction([p \in Patterns |-> p.count])
  <2> HIDE DEF Pats
  <2> QED BY <1>6
<1> HIDE DEF L, R, Pats
<1> QED BY <1>5, <1>8, <1>9

-----------------------------------------------------------------------------
(* What the steps have in common                                           *)

LEMMA Places ==
    ASSUME NEW q, NEW o, NEW d, NEW s, NEW k, NEW e
    PROVE  (LET places == <<q, o, d, s, k>>
            IN  /\ UNION ToSet(places) = e
                /\ \A m, n \in DOMAIN places : m # n => places[m] \cap places[n] = {})
           <=> Shared(q, o, d, s, k, e)
<1> DEFINE places == <<q, o, d, s, k>>
<1>1. DOMAIN places = 1..5 /\ places[1] = q /\ places[2] = o /\ places[3] = d /\ places[4] = s /\ places[5] = k
  OBVIOUS
<1> HIDE DEF places
<1>2. 1..5 = {1, 2, 3, 4, 5}
  OBVIOUS
<1>3. ToSet(places) = {q, o, d, s, k}
  BY <1>1, <1>2 DEF ToSet
<1>4. UNION ToSet(places) = q \cup o \cup d \cup s \cup k
  BY <1>3
<1>5. (\A m, n \in DOMAIN places : m # n => places[m] \cap places[n] = {})
      <=> /\ q \cap o = {} /\ q \cap d = {} /\ q \cap s = {} /\ q \cap k = {} /\ o \cap d = {}
          /\ o \cap s = {} /\ o \cap k = {} /\ d \cap s = {} /\ d \cap k = {} /\ s \cap k = {}
  BY <1>1, <1>2
<1> QED BY <1>4, <1>5 DEF places, Shared

LEMMA WeightNat ==
    ASSUME NEW S, IsFiniteSet(S), \A j \in S : IsItem(j)
    PROVE  Weight(S) \in Nat
<1> DEFINE f == [j \in S |-> Size[j.content]]
<1>1. f \in [S -> Nat]
  BY ItemsAre
<1> HIDE DEF f
<1>2. SumFunction(f) \in Nat
  BY <1>1, SumNat
<1> QED BY <1>2 DEF Weight, f

LEMMA SampleWeightNat ==
    ASSUME TypeOK, SamplesOK
    PROVE  /\ [c \in DOMAIN samples |-> Size[c] * Cardinality(samples[c].paths)] \in [DOMAIN samples -> Nat]
           /\ SampleWeight \in Nat
<1> DEFINE f == [c \in DOMAIN samples |-> Size[c] * Cardinality(samples[c].paths)]
<1>1. ASSUME NEW c \in DOMAIN samples PROVE Size[c] * Cardinality(samples[c].paths) \in Nat
  <2>1. Size[c] \in Nat
    BY FolderScanAssumption DEF TypeOK
  <2>2. Cardinality(samples[c].paths) \in Nat
    BY FS_CardinalityType DEF SamplesOK
  <2> QED BY <2>1, <2>2
<1>2. f \in [DOMAIN samples -> Nat] /\ IsFiniteSet(DOMAIN samples)
  BY <1>1 DEF SamplesOK
<1>3. SumFunction(f) \in Nat
  <2> HIDE DEF f
  <2> QED BY <1>2, SumNat
<1> QED BY <1>2, <1>3 DEF SampleWeight

\* Heaps that differ in what is not looked at.
LEMMA SoundSame ==
    ASSUME NEW g, NEW h, Sound(g), g.queue = h.queue, g.enqueued = h.enqueued, g.total = h.total,
           g.skipped = h.skipped
    PROVE  Sound(h)
BY DEF Sound

\* One item less.
LEMMA SoundWithout ==
    ASSUME NEW g, NEW h, Sound(g), NEW i, h.queue = g.queue \ {i}, g.enqueued = h.enqueued, g.total = h.total,
           g.skipped \ g.enqueued = h.skipped \ h.enqueued
    PROVE  Sound(h)
<1>1. IsFiniteSet(g.queue) /\ h.queue \in SUBSET g.queue
  BY DEF Sound
<1>2. IsFiniteSet(h.queue) /\ Cardinality(h.queue) <= Cardinality(g.queue)
      /\ Cardinality(g.queue) \in Nat /\ Cardinality(h.queue) \in Nat
  BY <1>1, FS_Subset, FS_CardinalityType
<1>3. Cardinality(h.queue) <= MaxFiles
  BY <1>2, FolderScanAssumption DEF Sound
<1> QED BY <1>1, <1>2, <1>3 DEF Sound

\* What pop gives, when the heap holds i.
LEMMA Popped ==
    ASSUME FolderInv, NEW i \in queue
    PROVE  /\ IsItem(i) /\ i.path \in enqueued /\ PathsOf(queue \ {i}) = PathsOf(queue) \ {i.path}
           /\ i \notin opened /\ i.path \notin PathsOf(opened) \cup dropped \cup SamplePaths \cup (skipped \cap enqueued)
           /\ Weight(queue \cup opened) = Weight((queue \ {i}) \cup opened) + Size[i.content]
           /\ Weight((queue \ {i}) \cup opened) \in Nat
<1>1. IsItem(i) /\ i.path \in enqueued /\ IsFiniteSet(queue) /\ (\A j \in queue : IsItem(j))
      /\ \A j \in queue : j.path = i.path => j = i
  BY DEF FolderInv, Sound, Heap
<1>2. PathsOf(queue \ {i}) = PathsOf(queue) \ {i.path} /\ i.path \in PathsOf(queue)
  BY <1>1 DEF PathsOf
<1>3. Shared(PathsOf(queue), PathsOf(opened), dropped, SamplePaths, skipped \cap enqueued, enqueued)
  BY Places DEF FolderInv, EveryFileHasOnePlace, PathsOf, SamplePaths
<1>4. i.path \notin PathsOf(opened) \cup dropped \cup SamplePaths \cup (skipped \cap enqueued)
  BY <1>2, <1>3 DEF Shared
<1>5. i \notin opened
  BY <1>4 DEF PathsOf
<1> DEFINE S == (queue \ {i}) \cup opened
<1>6. IsFiniteSet(S) /\ (\A j \in S : IsItem(j)) /\ i \notin S /\ queue \cup opened = S \cup {i}
  <2>1. IsFiniteSet(queue \ {i}) /\ IsFiniteSet(opened) /\ \A j \in opened : IsItem(j)
    BY <1>1, FS_RemoveElement DEF FolderInv, Nested
  <2>2. IsFiniteSet(S)
    BY <2>1, FS_Union
  <2> QED BY <1>1, <1>5, <2>1, <2>2
<1> HIDE DEF S
<1>7. Weight(S) \in Nat /\ Weight(S \cup {i}) = Weight(S) + Size[i.content]
  BY <1>1, <1>6, WeightAdd
<1> QED BY <1>1, <1>2, <1>4, <1>5, <1>6, <1>7 DEF S

-----------------------------------------------------------------------------
(* The steps                                                               *)

\* What filling the heap adds to the places of files.
LEMMA GrownPaths ==
    ASSUME NEW o, NEW h, Sound(o), Sound(h), NEW w, NEW level, NEW others, Grown(o, h, w, level, others)
    PROVE  PathsOf(h.queue) = PathsOf(o.queue) \cup (h.enqueued \ o.enqueued)
<1>1. ASSUME NEW i \in h.queue PROVE i.path \in PathsOf(o.queue) \cup (h.enqueued \ o.enqueued)
  BY DEF Grown, Sound, PathsOf
<1>2. PathsOf(o.queue) \subseteq PathsOf(h.queue)
  BY DEF Grown, PathsOf
<1>3. h.enqueued \ o.enqueued \subseteq PathsOf(h.queue)
  BY DEF Grown, PathsOf
<1> QED BY <1>1, <1>2, <1>3 DEF PathsOf

LEMMA InitInv == Init => FolderInv
<1> SUFFICES ASSUME Init PROVE FolderInv
  OBVIOUS
<1>1. TypeOK
  <2>1. 0 \in 0..MaxFailures
    BY FolderScanAssumption
  <2>2. DOMAIN samples = {} /\ PathsOf(queue \cup opened) \cup dropped = {}
    BY DEF Init, PathsOf
  <2>3. index.written \in BOOLEAN /\ flag \in BOOLEAN /\ interrupted \in BOOLEAN
    BY DEF Init
  <2> QED BY <2>1, <2>2, <2>3 DEF Init, TypeOK, PathsOf
<1>2. EveryFileHasOnePlace
  <2>1. Shared({i.path : i \in queue}, {i.path : i \in opened}, dropped,
               UNION {samples[c].paths : c \in DOMAIN samples}, skipped \cap enqueued, enqueued)
    BY DEF Init, Shared
  <2> QED BY <2>1, Places DEF EveryFileHasOnePlace
<1>3. Sound(Heap)
  BY FS_EmptySet, FolderScanAssumption DEF Init, Sound, Heap
<1>4. Nested
  BY FS_EmptySet DEF Init, Nested
<1>5. SamplesOK
  BY FS_EmptySet DEF Init, SamplesOK, ContentAnalysedOnce
<1>6. InOrder
  BY DEF Init, InOrder
<1>7. Weighed
  <2>1. SampleWeight = 0
    BY SumEmpty DEF Init, SampleWeight
  <2>2. Weight(queue \cup opened) = 0
    BY SumEmpty DEF Init, Weight
  <2> QED BY <2>1, <2>2 DEF Weighed, Init
<1>8. FindingsCountedOnce
  BY DEF Init, FindingsCountedOnce
<1> QED BY <1>1, <1>2, <1>3, <1>4, <1>5, <1>6, <1>7, <1>8 DEF FolderInv

LEMMA WalkInv == FolderInv /\ Walk => FolderInv'
<1> SUFFICES ASSUME FolderInv, Walk PROVE FolderInv'
  OBVIOUS
<1> USE DEF Works
<1>0. TypeOK /\ EveryFileHasOnePlace /\ Sound(Heap) /\ Nested /\ SamplesOK /\ InOrder /\ Weighed
  BY DEF FolderInv
<1>1. PICK order \in SetToSeqs(Tree) : SetHeap(OfferAll(Heap, Root, order, Tree, 0, TRUE))
  BY DEF Walk
<1> DEFINE h == OfferAll(Heap, Root, order, Tree, 0, TRUE)
<1>2. queue = {} /\ enqueued = {} /\ skipped = {} /\ opened = {} /\ dropped = {}
  BY <1>0 DEF InOrder, Walk
<1>3. Weight({}) = 0
  BY SumEmpty DEF Weight
<1>4. /\ Len(order) \in Nat /\ \A n \in 1..Len(order) : order[n] \in Tree
      /\ \A m, n \in 1..Len(order) : m # n => order[m] # order[n]
  <2>1. Cardinality(Tree) \in Nat
    BY FS_CardinalityType, FolderScanAssumption
  <2>2. /\ order \in [1..Cardinality(Tree) -> Tree]
        /\ \A m, n \in 1..Cardinality(Tree) : m # n => order[m] # order[n]
    BY DEF SetToSeqs
  <2>3. Len(order) = Cardinality(Tree)
    BY <2>1, <2>2
  <2> QED BY <2>1, <2>2, <2>3
<1>5. Sound(h) /\ Grown(Heap, h, Root, 0, {})
  <2>1. HeapRec(Heap) /\ Heap.enqueued = {} /\ Heap.skipped = {} /\ Heap.queue = {}
    BY <1>2 DEF HeapRec, Heap
  <2>2. Root \in Where /\ FilesAt(Root) = Tree /\ 0 \in 0..ArchiveDepth
    BY FolderScanAssumption DEF Where, FilesAt
  <2>3. IsFiniteSet({}) /\ Weight(Heap.queue \cup {}) \in Nat
    BY <1>3, <2>1, FS_EmptySet
  <2> HIDE DEF h
  <2>4. \A o : HeapRec(o) /\ Sound(o) /\ o.enqueued = {} /\ o.skipped = {} /\ Weight(o.queue \cup {}) \in Nat
               => Sound(OfferAll(o, Root, order, Tree, 0, TRUE)) /\ Grown(o, OfferAll(o, Root, order, Tree, 0, TRUE), Root, 0, {})
    BY <1>4, <2>2, <2>3, OfferAllKeeps
  <2> QED BY <1>0, <2>1, <2>3, <2>4 DEF h
<1>6. queue' = h.queue /\ enqueued' = h.enqueued /\ total' = h.total /\ skipped' = h.skipped
  BY <1>1 DEF SetHeap
<1>7. /\ Heap.queue = {} /\ Heap.enqueued = {} /\ Heap.skipped = {} /\ Heap.total = total
  BY <1>2 DEF Heap
<1> HIDE DEF h
<1>8. pc' = "scan" /\ UNCHANGED <<outv, flag, interrupted, index, failures>> /\ pc = "walk"
  BY DEF Walk
<1>9. Sound(Heap)'
  <2>1. Sound(Heap')
    <3>1. Heap'.queue = h.queue /\ Heap'.enqueued = h.enqueued /\ Heap'.total = h.total /\ Heap'.skipped = h.skipped
      BY <1>6 DEF Heap
    <3> HIDE DEF Heap
    <3> QED BY <1>5, <3>1, SoundSame
  <2> QED BY <2>1
<1>10. EveryFileHasOnePlace'
  <2>1. PathsOf(queue') = enqueued'
    <3>1. PathsOf(h.queue) = PathsOf(Heap.queue) \cup (h.enqueued \ Heap.enqueued)
      BY <1>0, <1>5, GrownPaths
    <3> QED BY <1>6, <1>7, <3>1 DEF PathsOf
  <2>2. skipped' \cap enqueued' = {}
    BY <1>5, <1>6, <1>7 DEF Grown
  <2>3. opened' = {} /\ dropped' = {} /\ samples' = samples
    BY <1>2, <1>8 DEF outv
  <2>4. UNION {samples[c].paths : c \in DOMAIN samples} = {}
    <3>1. Shared({i.path : i \in queue}, {i.path : i \in opened}, dropped,
               UNION {samples[c].paths : c \in DOMAIN samples}, skipped \cap enqueued, enqueued)
      BY <1>0, Places DEF EveryFileHasOnePlace
    <3> QED BY <1>2, <3>1 DEF Shared
  <2>5. Shared({i.path : i \in queue'}, {i.path : i \in opened'}, dropped',
               UNION {samples'[c].paths : c \in DOMAIN samples'}, skipped' \cap enqueued', enqueued')
    BY <2>1, <2>2, <2>3, <2>4 DEF Shared, PathsOf
  <2> QED BY <2>5, Places DEF EveryFileHasOnePlace
<1>11. TypeOK'
  <2>1. \A i \in queue' : IsItem(i) /\ i.path \in enqueued'
    BY <1>5, <1>6 DEF Sound
  <2>2. \A i \in queue' : i.content \in Contents /\ i.level \in 0..ArchiveDepth
    BY <2>1, ItemsAre
  <2>3. total' \in Nat
    BY <1>5, <1>6 DEF Sound
  <2>4. opened' = {} /\ dropped' = {} /\ samples' = samples
    BY <1>2, <1>8 DEF outv
  <2> QED BY <1>0, <1>8, <2>1, <2>2, <2>3, <2>4 DEF TypeOK
<1>12. Nested'
  <2>1. \A i \in queue' : i.path[1] = Root
    BY <1>5, <1>6, <1>7 DEF Grown
  <2>2. opened' = {}
    BY <1>2, <1>8 DEF outv
  <2> QED BY <2>1, <2>2, FS_EmptySet DEF Nested
<1>13. SamplesOK' /\ FindingsCountedOnce' /\ InOrder'
  <2>1. SamplesOK'
    BY <1>0, <1>8 DEF SamplesOK, outv, ContentAnalysedOnce
  <2>2. ~index.written
    BY <1>0, <1>8 DEF InOrder
  <2>3. InOrder'
    BY <1>0, <1>2, <1>8, <2>2 DEF InOrder, outv
  <2>4. FindingsCountedOnce'
    BY <1>8, <2>2 DEF FindingsCountedOnce
  <2> QED BY <2>1, <2>3, <2>4
<1>14. Weighed'
  <2>1. SampleWeight' = SampleWeight
    BY <1>8 DEF SampleWeight, outv
  <2>2. Weight(h.queue \cup {}) + total = Weight({} \cup {}) + h.total
    BY <1>5, <1>7 DEF Grown
  <2>3. h.queue \cup {} = queue' \cup opened' /\ {} \cup {} = {} /\ queue \cup opened = {}
    BY <1>2, <1>6, <1>8 DEF outv
  <2> DEFINE v == Weight(queue' \cup opened')
  <2>4. v + total = 0 + total'
    BY <1>3, <1>6, <2>2, <2>3
  <2>5. 0 + SampleWeight <= total
    BY <1>0, <1>3, <2>3 DEF Weighed
  <2>6. SampleWeight \in Nat
    BY <1>0, SampleWeightNat
  <2>7. v \in Nat
    <3>1. IsFiniteSet(queue' \cup opened') /\ \A i \in queue' \cup opened' : IsItem(i)
      BY <1>5, <2>3 DEF Sound
    <3> QED BY <3>1, WeightNat
  <2>8. total \in Nat /\ total' \in Nat
    BY <1>0, <1>11 DEF TypeOK
  <2> HIDE DEF v
  <2>9. \A a, b, x, y \in Nat : x + a = 0 + b /\ 0 + y <= a => x + y <= b
    OBVIOUS
  <2>10. v + SampleWeight <= total'
    BY <2>4, <2>5, <2>6, <2>7, <2>8, <2>9
  <2> QED BY <2>1, <2>10 DEF Weighed, v
<1> QED BY <1>9, <1>10, <1>11, <1>12, <1>13, <1>14 DEF FolderInv

LEMMA HandleArchiveInv == ASSUME NEW i, FolderInv, HandleArchive(i) PROVE FolderInv'
<1> USE DEF Works
<1>0. TypeOK /\ EveryFileHasOnePlace /\ Sound(Heap) /\ Nested /\ SamplesOK /\ InOrder /\ Weighed
  BY DEF FolderInv
<1>1. /\ pc = "scan" /\ i \in queue /\ UNCHANGED <<pc, dropped, flag, interrupted, index, samples, analysed>>
      /\ i.level < ArchiveDepth /\ opened' = opened \cup {i}
  BY DEF HandleArchive, Round, Biggest
<1> DEFINE w == i.content
           o == [Heap EXCEPT !.queue = @ \ {i}]
<1>2. PICK files \in ExtractArchive(w) :
        /\ IF files = ToSet(Archived[w]) THEN Works ELSE Fails
        /\ SetHeap(OfferAll(o, w, Archived[w], files, i.level + 1, FALSE))
  BY DEF HandleArchive
<1> DEFINE h == OfferAll(o, w, Archived[w], files, i.level + 1, FALSE)
<1>3. /\ IsItem(i) /\ i.path \in enqueued /\ PathsOf(queue \ {i}) = PathsOf(queue) \ {i.path}
      /\ i \notin opened /\ i.path \notin PathsOf(opened) \cup dropped \cup SamplePaths \cup (skipped \cap enqueued)
  BY <1>1, Popped
<1>4. o.queue = queue \ {i} /\ o.enqueued = enqueued /\ o.total = total /\ o.skipped = skipped /\ HeapRec(o)
  <2>1. HeapRec(Heap) /\ Heap.queue = queue /\ Heap.enqueued = enqueued /\ Heap.total = total /\ Heap.skipped = skipped
    BY DEF Heap, HeapRec
  <2> QED BY <2>1, HeapWithout
<1>5. Sound(o)
  <2>1. Heap.queue = queue /\ Heap.enqueued = enqueued /\ Heap.total = total /\ Heap.skipped = skipped
    BY DEF Heap
  <2> HIDE DEF o
  <2> QED BY <1>0, <1>4, <2>1, SoundWithout
<1>6. w \in Contents /\ i.level + 1 \in 0..ArchiveDepth /\ w \in Where /\ w # Root /\ FilesAt(w) = ToSet(Archived[w])
      /\ Len(Archived[w]) \in Nat /\ i.level \in Nat
  <2>1. i.content \in Contents /\ i.level \in 0..ArchiveDepth
    BY <1>3, ItemsAre
  <2>2. i.level + 1 \in 0..ArchiveDepth /\ i.level \in Nat
    BY <1>1, <2>1, FolderScanAssumption
  <2>3. Len(Archived[i.content]) \in Nat
    BY <2>1, FolderScanAssumption
  <2> QED BY <2>1, <2>2, <2>3, FolderScanAssumption DEF Where, FilesAt
<1> HIDE DEF o
<1>7. /\ IsFiniteSet(opened') /\ (\A j \in opened' : IsItem(j) /\ j.path \in o.enqueued)
      /\ o.queue \cup opened' = queue \cup opened /\ Weight(queue \cup opened) \in Nat
  <2>1. IsFiniteSet(opened') /\ \A j \in opened' : IsItem(j)
    BY <1>0, <1>1, <1>3, FS_AddElement DEF Nested
  <2>2. \A j \in opened' : j.path \in o.enqueued
    BY <1>0, <1>1, <1>3, <1>4 DEF TypeOK
  <2>3. o.queue \cup opened' = queue \cup opened
    BY <1>1, <1>4
  <2>4. IsFiniteSet(queue \cup opened) /\ \A j \in queue \cup opened : IsItem(j)
    <3>1. IsFiniteSet(queue) /\ \A j \in queue : IsItem(j)
      BY <1>0 DEF Sound, Heap
    <3>2. IsFiniteSet(opened) /\ \A j \in opened : IsItem(j)
      BY <1>0 DEF Nested
    <3>3. IsFiniteSet(queue \cup opened)
      BY <3>1, <3>2, FS_Union
    <3> QED BY <3>1, <3>2, <3>3
  <2>5. Weight(queue \cup opened) \in Nat
    BY <2>4, WeightNat
  <2> QED BY <2>1, <2>2, <2>3, <2>5
<1>8. Sound(h) /\ Grown(o, h, w, i.level + 1, opened')
  <2>1. \A n \in 1..Len(Archived[w]) : Archived[w][n] \in files => Archived[w][n] \in FilesAt(w)
    BY <1>2, <1>6 DEF ExtractArchive
  <2>2. Weight(o.queue \cup opened') \in Nat
    BY <1>7
  <2> DEFINE lev == i.level + 1
             arc == Archived[w]
             oth == opened'
  <2>3. /\ lev \in 0..ArchiveDepth /\ Len(arc) \in Nat
        /\ \A n \in 1..Len(arc) : arc[n] \in files => arc[n] \in FilesAt(w)
        /\ IsFiniteSet(oth) /\ (\A j \in oth : IsItem(j) /\ j.path \in o.enqueued) /\ Weight(o.queue \cup oth) \in Nat
        /\ w \in Where /\ w # Root
    BY <1>6, <1>7, <2>1, <2>2
  <2> HIDE DEF lev, arc, oth, h, w
  <2>4. LET g == OfferAll(o, w, arc, files, lev, FALSE) IN Sound(g) /\ Grown(o, g, w, lev, oth)
    BY <1>4, <1>5, <2>3, OfferAllKeeps
  <2> QED BY <2>4 DEF h, lev, arc, oth, w
<1>9. queue' = h.queue /\ enqueued' = h.enqueued /\ total' = h.total /\ skipped' = h.skipped
  BY <1>2 DEF SetHeap
<1>10. failures' \in 0..MaxFailures
  BY <1>0, <1>2, FolderScanAssumption DEF TypeOK, Fails
<1> HIDE DEF h, w
<1>11. Sound(Heap)'
  <2>1. Sound(Heap')
    <3>1. Heap'.queue = h.queue /\ Heap'.enqueued = h.enqueued /\ Heap'.total = h.total /\ Heap'.skipped = h.skipped
      BY <1>9 DEF Heap
    <3> HIDE DEF Heap
    <3> QED BY <1>8, <3>1, SoundSame
  <2> QED BY <2>1
<1>12. EveryFileHasOnePlace'
  <2>1. PathsOf(queue') = (PathsOf(queue) \ {i.path}) \cup (enqueued' \ enqueued)
    <3>1. PathsOf(h.queue) = PathsOf(o.queue) \cup (h.enqueued \ o.enqueued)
      BY <1>5, <1>8, GrownPaths
    <3> QED BY <1>3, <1>4, <1>9, <3>1
  <2>2. skipped' \cap enqueued' = skipped \cap enqueued /\ enqueued \subseteq enqueued'
    BY <1>4, <1>8, <1>9 DEF Grown
  <2>3. PathsOf(opened') = PathsOf(opened) \cup {i.path} /\ i.path \in PathsOf(queue)
    BY <1>1 DEF PathsOf
  <2>4. SamplePaths' = SamplePaths /\ dropped' = dropped
    BY <1>1 DEF SamplePaths
  <2>5. Shared(PathsOf(queue), PathsOf(opened), dropped, SamplePaths, skipped \cap enqueued, enqueued)
    BY <1>0, Places DEF EveryFileHasOnePlace, PathsOf, SamplePaths
  <2>6. Shared(PathsOf(queue'), PathsOf(opened'), dropped', SamplePaths', skipped' \cap enqueued', enqueued')
    BY <1>3, <2>1, <2>2, <2>3, <2>4, <2>5 DEF Shared
  <2> QED BY <2>6, Places DEF EveryFileHasOnePlace, PathsOf, SamplePaths
<1>13. TypeOK'
  <2>1. \A j \in queue' : IsItem(j) /\ j.path \in enqueued'
    BY <1>8, <1>9 DEF Sound
  <2>2. \A j \in queue' : j.content \in Contents /\ j.level \in 0..ArchiveDepth
    BY <2>1, ItemsAre
  <2>3. total' \in Nat
    BY <1>8, <1>9 DEF Sound
  <2>4. enqueued \subseteq enqueued'
    BY <1>4, <1>8, <1>9 DEF Grown
  <2>5. {j.path : j \in queue' \cup opened'} \cup dropped' \subseteq enqueued'
    BY <1>0, <1>1, <1>3, <2>1, <2>4 DEF TypeOK
  <2> QED BY <1>0, <1>1, <1>10, <2>2, <2>3, <2>5 DEF TypeOK
<1>14. Nested'
  <2>1. \A j \in opened' : IsItem(j) /\ j.level < ArchiveDepth
    BY <1>0, <1>1, <1>3 DEF Nested
  <2>2. ASSUME NEW j \in queue' \cup opened', j.path[1] # Root
        PROVE  \E a \in opened' : a.content = j.path[1] /\ a.level < j.level
    <3>1. CASE j \in queue \cup opened
      BY <1>0, <1>1, <2>2, <3>1 DEF Nested
    <3>2. CASE j \notin queue \cup opened
      <4>1. j \in h.queue \ o.queue
        BY <1>1, <1>4, <1>9, <3>2
      <4>2. j.path[1] = i.content /\ j.level = i.level + 1
        BY <1>8, <4>1 DEF Grown, w
      <4>3. i.level < j.level
        BY <1>6, <4>2
      <4> QED BY <1>1, <4>2, <4>3
    <3> QED BY <3>1, <3>2
  <2> QED BY <1>7, <2>1, <2>2 DEF Nested
<1>15. SamplesOK' /\ FindingsCountedOnce' /\ InOrder'
  <2>1. SamplesOK'
    BY <1>0, <1>1 DEF SamplesOK, ContentAnalysedOnce
  <2>2. ~index.written
    BY <1>0, <1>1 DEF InOrder
  <2>3. InOrder'
    BY <1>0, <1>1, <2>2 DEF InOrder
  <2>4. FindingsCountedOnce'
    BY <1>1, <2>2 DEF FindingsCountedOnce
  <2> QED BY <2>1, <2>3, <2>4
<1>16. Weighed'
  <2>1. SampleWeight' = SampleWeight
    BY <1>1 DEF SampleWeight
  <2> DEFINE u == Weight(queue \cup opened)
             v == Weight(queue' \cup opened')
  <2>2. v + total = u + total'
    BY <1>4, <1>7, <1>8, <1>9 DEF Grown
  <2>3. u + SampleWeight <= total
    BY <1>0 DEF Weighed
  <2>4. SampleWeight \in Nat /\ u \in Nat /\ total \in Nat /\ total' \in Nat
    BY <1>0, <1>7, <1>13, SampleWeightNat DEF TypeOK
  <2>5. v \in Nat
    <3>1. IsFiniteSet(queue') /\ \A j \in queue' : IsItem(j)
      BY <1>8, <1>9 DEF Sound
    <3>2. IsFiniteSet(queue' \cup opened') /\ \A j \in queue' \cup opened' : IsItem(j)
      BY <1>7, <3>1, FS_Union
    <3> QED BY <3>2, WeightNat
  <2> HIDE DEF u, v
  <2>6. \A a, b, x, y, z \in Nat : x + a = z + b /\ z + y <= a => x + y <= b
    OBVIOUS
  <2>7. v + SampleWeight <= total'
    BY <2>2, <2>3, <2>4, <2>5, <2>6
  <2> QED BY <2>1, <2>7 DEF Weighed, v
<1> QED BY <1>11, <1>12, <1>13, <1>14, <1>15, <1>16 DEF FolderInv

\* An item leaves the heap: what holds whatever becomes of it.
LEMMA TakenSound ==
    ASSUME FolderInv, NEW i \in queue, queue' = queue \ {i}, enqueued' = enqueued, total' = total,
           skipped' = skipped \/ skipped' = skipped \cup {i.path}, opened' = opened
    PROVE  /\ Sound(Heap)' /\ Nested'
           /\ \A j \in queue' : j.content \in Contents /\ j.level \in 0..ArchiveDepth
           /\ {j.path : j \in queue' \cup opened'} \cup dropped \cup {i.path} \subseteq enqueued'
           /\ total' \in Nat
<1>1. IsItem(i) /\ i.path \in enqueued
  BY Popped
<1>2. Sound(Heap)'
  <2>1. Heap.queue = queue /\ Heap.enqueued = enqueued /\ Heap.total = total /\ Heap.skipped = skipped
    BY DEF Heap
  <2>2. Heap'.queue = queue \ {i} /\ Heap'.enqueued = enqueued /\ Heap'.total = total /\ Heap'.skipped = skipped'
    BY DEF Heap
  <2>3. skipped' \ enqueued = skipped \ enqueued
    BY <1>1
  <2>4. Sound(Heap)
    BY DEF FolderInv
  <2>5. Sound(Heap')
    BY <2>1, <2>2, <2>3, <2>4, SoundWithout
  <2> QED BY <2>5
<1>3. Nested'
  BY DEF FolderInv, Nested
<1> QED BY <1>1, <1>2, <1>3 DEF FolderInv, TypeOK

LEMMA InterruptedInv == FolderInv /\ Interrupted => FolderInv'
<1> SUFFICES ASSUME FolderInv, Interrupted PROVE FolderInv'
  OBVIOUS
<1> USE DEF Works
<1>0. TypeOK /\ EveryFileHasOnePlace /\ Sound(Heap) /\ Nested /\ SamplesOK /\ InOrder /\ Weighed
  BY DEF FolderInv
<1>1. PICK i \in queue : queue' = queue \ {i} /\ dropped' = {i.path}
  BY DEF Interrupted, Biggest
<1>2. /\ pc = "scan" /\ pc' = "merge" /\ interrupted' = TRUE
      /\ UNCHANGED <<enqueued, total, skipped, samples, opened, analysed, flag, index, failures>>
  BY DEF Interrupted
<1>3. dropped = {} /\ ~index.written
  BY <1>0, <1>2 DEF InOrder
<1>4. /\ Sound(Heap)' /\ Nested'
      /\ \A j \in queue' : j.content \in Contents /\ j.level \in 0..ArchiveDepth
      /\ {j.path : j \in queue' \cup opened'} \cup dropped \cup {i.path} \subseteq enqueued'
      /\ total' \in Nat
  BY <1>1, <1>2, TakenSound
<1>5. TypeOK'
  BY <1>0, <1>1, <1>2, <1>4 DEF TypeOK
<1>6. EveryFileHasOnePlace'
  <2>1. Shared(PathsOf(queue), PathsOf(opened), dropped, SamplePaths, skipped \cap enqueued, enqueued)
    BY <1>0, Places DEF EveryFileHasOnePlace, PathsOf, SamplePaths
  <2>2. PathsOf(queue') = PathsOf(queue) \ {i.path} /\ i.path \in PathsOf(queue)
    BY <1>1, Popped DEF PathsOf
  <2>3. SamplePaths' = SamplePaths /\ PathsOf(opened') = PathsOf(opened)
    BY <1>2 DEF SamplePaths
  <2>4. Shared(PathsOf(queue'), PathsOf(opened'), dropped', SamplePaths', skipped' \cap enqueued', enqueued')
    BY <1>1, <1>2, <1>3, <2>1, <2>2, <2>3 DEF Shared
  <2> QED BY <2>4, Places DEF EveryFileHasOnePlace, PathsOf, SamplePaths
<1>7. SamplesOK' /\ InOrder' /\ FindingsCountedOnce'
  <2>1. SamplesOK'
    BY <1>0, <1>2 DEF SamplesOK, ContentAnalysedOnce
  <2>2. InOrder'
    BY <1>2, <1>3 DEF InOrder
  <2>3. FindingsCountedOnce'
    BY <1>2, <1>3 DEF FindingsCountedOnce
  <2> QED BY <2>1, <2>2, <2>3
<1>8. Weighed'
  <2>1. SampleWeight' = SampleWeight
    BY <1>2 DEF SampleWeight
  <2> DEFINE u == Weight(queue \cup opened)
             v == Weight(queue' \cup opened')
  <2>2. u = v + Size[i.content] /\ v \in Nat /\ Size[i.content] \in Nat
    BY <1>1, <1>2, Popped, ItemsAre
  <2>3. u + SampleWeight <= total /\ SampleWeight \in Nat /\ total \in Nat
    BY <1>0, SampleWeightNat DEF Weighed, TypeOK
  <2> HIDE DEF u, v
  <2>4. \A a, x, y, z \in Nat : (x + z) + y <= a => x + y <= a
    OBVIOUS
  <2>5. v + SampleWeight <= total
    BY <2>2, <2>3, <2>4
  <2> QED BY <1>2, <2>1, <2>5 DEF Weighed, v
<1> QED BY <1>4, <1>5, <1>6, <1>7, <1>8 DEF FolderInv

LEMMA SkipInv == ASSUME NEW i, FolderInv, Skip(i) PROVE FolderInv'
<1> USE DEF Works
<1>0. TypeOK /\ EveryFileHasOnePlace /\ Sound(Heap) /\ Nested /\ SamplesOK /\ InOrder /\ Weighed
  BY DEF FolderInv
<1>1. /\ pc = "scan" /\ i \in queue /\ queue' = queue \ {i} /\ skipped' = skipped \cup {i.path}
      /\ UNCHANGED <<pc, dropped, flag, interrupted, index, samples, analysed, opened, enqueued, total>>
  BY DEF Skip, Take, Round, Biggest
<1>2. failures' \in 0..MaxFailures
  BY <1>0, FolderScanAssumption DEF TypeOK, Fails, Skip
<1>3. ~index.written
  BY <1>0, <1>1 DEF InOrder
<1>4. /\ Sound(Heap)' /\ Nested'
      /\ \A j \in queue' : j.content \in Contents /\ j.level \in 0..ArchiveDepth
      /\ {j.path : j \in queue' \cup opened'} \cup dropped \cup {i.path} \subseteq enqueued'
      /\ total' \in Nat
  BY <1>1, TakenSound
<1>5. TypeOK'
  BY <1>0, <1>1, <1>2, <1>4 DEF TypeOK
<1>6. EveryFileHasOnePlace'
  <2>1. Shared(PathsOf(queue), PathsOf(opened), dropped, SamplePaths, skipped \cap enqueued, enqueued)
    BY <1>0, Places DEF EveryFileHasOnePlace, PathsOf, SamplePaths
  <2>2. PathsOf(queue') = PathsOf(queue) \ {i.path} /\ i.path \in PathsOf(queue) /\ i.path \in enqueued
    BY <1>1, Popped DEF PathsOf
  <2>3. SamplePaths' = SamplePaths /\ PathsOf(opened') = PathsOf(opened)
    BY <1>1 DEF SamplePaths
  <2>4. skipped' \cap enqueued' = (skipped \cap enqueued) \cup {i.path}
    BY <1>1, <2>2
  <2>5. Shared(PathsOf(queue'), PathsOf(opened'), dropped', SamplePaths', skipped' \cap enqueued', enqueued')
    BY <1>1, <2>1, <2>2, <2>3, <2>4 DEF Shared
  <2> QED BY <2>5, Places DEF EveryFileHasOnePlace, PathsOf, SamplePaths
<1>7. SamplesOK' /\ InOrder' /\ FindingsCountedOnce'
  <2>1. SamplesOK'
    BY <1>0, <1>1 DEF SamplesOK, ContentAnalysedOnce
  <2>2. InOrder'
    BY <1>0, <1>1, <1>3 DEF InOrder
  <2>3. FindingsCountedOnce'
    BY <1>1, <1>3 DEF FindingsCountedOnce
  <2> QED BY <2>1, <2>2, <2>3
<1>8. Weighed'
  <2>1. SampleWeight' = SampleWeight
    BY <1>1 DEF SampleWeight
  <2> DEFINE u == Weight(queue \cup opened)
             v == Weight(queue' \cup opened')
  <2>2. u = v + Size[i.content] /\ v \in Nat /\ Size[i.content] \in Nat
    BY <1>1, Popped, ItemsAre
  <2>3. u + SampleWeight <= total /\ SampleWeight \in Nat /\ total \in Nat
    BY <1>0, SampleWeightNat DEF Weighed, TypeOK
  <2> HIDE DEF u, v
  <2>4. \A a, x, y, z \in Nat : (x + z) + y <= a => x + y <= a
    OBVIOUS
  <2>5. v + SampleWeight <= total
    BY <2>2, <2>3, <2>4
  <2> QED BY <1>1, <2>1, <2>5 DEF Weighed, v
<1> QED BY <1>4, <1>5, <1>6, <1>7, <1>8 DEF FolderInv

\* A sum where one value changes.
LEMMA SumChange ==
    ASSUME NEW S, IsFiniteSet(S), NEW f \in [S -> Nat], NEW e \in [S -> Nat], NEW x \in S,
           \A y \in S : y # x => e[y] = f[y]
    PROVE  SumFunction(e) + f[x] = SumFunction(f) + e[x]
<1> DEFINE T == S \ {x}
           r == [y \in T |-> f[y]]
<1>1. r = [y \in T |-> e[y]]
  OBVIOUS
<1> HIDE DEF r
<1>2. r = [y \in T |-> f[y]]
  BY DEF r
<1>3. SumFunction(r) \in Nat /\ SumFunction(f) = f[x] + SumFunction(r) /\ SumFunction(f) \in Nat
  BY <1>2, SumWithout
<1>4. SumFunction(e) = e[x] + SumFunction(r) /\ SumFunction(e) \in Nat
  BY <1>1, SumWithout
<1>5. \A a, b, c \in Nat : (a + b) + c = (c + b) + a
  OBVIOUS
<1> QED BY <1>3, <1>4, <1>5

\* The paths of the samples, when c gets p.
LEMMA MorePaths ==
    ASSUME NEW s, NEW t, NEW c, NEW p,
           DOMAIN t = DOMAIN s \cup {c},
           t[c].paths = (IF c \in DOMAIN s THEN s[c].paths ELSE {}) \cup {p},
           \A d \in DOMAIN s : d # c => t[d].paths = s[d].paths
    PROVE  UNION {t[d].paths : d \in DOMAIN t} = (UNION {s[d].paths : d \in DOMAIN s}) \cup {p}
<1>1. ASSUME NEW q, q \in UNION {t[d].paths : d \in DOMAIN t}
      PROVE  q \in (UNION {s[d].paths : d \in DOMAIN s}) \cup {p}
  <2>1. PICK d \in DOMAIN t : q \in t[d].paths
    BY <1>1
  <2>2. CASE d = c
    BY <2>1, <2>2
  <2>3. CASE d # c
    BY <2>1, <2>3
  <2> QED BY <2>2, <2>3
<1>2. ASSUME NEW q, q \in (UNION {s[d].paths : d \in DOMAIN s})
      PROVE  q \in UNION {t[d].paths : d \in DOMAIN t}
  <2>1. PICK d \in DOMAIN s : q \in s[d].paths
    BY <1>2
  <2>2. q \in t[d].paths /\ d \in DOMAIN t
    BY <2>1
  <2> QED BY <2>2
<1>3. p \in UNION {t[d].paths : d \in DOMAIN t}
  <2>1. p \in t[c].paths /\ c \in DOMAIN t
    OBVIOUS
  <2> QED BY <2>1
<1> QED BY <1>1, <1>2, <1>3

\* One more path of a content, in the entry it has or in a new one.
LEMMA SampleWeightGrows ==
    ASSUME TypeOK, SamplesOK, TypeOK', SamplesOK', NEW i, IsItem(i), i.path \notin SamplePaths,
           DOMAIN samples' = DOMAIN samples \cup {i.content},
           samples'[i.content].paths =
             (IF i.content \in DOMAIN samples THEN samples[i.content].paths ELSE {}) \cup {i.path},
           \A d \in DOMAIN samples : d # i.content => samples'[d].paths = samples[d].paths
    PROVE  SampleWeight' = SampleWeight + Size[i.content] /\ SampleWeight \in Nat
<1> DEFINE c == i.content
           D == DOMAIN samples
           f == [d \in D |-> Size[d] * Cardinality(samples[d].paths)]
           e == [d \in DOMAIN samples' |-> Size[d] * Cardinality(samples'[d].paths)]
<1>1. f \in [D -> Nat] /\ SampleWeight \in Nat /\ SampleWeight = SumFunction(f) /\ IsFiniteSet(D)
  BY SampleWeightNat DEF SampleWeight, SamplesOK
<1>2. /\ \A d \in DOMAIN samples' : Size[d] \in Nat /\ Cardinality(samples'[d].paths) \in Nat
      /\ IsFiniteSet(DOMAIN samples')
  BY FS_CardinalityType, FolderScanAssumption DEF SamplesOK, TypeOK
<1>3. e \in [DOMAIN samples' -> Nat] /\ SampleWeight' = SumFunction(e)
  <2>1. \A d \in DOMAIN samples' : Size[d] * Cardinality(samples'[d].paths) \in Nat
    BY <1>2
  <2> QED BY <2>1 DEF SampleWeight
<1>4. c \in DOMAIN samples' /\ Size[c] \in Nat /\ e[c] = Size[c] * Cardinality(samples'[c].paths)
  BY <1>2
<1>5. \A d \in D : d # c => e[d] = f[d]
  OBVIOUS
<1>6. CASE c \in D
  <2>1. D = DOMAIN samples' /\ f[c] = Size[c] * Cardinality(samples[c].paths)
    BY <1>6
  <2>2. Cardinality(samples'[c].paths) = Cardinality(samples[c].paths) + 1 /\ Cardinality(samples[c].paths) \in Nat
    <3>1. i.path \notin samples[c].paths /\ samples'[c].paths = samples[c].paths \cup {i.path}
      BY <1>6 DEF SamplePaths
    <3>2. IsFiniteSet(samples[c].paths)
      BY <1>6 DEF SamplesOK
    <3> QED BY <3>1, <3>2, FS_AddElement, FS_CardinalityType
  <2>3. e[c] = f[c] + Size[c]
    <3>1. \A a, b \in Nat : a * (b + 1) = a * b + a
      OBVIOUS
    <3> QED BY <1>4, <2>1, <2>2, <3>1
  <2> HIDE DEF e, f, D, c
  <2>4. SumFunction(e) + f[c] = SumFunction(f) + e[c]
    BY <1>1, <1>3, <1>5, <1>6, <2>1, SumChange
  <2>5. SumFunction(e) \in Nat /\ f[c] \in Nat /\ SumFunction(f) \in Nat
    BY <1>1, <1>3, <1>6, <2>1, SumNat
  <2>6. \A a, b, x, y \in Nat : a + x = b + (x + y) => a = b + y
    OBVIOUS
  <2>7. SumFunction(e) = SumFunction(f) + Size[c]
    BY <1>4, <2>3, <2>4, <2>5, <2>6
  <2> QED BY <1>1, <1>3, <2>7 DEF c
<1>7. CASE c \notin D
  <2>1. samples'[c].paths = {i.path}
    BY <1>7
  <2>2. Cardinality(samples'[c].paths) = 1
    BY <2>1, FS_Singleton
  <2>3. e[c] = Size[c]
    <3>1. \A a \in Nat : a * 1 = a
      OBVIOUS
    <3> QED BY <1>4, <2>2, <3>1
  <2>4. D = DOMAIN samples' \ {c}
    BY <1>7
  <2>5. f = [d \in D |-> e[d]]
    BY <1>5, <1>7
  <2>6. IsFiniteSet(DOMAIN samples')
    BY <1>2
  <2> DEFINE E == DOMAIN samples'
  <2> HIDE DEF e, f, D, c
  <2>7. SumFunction(e) = e[c] + SumFunction(f)
    <3>1. e \in [E -> Nat] /\ c \in E /\ D = E \ {c} /\ IsFiniteSet(E)
      BY <1>3, <1>4, <2>4, <2>6
    <3> HIDE DEF E
    <3> QED BY <2>5, <3>1, SumWithout
  <2>8. \A a, b \in Nat : a + b = b + a
    OBVIOUS
  <2>9. SumFunction(e) = SumFunction(f) + Size[c]
    BY <1>1, <1>4, <2>3, <2>7, <2>8
  <2> QED BY <1>1, <1>3, <2>9 DEF c
<1> QED BY <1>6, <1>7

\* A binary leaves the heap for the entry of its content.
LEMMA RecordedInv ==
    ASSUME NEW i, FolderInv, Take(i), UNCHANGED <<skipped, opened>>, failures' \in 0..MaxFailures,
           SamplesOK', DOMAIN samples' = DOMAIN samples \cup {i.content},
           samples'[i.content].paths =
             (IF i.content \in DOMAIN samples THEN samples[i.content].paths ELSE {}) \cup {i.path},
           \A d \in DOMAIN samples : d # i.content => samples'[d].paths = samples[d].paths
    PROVE  FolderInv'
<1>0. TypeOK /\ EveryFileHasOnePlace /\ Sound(Heap) /\ Nested /\ SamplesOK /\ InOrder /\ Weighed
  BY DEF FolderInv
<1>1. /\ pc = "scan" /\ i \in queue /\ queue' = queue \ {i}
      /\ UNCHANGED <<pc, dropped, flag, interrupted, index, enqueued, total, skipped, opened>>
  BY DEF Take, Round, Biggest
<1>2. ~index.written
  BY <1>0, <1>1 DEF InOrder
<1>3. /\ Sound(Heap)' /\ Nested'
      /\ \A j \in queue' : j.content \in Contents /\ j.level \in 0..ArchiveDepth
      /\ {j.path : j \in queue' \cup opened'} \cup dropped \cup {i.path} \subseteq enqueued'
      /\ total' \in Nat
  BY <1>1, TakenSound
<1>4. /\ IsItem(i) /\ PathsOf(queue \ {i}) = PathsOf(queue) \ {i.path}
      /\ i.path \notin PathsOf(opened) \cup dropped \cup SamplePaths \cup (skipped \cap enqueued)
      /\ Weight(queue \cup opened) = Weight((queue \ {i}) \cup opened) + Size[i.content]
      /\ Weight((queue \ {i}) \cup opened) \in Nat
  BY <1>1, Popped
<1>5. TypeOK'
  <2>1. i.content \in Contents
    BY <1>4, ItemsAre
  <2> QED BY <1>0, <1>1, <1>3, <2>1 DEF TypeOK
<1>6. SamplePaths' = SamplePaths \cup {i.path}
  <2>1. UNION {samples'[d].paths : d \in DOMAIN samples'} = (UNION {samples[d].paths : d \in DOMAIN samples}) \cup {i.path}
    BY MorePaths
  <2> QED BY <2>1 DEF SamplePaths
<1>7. EveryFileHasOnePlace'
  <2>1. Shared(PathsOf(queue), PathsOf(opened), dropped, SamplePaths, skipped \cap enqueued, enqueued)
    BY <1>0, Places DEF EveryFileHasOnePlace, PathsOf, SamplePaths
  <2>2. i.path \in PathsOf(queue)
    BY <1>1 DEF PathsOf
  <2>3. /\ PathsOf(queue') = PathsOf(queue) \ {i.path} /\ PathsOf(opened') = PathsOf(opened)
        /\ skipped' \cap enqueued' = skipped \cap enqueued /\ enqueued' = enqueued /\ dropped' = dropped
    BY <1>1, <1>4
  <2>4. Shared(PathsOf(queue'), PathsOf(opened'), dropped', SamplePaths', skipped' \cap enqueued', enqueued')
    BY <1>4, <1>6, <2>1, <2>2, <2>3 DEF Shared
  <2> QED BY <2>4, Places DEF EveryFileHasOnePlace, PathsOf, SamplePaths
<1>8. InOrder' /\ FindingsCountedOnce'
  <2>1. InOrder'
    BY <1>0, <1>1, <1>2 DEF InOrder
  <2>2. FindingsCountedOnce'
    BY <1>1, <1>2 DEF FindingsCountedOnce
  <2> QED BY <2>1, <2>2
<1>9. Weighed'
  <2>1. SampleWeight' = SampleWeight + Size[i.content] /\ SampleWeight \in Nat
    BY <1>0, <1>4, <1>5, SampleWeightGrows
  <2> DEFINE u == Weight(queue \cup opened)
             v == Weight(queue' \cup opened')
  <2>2. u = v + Size[i.content] /\ v \in Nat /\ Size[i.content] \in Nat
    BY <1>1, <1>4, ItemsAre
  <2>3. u + SampleWeight <= total /\ total \in Nat
    BY <1>0 DEF Weighed, TypeOK
  <2> HIDE DEF u, v
  <2>4. \A a, x, y, z \in Nat : (x + z) + y <= a => x + (y + z) <= a
    OBVIOUS
  <2>5. v + (SampleWeight + Size[i.content]) <= total
    BY <2>1, <2>2, <2>3, <2>4
  <2> QED BY <1>1, <2>1, <2>5 DEF Weighed, v
<1> QED BY <1>3, <1>5, <1>7, <1>8, <1>9 DEF FolderInv

LEMMA DuplicateInv == ASSUME NEW i, FolderInv, Duplicate(i) PROVE FolderInv'
<1> DEFINE c == i.content
<1>0. TypeOK /\ SamplesOK
  BY DEF FolderInv
<1>1. /\ Take(i) /\ UNCHANGED <<skipped, opened, analysed, failures>> /\ c \in DOMAIN samples
      /\ samples' = [samples EXCEPT ![c].paths = @ \cup {i.path}]
  BY DEF Duplicate, Works
<1> HIDE DEF c
<1>2. /\ DOMAIN samples' = DOMAIN samples
      /\ samples'[c] = [samples[c] EXCEPT !.paths = @ \cup {i.path}]
      /\ \A d \in DOMAIN samples : d # c => samples'[d] = samples[d]
      /\ samples' = [d \in DOMAIN samples' |-> samples'[d]]
  BY <1>0, <1>1 DEF SamplesOK
<1> DEFINE s == samples[c]
<1>3. /\ s = [paths |-> s.paths, error |-> s.error] /\ IsFiniteSet(s.paths) /\ s.error \in BOOLEAN
  BY <1>0, <1>1 DEF SamplesOK
<1> HIDE DEF s
<1>4. samples'[c] = [paths |-> s.paths \cup {i.path}, error |-> s.error]
  BY <1>2, <1>3 DEF s
<1>5. SamplesOK'
  <2>1. IsFiniteSet(s.paths \cup {i.path})
    BY <1>3, FS_AddElement
  <2>2. ASSUME NEW d \in DOMAIN samples'
        PROVE  /\ samples'[d] = [paths |-> samples'[d].paths, error |-> samples'[d].error]
               /\ IsFiniteSet(samples'[d].paths) /\ samples'[d].error \in BOOLEAN
    <3>1. CASE d = c
      BY <1>3, <1>4, <2>1, <3>1
    <3>2. CASE d # c
      BY <1>0, <1>2, <3>2 DEF SamplesOK
    <3> QED BY <3>1, <3>2
  <2>3. IsFiniteSet(DOMAIN samples') /\ (analysed \in [Contents -> Nat])' /\ ContentAnalysedOnce'
    BY <1>0, <1>1, <1>2 DEF SamplesOK, ContentAnalysedOnce
  <2> QED BY <1>2, <2>2, <2>3 DEF SamplesOK
<1>6. failures' \in 0..MaxFailures
  BY <1>0, <1>1 DEF TypeOK
<1>7. /\ DOMAIN samples' = DOMAIN samples \cup {c}
      /\ samples'[c].paths = (IF c \in DOMAIN samples THEN samples[c].paths ELSE {}) \cup {i.path}
      /\ \A d \in DOMAIN samples : d # c => samples'[d].paths = samples[d].paths
  BY <1>1, <1>2, <1>4 DEF s
<1> QED BY <1>1, <1>5, <1>6, <1>7, RecordedInv DEF c

LEMMA AnalyseInv == ASSUME NEW i, FolderInv, Analyse(i) PROVE FolderInv'
<1> DEFINE c == i.content
<1>0. TypeOK /\ SamplesOK
  BY DEF FolderInv
<1>1. /\ Take(i) /\ UNCHANGED <<skipped, opened>> /\ c \notin DOMAIN samples
      /\ analysed' = [analysed EXCEPT ![c] = @ + 1]
  BY DEF Analyse
<1>2. PICK error \in BOOLEAN :
        /\ IF error THEN Fails ELSE Works
        /\ samples' = [d \in DOMAIN samples \cup {c} |->
                         IF d = c THEN [paths |-> {i.path}, error |-> error] ELSE samples[d]]
  BY DEF Analyse
<1>3. c \in Contents
  <2>1. i \in queue
    BY <1>1 DEF Take, Round, Biggest
  <2> QED BY <2>1, Popped, ItemsAre
<1> HIDE DEF c
<1>4. failures' \in 0..MaxFailures
  BY <1>0, <1>2, FolderScanAssumption DEF TypeOK, Fails, Works
<1>5. /\ DOMAIN samples' = DOMAIN samples \cup {c} /\ samples'[c] = [paths |-> {i.path}, error |-> error]
      /\ \A d \in DOMAIN samples : d # c => samples'[d] = samples[d]
      /\ samples' = [d \in DOMAIN samples' |-> samples'[d]]
  BY <1>2
<1>6. SamplesOK'
  <2>1. IsFiniteSet({i.path}) /\ IsFiniteSet(DOMAIN samples')
    <3>1. IsFiniteSet(DOMAIN samples)
      BY <1>0 DEF SamplesOK
    <3>2. IsFiniteSet(DOMAIN samples \cup {c})
      BY <3>1, FS_AddElement
    <3> QED BY <1>5, <3>2, FS_Singleton
  <2>2. ASSUME NEW d \in DOMAIN samples'
        PROVE  /\ samples'[d] = [paths |-> samples'[d].paths, error |-> samples'[d].error]
               /\ IsFiniteSet(samples'[d].paths) /\ samples'[d].error \in BOOLEAN
    <3>1. CASE d = c
      BY <1>5, <2>1, <3>1
    <3>2. CASE d # c
      BY <1>0, <1>5, <3>2 DEF SamplesOK
    <3> QED BY <3>1, <3>2
  <2>3. analysed \in [Contents -> Nat] /\ \A d \in Contents : analysed[d] = IF d \in DOMAIN samples THEN 1 ELSE 0
    BY <1>0 DEF SamplesOK, ContentAnalysedOnce
  <2>4. analysed' \in [Contents -> Nat]
    BY <1>1, <1>3, <2>3
  <2>5. \A d \in Contents : analysed'[d] = IF d \in DOMAIN samples' THEN 1 ELSE 0
    <3>1. analysed[c] = 0 /\ analysed'[c] = 1 /\ \A d \in Contents : d # c => analysed'[d] = analysed[d]
      BY <1>1, <1>3, <2>3
    <3> QED BY <1>5, <2>3, <3>1
  <2> QED BY <1>5, <2>1, <2>2, <2>4, <2>5 DEF SamplesOK, ContentAnalysedOnce
<1>7. /\ DOMAIN samples' = DOMAIN samples \cup {c}
      /\ samples'[c].paths = (IF c \in DOMAIN samples THEN samples[c].paths ELSE {}) \cup {i.path}
      /\ \A d \in DOMAIN samples : d # c => samples'[d].paths = samples[d].paths
  BY <1>1, <1>5
<1> QED BY <1>1, <1>4, <1>6, <1>7, RecordedInv DEF c

\* Steps that leave the files where they are.
LEMMA StillInv ==
    ASSUME FolderInv, UNCHANGED <<heapv, skipped, outv>>, TypeOK', InOrder', FindingsCountedOnce'
    PROVE  FolderInv'
<1>0. TypeOK /\ EveryFileHasOnePlace /\ Sound(Heap) /\ Nested /\ SamplesOK /\ InOrder /\ Weighed
  BY DEF FolderInv
<1> USE DEF heapv, outv
<1>1. EveryFileHasOnePlace'
  <2>1. Shared(PathsOf(queue), PathsOf(opened), dropped, SamplePaths, skipped \cap enqueued, enqueued)
    BY <1>0, Places DEF EveryFileHasOnePlace, PathsOf, SamplePaths
  <2>2. SamplePaths' = SamplePaths
    BY DEF SamplePaths
  <2>3. Shared(PathsOf(queue'), PathsOf(opened'), dropped', SamplePaths', skipped' \cap enqueued', enqueued')
    BY <2>1, <2>2
  <2> QED BY <2>3, Places DEF EveryFileHasOnePlace, PathsOf, SamplePaths
<1>2. Sound(Heap)'
  BY <1>0 DEF Heap, Sound
<1>3. Nested' /\ SamplesOK'
  BY <1>0 DEF Nested, SamplesOK, ContentAnalysedOnce
<1>4. Weighed'
  BY <1>0 DEF Weighed, SampleWeight
<1> QED BY <1>1, <1>2, <1>3, <1>4 DEF FolderInv

LEMMA ScanEndsInv == FolderInv /\ ScanEnds => FolderInv'
<1> SUFFICES ASSUME FolderInv, ScanEnds PROVE FolderInv'
  OBVIOUS
<1>1. /\ pc = "scan" /\ pc' = "merge" /\ UNCHANGED <<heapv, skipped, outv, flag, interrupted, index, failures>>
  BY DEF ScanEnds, Works
<1>2. TypeOK /\ InOrder /\ FindingsCountedOnce
  BY DEF FolderInv
<1>3. TypeOK' /\ InOrder'
  BY <1>1, <1>2 DEF TypeOK, InOrder, heapv, outv
<1>4. FindingsCountedOnce'
  BY <1>1, <1>2 DEF InOrder, FindingsCountedOnce
<1> QED BY <1>1, <1>3, <1>4, StillInv

LEMMA CtrlCInv == FolderInv /\ CtrlC => FolderInv'
<1> SUFFICES ASSUME FolderInv, CtrlC PROVE FolderInv'
  OBVIOUS
<1>1. /\ ~Over /\ UNCHANGED <<heapv, skipped, outv, interrupted, index, failures>>
      /\ pc' \in {pc, "exit"} /\ flag' \in {flag, TRUE}
  BY DEF CtrlC
<1>2. TypeOK /\ InOrder /\ FindingsCountedOnce
  BY DEF FolderInv
<1>3. TypeOK' /\ InOrder'
  BY <1>1, <1>2 DEF TypeOK, InOrder, heapv, outv, Over
<1>4. FindingsCountedOnce'
  BY <1>1, <1>2 DEF InOrder, FindingsCountedOnce, Over
<1> QED BY <1>1, <1>3, <1>4, StillInv

LEMMA MergeInv == FolderInv /\ Merge => FolderInv'
<1> SUFFICES ASSUME FolderInv, Merge PROVE FolderInv'
  OBVIOUS
<1>1. pc = "merge" /\ UNCHANGED <<heapv, skipped, outv, flag, interrupted>>
  BY DEF Merge
<1>2. TypeOK /\ InOrder /\ FindingsCountedOnce /\ SamplesOK
  BY DEF FolderInv
<1>3. CASE /\ Works /\ pc' = "done"
           /\ index' = [written |-> TRUE, patterns |-> Patterns, samples |-> Cardinality(DOMAIN samples),
                        interrupted |-> interrupted]
  <2>1. index'.written = TRUE /\ index'.patterns = Patterns
    BY <1>3
  <2>2. TypeOK' /\ InOrder'
    BY <1>1, <1>2, <1>3, <2>1 DEF TypeOK, InOrder, heapv, outv, Works
  <2>3. \A c \in DOMAIN samples : IsFiniteSet(Rows(c))
    BY <1>2, FS_EmptySet, FolderScanAssumption DEF Rows, TypeOK
  <2>4. SumFunction([p \in Patterns |-> p.count]) = SumFunction([c \in DOMAIN samples |-> Cardinality(Rows(c))])
    BY <1>2, <2>3, PatternsCount DEF SamplesOK
  <2>5. FindingsCountedOnce'
    <3>1. samples' = samples
      BY <1>1 DEF outv
    <3>2. \A c \in DOMAIN samples : Rows(c)' = Rows(c)
      BY <3>1 DEF Rows
    <3>3. SumFunction([p \in index'.patterns |-> p.count]) = SumFunction([c \in DOMAIN samples' |-> Cardinality(Rows(c)')])
      BY <2>1, <2>4, <3>1 DEF Rows
    <3> QED BY <3>3 DEF FindingsCountedOnce
  <2> QED BY <1>1, <2>2, <2>5, StillInv
<1>4. CASE Fails /\ pc' = "err" /\ UNCHANGED index
  <2>1. TypeOK'
    BY <1>1, <1>2, <1>4, FolderScanAssumption DEF TypeOK, heapv, outv, Fails
  <2>2. InOrder' /\ FindingsCountedOnce'
    BY <1>1, <1>2, <1>4 DEF InOrder, FindingsCountedOnce, heapv, outv
  <2> QED BY <1>1, <2>1, <2>2, StillInv
<1> QED BY <1>3, <1>4 DEF Merge

LEMMA FolderInvariant == Spec => []FolderInv
<1>1. FolderInv /\ [Next]_vars => FolderInv'
  <2> SUFFICES ASSUME FolderInv, [Next]_vars PROVE FolderInv'
    OBVIOUS
  <2>1. CASE ScanItem
    <3>1. PICK i \in queue : Skip(i) \/ HandleArchive(i) \/ Duplicate(i) \/ Analyse(i)
      BY <2>1 DEF ScanItem
    <3> QED BY <3>1, SkipInv, HandleArchiveInv, DuplicateInv, AnalyseInv
  <2>2. CASE UNCHANGED vars
    <3>1. TypeOK' /\ InOrder' /\ FindingsCountedOnce'
      BY <2>2 DEF FolderInv, TypeOK, InOrder, FindingsCountedOnce, vars, heapv, outv, Rows
    <3> QED BY <2>2, <3>1, StillInv DEF vars
  <2> QED BY <2>1, <2>2, WalkInv, InterruptedInv, ScanEndsInv, MergeInv, CtrlCInv DEF Next, Scan
<1> QED BY <1>1, InitInv, PTL DEF Spec

-----------------------------------------------------------------------------
(* The theorems                                                            *)

\* The report of a scan (ScanResult) is complete and says each thing once, for
\* every folder and whatever its archives hold: a file that entered the heap is
\* waiting, opened, skipped, listed by one sample, or the one that was popped
\* when Ctrl-C was seen.
THEOREM FilesHaveOnePlace == Spec => []EveryFileHasOnePlace
<1>1. FolderInv => EveryFileHasOnePlace
  BY DEF FolderInv
<1> QED BY <1>1, FolderInvariant, PTL

\* --max-files, --max-bytes and --archive-depth bound the work of a scan however
\* archives nest, a content is analysed once, and its findings count once.
THEOREM ScanIsBounded == Spec => []WorkIsBounded
<1>1. FolderInv => WorkIsBounded
  <2> SUFFICES ASSUME FolderInv PROVE WorkIsBounded
    OBVIOUS
  <2>1. TypeOK /\ ContentAnalysedOnce /\ FindingsCountedOnce
    BY DEF FolderInv, SamplesOK
  <2>2. WithinLimits
    <3> DEFINE u == Weight(queue \cup opened)
    <3>1. Cardinality(queue) <= MaxFiles /\ total <= MaxBytes /\ total \in Nat /\ MaxBytes \in Nat
      BY FolderScanAssumption DEF FolderInv, Sound, Heap
    <3>2. SampleWeight \in Nat
      BY SampleWeightNat DEF FolderInv
    <3>3. u \in Nat
      <4>1. IsFiniteSet(queue) /\ IsFiniteSet(opened) /\ \A j \in queue \cup opened : IsItem(j)
        BY DEF FolderInv, Sound, Heap, Nested
      <4>2. IsFiniteSet(queue \cup opened)
        BY <4>1, FS_Union
      <4> QED BY <4>1, <4>2, WeightNat
    <3>4. u + SampleWeight <= total
      BY DEF FolderInv, Weighed
    <3> HIDE DEF u
    <3>5. \A a, b, x, y \in Nat : x + y <= a /\ a <= b => x + y <= b
      OBVIOUS
    <3>6. u + SampleWeight <= MaxBytes
      BY <3>1, <3>2, <3>3, <3>4, <3>5
    <3> QED BY <3>1, <3>6 DEF WithinLimits, u, Weight, SampleWeight
  <2>3. DepthLimited
    <3>1. \A i \in opened : i.level < ArchiveDepth
      BY DEF FolderInv, Nested
    <3> QED BY <3>1 DEF FolderInv, Nested, DepthLimited
  <2> QED BY <2>1, <2>2, <2>3 DEF WorkIsBounded
<1> QED BY <1>1, FolderInvariant, PTL

-----------------------------------------------------------------------------
(* The benchmark: the input of a case                                      *)

\* Preparing an input is a matter of cases.
LEMMA PreparedTwice ==
    ASSUME NEW x, IsPrepareInput(x)
    PROVE  LET of == PrepareTwice(x)
               first == of[1] again == of[2]
           IN  first.ok /\ first.path = "output" =>
                 /\ "output" \in first.files
                 /\ again.ok
                 /\ (x.args.build_fixtures \/ x.args.build # "missing") => again.path = "output"
<1> DEFINE first == PrepareCaseInput(x.args, x.build, x.files, x.machine)
           again == PrepareCaseInput(x.args, x.build, first.files, x.machine)
<1>1. PrepareTwice(x) = <<first, again>>
  BY DEF PrepareTwice
<1> SUFFICES ASSUME first.ok, first.path = "output"
             PROVE  /\ "output" \in first.files
                    /\ again.ok
                    /\ (x.args.build_fixtures \/ x.args.build # "missing") => again.path = "output"
  BY <1>1
<1>2. /\ x.build /\ ShouldBuildFixture(x.args, x.files) /\ "output" \in first.files
      /\ \/ x.args.build = "missing" /\ first.files = x.files
         \/ /\ ~(x.args.build = "missing" /\ "output" \in x.files)
            /\ "source" \in first.files /\ SelectCCompiler(x.machine.explicit, x.machine.installed)
            /\ x.machine.compiles
  BY DEF PrepareCaseInput
<1>3. x.args.build_fixtures \/ x.args.build # "missing" => ShouldBuildFixture(x.args, first.files)
  BY <1>2 DEF ShouldBuildFixture, IsPrepareInput
<1> HIDE DEF first
<1>4. /\ again.ok
      /\ (x.args.build_fixtures \/ x.args.build # "missing") => again.path = "output"
  BY <1>2, <1>3 DEF PrepareCaseInput
<1> QED BY <1>2, <1>4

-----------------------------------------------------------------------------
(* The staging of pinned sources                                           *)

LEMMA ListAppend ==
    ASSUME NEW n \in Nat, NEW s, s = [i \in 1..n |-> s[i]], NEW e, NEW m, m = n + 1
    PROVE  Append(s, e) = [i \in 1..m |-> IF i = m THEN e ELSE s[i]]
<1> DEFINE S == {s[i] : i \in 1..n} \cup {e}
<1>1. \A i \in 1..n : s[i] \in S
  OBVIOUS
<1>2. s \in Seq(S) /\ Len(s) = n /\ e \in S
  <2> HIDE DEF S
  <2>1. s \in [1..n -> S]
    BY <1>1
  <2>2. s \in Seq(S) /\ Len(s) = n
    BY <2>1
  <2> QED BY <2>2 DEF S
<1> HIDE DEF S
<1>3. Append(s, e) \in Seq(S) /\ Len(Append(s, e)) = n + 1
  BY <1>2, AppendProperties
<1>4. \A i \in 1..n : Append(s, e)[i] = s[i]
  BY <1>2, AppendProperties
<1>5. Append(s, e)[n + 1] = e
  BY <1>2, AppendProperties
<1>6. \A i \in 1..m : Append(s, e)[i] = IF i = m THEN e ELSE s[i]
  BY <1>4, <1>5
<1>7. DOMAIN Append(s, e) = 1..m /\ Append(s, e) = [i \in DOMAIN Append(s, e) |-> Append(s, e)[i]]
  BY <1>3, LenProperties
<1> QED BY <1>6, <1>7

\* A source that is ready is at its commit, which its directory holds.
SourceOk(source, key) ==
    StatusReady(source.status) => source.checked_out = key[2] /\ source.dir = key[2]

\* What holds of the cases staged so far.
RowOk(r, c, acc, mode, w) ==
    /\ r.of = c
    /\ StatusReady(r.status) =>
         /\ c.url # None /\ c.ref # None /\ c.pinned
         /\ <<c.url, c.ref>> \in DOMAIN acc.staged
         /\ r.checked_out = c.ref /\ acc.staged[<<c.url, c.ref>>].dir = c.ref
         /\ mode = "build" => BuildPlanForCase(c, w)
StageInv(acc, n, x) ==
    /\ acc = [cases |-> acc.cases, staged |-> acc.staged, dirs |-> acc.dirs]
    /\ acc.cases = [i \in 1..n |-> acc.cases[i]]
    /\ DOMAIN acc.dirs = DOMAIN x.dirs
    /\ \A key \in DOMAIN acc.staged :
        /\ key \in DOMAIN acc.dirs /\ acc.staged[key].dir = acc.dirs[key]
        /\ SourceOk(acc.staged[key], key)
    /\ \A i \in 1..n : RowOk(acc.cases[i], x.cases[i], acc, x.mode, x.machine)

LEMMA GitSourceOk ==
    ASSUME NEW url, NEW ref, NEW dir, NEW w
    PROVE  SourceOk(StageGitSource(ref, dir, w), <<url, ref>>)
BY DEF SourceOk, StageGitSource, CheckoutPinned, Staged, StatusReady

\* A row of a case that is not staged.
Plain(acc, c, s) ==
    [cases |-> Append(acc.cases, [of |-> c, status |-> s, checked_out |-> None]),
     staged |-> acc.staged, dirs |-> acc.dirs]

LEMMA PlainKeeps ==
    ASSUME NEW x, NEW n \in Nat, NEW m, m = n + 1, NEW acc, StageInv(acc, n, x), NEW s, ~StatusReady(s)
    PROVE  StageInv(Plain(acc, x.cases[m], s), m, x)
<1> DEFINE e == [of |-> x.cases[m], status |-> s, checked_out |-> None]
           a == Plain(acc, x.cases[m], s)
<1>1. a.cases = [i \in 1..m |-> IF i = m THEN e ELSE acc.cases[i]]
  <2>1. acc.cases = [i \in 1..n |-> acc.cases[i]]
    BY DEF StageInv
  <2>2. a.cases = Append(acc.cases, e)
    BY DEF Plain
  <2> HIDE DEF a, e
  <2> QED BY <2>1, <2>2, ListAppend
<1>2. /\ a = [cases |-> a.cases, staged |-> a.staged, dirs |-> a.dirs]
      /\ a.staged = acc.staged /\ a.dirs = acc.dirs
  BY DEF Plain
<1>3. RowOk(e, x.cases[m], a, x.mode, x.machine)
  BY DEF RowOk
<1> HIDE DEF a, e
<1>4. \A i \in 1..m : i # m => i \in 1..n
  OBVIOUS
<1>5. ASSUME NEW i \in 1..m PROVE RowOk(a.cases[i], x.cases[i], a, x.mode, x.machine)
  <2>1. CASE i = m
    BY <1>1, <1>3, <2>1
  <2>2. CASE i # m
    <3>1. RowOk(acc.cases[i], x.cases[i], acc, x.mode, x.machine) /\ a.cases[i] = acc.cases[i]
      BY <1>1, <1>4, <2>2 DEF StageInv
    <3> QED BY <1>2, <3>1 DEF RowOk
  <2> QED BY <2>1, <2>2
<1>6. a.cases = [i \in 1..m |-> a.cases[i]]
  BY <1>1
<1>7. StageInv(a, m, x)
  BY <1>2, <1>5, <1>6 DEF StageInv
<1> QED BY <1>7 DEF a

\* The row of a case whose source is staged, now or with an earlier case, and
\* what is kept of it.
SourceRow(c, source, mode, w) ==
    [of |-> c, status |-> CaseStageStatusForMode(mode, c, source, w), checked_out |-> source.checked_out]
StagedWith(acc, key, source) ==
    [k \in DOMAIN acc.staged \cup {key} |-> IF k = key THEN source ELSE acc.staged[k]]
DirsWith(acc, key, source) ==
    IF key \in DOMAIN acc.staged THEN acc.dirs ELSE [acc.dirs EXCEPT ![key] = source.dir]

LEMMA StagedKeeps ==
    ASSUME NEW x, NEW n \in Nat, NEW m, m = n + 1, NEW acc, StageInv(acc, n, x),
           NEW c, c = x.cases[m], c.url # None, c.ref # None, c.pinned,
           NEW key, key = <<c.url, c.ref>>, key \in DOMAIN x.dirs,
           NEW source, SourceOk(source, key), key \in DOMAIN acc.staged => source = acc.staged[key],
           NEW a, a = [cases |-> a.cases, staged |-> a.staged, dirs |-> a.dirs],
           a.cases = Append(acc.cases, SourceRow(c, source, x.mode, x.machine)),
           a.staged = StagedWith(acc, key, source), a.dirs = DirsWith(acc, key, source)
    PROVE  StageInv(a, m, x)
<1> DEFINE e == SourceRow(c, source, x.mode, x.machine)
<1>1. a.cases = [i \in 1..m |-> IF i = m THEN e ELSE acc.cases[i]]
  <2>1. acc.cases = [i \in 1..n |-> acc.cases[i]]
    BY DEF StageInv
  <2>2. a.cases = Append(acc.cases, e)
    OBVIOUS
  <2> HIDE DEF e
  <2> QED BY <2>1, <2>2, ListAppend
<1>2. /\ a = [cases |-> a.cases, staged |-> a.staged, dirs |-> a.dirs]
      /\ DOMAIN a.staged = DOMAIN acc.staged \cup {key}
      /\ \A k \in DOMAIN a.staged : a.staged[k] = IF k = key THEN source ELSE acc.staged[k]
      /\ DOMAIN a.dirs = DOMAIN x.dirs
      /\ \A k \in DOMAIN x.dirs : a.dirs[k] = IF k = key THEN source.dir ELSE acc.dirs[k]
  <2> DEFINE st == StagedWith(acc, key, source)
             di == DirsWith(acc, key, source)
  <2>1. DOMAIN st = DOMAIN acc.staged \cup {key} /\ \A k \in DOMAIN st : st[k] = IF k = key THEN source ELSE acc.staged[k]
    BY DEF StagedWith
  <2>2. DOMAIN acc.dirs = DOMAIN x.dirs /\ (key \in DOMAIN acc.staged => acc.staged[key].dir = acc.dirs[key])
    BY DEF StageInv
  <2>3. DOMAIN di = DOMAIN x.dirs /\ \A k \in DOMAIN x.dirs : di[k] = IF k = key THEN source.dir ELSE acc.dirs[k]
    <3>1. CASE key \in DOMAIN acc.staged
      BY <2>2, <3>1 DEF DirsWith
    <3>2. CASE key \notin DOMAIN acc.staged
      BY <2>2, <3>2 DEF DirsWith
    <3> QED BY <3>1, <3>2
  <2>4. st = a.staged /\ di = a.dirs
    OBVIOUS
  <2> HIDE DEF st, di
  <2> QED BY <2>1, <2>3, <2>4
<1>3. RowOk(e, c, a, x.mode, x.machine)
  <2>1. StatusReady(e.status) => StatusReady(source.status) /\ (x.mode = "build" => BuildPlanForCase(c, x.machine))
    BY DEF SourceRow, CaseStageStatusForMode, StatusReady
  <2>2. e.of = c /\ e.checked_out = source.checked_out
    BY DEF SourceRow
  <2> HIDE DEF e
  <2>3. key[2] = c.ref /\ key \in DOMAIN a.staged /\ a.staged[key] = source
    BY <1>2
  <2> QED BY <2>1, <2>2, <2>3 DEF RowOk, SourceOk
<1> HIDE DEF e
<1>4. ASSUME NEW k \in DOMAIN a.staged
      PROVE  k \in DOMAIN a.dirs /\ a.staged[k].dir = a.dirs[k] /\ SourceOk(a.staged[k], k)
  <2>1. CASE k = key
    <3>1. a.staged[key] = source /\ a.dirs[key] = source.dir /\ key \in DOMAIN a.dirs
      BY <1>2, Zenon
    <3> QED BY <2>1, <3>1, Zenon
  <2>2. CASE k # key
    <3>1. k \in DOMAIN acc.staged
      BY <1>2, <2>2
    <3>2. k \in DOMAIN x.dirs /\ acc.staged[k].dir = acc.dirs[k] /\ SourceOk(acc.staged[k], k)
      BY <3>1 DEF StageInv
    <3> QED BY <1>2, <2>2, <3>2
  <2> QED BY <2>1, <2>2
<1>5. ASSUME NEW i \in 1..m PROVE RowOk(a.cases[i], x.cases[i], a, x.mode, x.machine)
  <2>1. CASE i = m
    BY <1>1, <1>3, <2>1
  <2>2. CASE i # m
    <3>0. i \in 1..n
      BY <2>2
    <3>1. RowOk(acc.cases[i], x.cases[i], acc, x.mode, x.machine) /\ a.cases[i] = acc.cases[i]
      BY <1>1, <2>2, <3>0 DEF StageInv
    <3>2. \A k \in DOMAIN acc.staged : k \in DOMAIN a.staged /\ a.staged[k] = acc.staged[k]
      BY <1>2
    <3> QED BY <3>1, <3>2 DEF RowOk
  <2> QED BY <2>1, <2>2
<1>6. a.cases = [i \in 1..m |-> a.cases[i]]
  BY <1>1
<1> QED BY <1>2, <1>4, <1>5, <1>6 DEF StageInv

LEMMA StageCaseKeeps ==
    ASSUME NEW x, IsStageInput(x), NEW n \in Nat, NEW m, m = n + 1, m \in DOMAIN x.cases, NEW acc, StageInv(acc, n, x)
    PROVE  StageInv(StageCase(acc, x.cases[m], x.mode, x.machine), m, x)
<1> DEFINE c == x.cases[m]
           key == <<c.url, c.ref>>
           source == IF key \in DOMAIN acc.staged THEN acc.staged[key]
                     ELSE StageGitSource(c.ref, acc.dirs[key], x.machine)
           a == StageCase(acc, c, x.mode, x.machine)
<1>1. CASE c.url # None /\ c.ref # None /\ x.mode # "off" /\ c.pinned
  <2>1. key \in DOMAIN x.dirs
    BY <1>1 DEF IsStageInput, SourceDirFor
  <2>2. SourceOk(source, key)
    <3>1. CASE key \in DOMAIN acc.staged
      <4>1. SourceOk(acc.staged[key], key)
        BY <3>1 DEF StageInv
      <4> QED BY <3>1, <4>1
    <3>2. CASE key \notin DOMAIN acc.staged
      BY <3>2, GitSourceOk
    <3> QED BY <3>1, <3>2
  <2>3. /\ a = [cases |-> a.cases, staged |-> a.staged, dirs |-> a.dirs]
        /\ a.cases = Append(acc.cases, SourceRow(c, source, x.mode, x.machine))
        /\ a.staged = StagedWith(acc, key, source) /\ a.dirs = DirsWith(acc, key, source)
    BY <1>1 DEF StageCase, SourceDirFor, SourceRow, StagedWith, DirsWith
  <2>4. key \in DOMAIN acc.staged => source = acc.staged[key]
    OBVIOUS
  <2>5. c.url # None /\ c.ref # None /\ c.pinned
    BY <1>1
  <2>6. c = x.cases[m] /\ key = <<c.url, c.ref>>
    OBVIOUS
  <2> HIDE DEF a, c, source, key
  <2>7. StageInv(a, m, x)
    BY <2>1, <2>2, <2>3, <2>4, <2>5, <2>6, StagedKeeps
  <2> QED BY <2>7 DEF a, c
<1>2. CASE ~(c.url # None /\ c.ref # None /\ x.mode # "off" /\ c.pinned)
  <2>1. PICK s \in {"no_external_source_metadata", "no_source_ref", "not_requested", "manual_source_ref"} :
            a = Plain(acc, c, s)
    BY <1>2 DEF StageCase, Plain
  <2>3. ~StatusReady(s)
    BY DEF StatusReady
  <2> HIDE DEF a
  <2>4. StageInv(a, m, x)
    BY <2>1, <2>3, PlainKeeps
  <2> QED BY <2>4 DEF a
<1> QED BY <1>1, <1>2

-----------------------------------------------------------------------------
\* g holds what is staged after each of the first m cases.
Stages(g, x, m) ==
    g = [n \in 0..m |-> IF n = 0 THEN [cases |-> <<>>, staged |-> <<>>, dirs |-> x.dirs]
                        ELSE StageCase(g[n - 1], x.cases[n], x.mode, x.machine)]

LEMMA StagesExist ==
    ASSUME NEW x, NEW m \in Nat
    PROVE  \E g : Stages(g, x, m)
<1> DEFINE first == [cases |-> <<>>, staged |-> <<>>, dirs |-> x.dirs]
           Next1(e, n) == StageCase(e, x.cases[n], x.mode, x.machine)
           R(g, k) == g = [n \in 0..k |-> IF n = 0 THEN first ELSE Next1(g[n - 1], n)]
           P == {n \in Nat : \E g : R(g, n)}
<1> HIDE DEF first, Next1
<1>1. 0 \in P
  <2> DEFINE g == [n \in 0..0 |-> first]
  <2>1. R(g, 0)
    <3>1. \A n \in 0..0 : n = 0
      OBVIOUS
    <3> QED BY <3>1
  <2> QED BY <2>1
<1>2. ASSUME NEW n \in P PROVE n + 1 \in P
  <2>1. PICK g : R(g, n)
    OBVIOUS
  <2> DEFINE e == Next1(g[n], n + 1)
             gg == [i \in 0..(n + 1) |-> IF i = n + 1 THEN e ELSE g[i]]
  <2>2. n \in Nat
    OBVIOUS
  <2>3. \A i \in 0..n : g[i] = IF i = 0 THEN first ELSE Next1(g[i - 1], i)
    BY <2>1
  <2> HIDE DEF e
  <2>4. ASSUME NEW i \in 0..(n + 1)
        PROVE  gg[i] = IF i = 0 THEN first ELSE Next1(gg[i - 1], i)
    <3>1. CASE i = n + 1
      <4>1. gg[i] = e /\ gg[n] = g[n] /\ i # 0 /\ i - 1 = n
        BY <2>2, <3>1
      <4> QED BY <3>1, <4>1 DEF e
    <3>2. CASE i # n + 1 /\ i # 0
      <4>1. i \in 0..n /\ i - 1 \in 0..(n + 1) /\ i - 1 # n + 1
        BY <2>2, <3>2
      <4>2. gg[i] = g[i] /\ gg[i - 1] = g[i - 1]
        BY <3>2, <4>1
      <4> QED BY <2>3, <3>2, <4>1, <4>2
    <3>3. CASE i = 0
      <4>1. 0 \in 0..n /\ 0 # n + 1
        BY <2>2
      <4> QED BY <2>3, <3>3, <4>1
    <3> QED BY <3>1, <3>2, <3>3
  <2>5. R(gg, n + 1)
    BY <2>4
  <2> HIDE DEF gg, R
  <2>6. \E h : R(h, n + 1)
    BY <2>5
  <2> QED BY <2>2, <2>6
<1>3. P = Nat
  <2>1. P \in SUBSET Nat
    OBVIOUS
  <2> HIDE DEF P
  <2> QED BY <1>1, <1>2, <2>1, NatSetInduction
<1>4. PICK g : R(g, m)
  BY <1>3
<1>5. Stages(g, x, m)
  BY <1>4 DEF Stages, first, Next1
<1> QED BY <1>5

\* The report is what is staged after the last case.
LEMMA StagedReport ==
    ASSUME NEW x, IsStageInput(x)
    PROVE  \E a : /\ StageInv(a, Len(x.cases), x)
                  /\ StageRun(x) = [status |-> OverallStageStatus(x.mode, a.cases), cases |-> a.cases, dirs |-> a.dirs]
<1> DEFINE g == CHOOSE f : f = [n \in 0..Len(x.cases) |->
                    IF n = 0 THEN [cases |-> <<>>, staged |-> <<>>, dirs |-> x.dirs]
                    ELSE StageCase(f[n - 1], x.cases[n], x.mode, x.machine)]
           L == Len(x.cases)
           a == g[L]
           P == {n \in Nat : n <= L => StageInv(g[n], n, x)}
<1>0. L \in Nat /\ DOMAIN x.cases = 1..L
  BY DEF IsStageInput, IsList
<1>1. \E f : Stages(f, x, L)
  BY <1>0, StagesExist
<1>2. Stages(g, x, L)
  BY <1>1 DEF Stages
<1>3. StageRun(x) = [status |-> OverallStageStatus(x.mode, a.cases), cases |-> a.cases, dirs |-> a.dirs]
  BY DEF StageRun, StageReport
<1> HIDE DEF g
<1>4. 0 \in P
  <2>1. g[0] = [cases |-> <<>>, staged |-> <<>>, dirs |-> x.dirs]
    BY <1>0, <1>2 DEF Stages
  <2>2. DOMAIN g[0].staged = {} /\ g[0].cases = [i \in 1..0 |-> g[0].cases[i]]
    BY <2>1
  <2>3. StageInv(g[0], 0, x)
    BY <2>1, <2>2 DEF StageInv
  <2> QED BY <2>3
<1>5. ASSUME NEW n \in P PROVE n + 1 \in P
  <2>1. n \in Nat /\ (n <= L => StageInv(g[n], n, x))
    OBVIOUS
  <2> SUFFICES ASSUME n + 1 <= L PROVE StageInv(g[n + 1], n + 1, x)
    BY <2>1
  <2>2. n <= L /\ n + 1 \in 0..L /\ n + 1 # 0 /\ (n + 1) - 1 = n /\ n + 1 \in DOMAIN x.cases
    BY <1>0, <2>1
  <2> HIDE DEF P, L
  <2>3. g[n + 1] = StageCase(g[n], x.cases[n + 1], x.mode, x.machine)
    BY <1>2, <2>2 DEF Stages
  <2>4. \A m : m = n + 1 => StageInv(StageCase(g[n], x.cases[m], x.mode, x.machine), m, x)
    BY <2>1, <2>2, StageCaseKeeps
  <2> QED BY <2>3, <2>4
<1>6. P = Nat
  <2>1. P \in SUBSET Nat
    OBVIOUS
  <2> HIDE DEF P
  <2> QED BY <1>4, <1>5, <2>1, NatSetInduction
<1>7. StageInv(a, L, x)
  BY <1>0, <1>6
<1> HIDE DEF a
<1> QED BY <1>3, <1>7 DEF a

\* ReadyMeansCheckedOut of one staging.
LEMMA ReadyIsCheckedOut ==
    ASSUME NEW x, IsStageInput(x), NEW report, report = StageRun(x), NEW i \in DOMAIN report.cases,
           \/ StatusReady(report.cases[i].status)
           \/ report.cases[i].of.pinned /\ StageGateReasons(report, x.mode) = {}
    PROVE  Usable(report.cases[i], report.dirs, x.mode, x.machine)
<1> DEFINE L == Len(x.cases)
<1>0. L \in Nat /\ DOMAIN x.cases = 1..L
  BY DEF IsStageInput, IsList
<1>1. PICK a : StageInv(a, L, x) /\ report = [status |-> OverallStageStatus(x.mode, a.cases), cases |-> a.cases, dirs |-> a.dirs]
  BY StagedReport
<1>2. report.cases = a.cases /\ report.dirs = a.dirs /\ report.status = OverallStageStatus(x.mode, a.cases)
  BY <1>1
<1>3. DOMAIN a.cases = 1..L /\ \A j \in 1..L : RowOk(a.cases[j], x.cases[j], a, x.mode, x.machine)
  BY <1>1 DEF StageInv
<1>4. ASSUME NEW j \in 1..L, StatusReady(a.cases[j].status)
      PROVE  Usable(a.cases[j], a.dirs, x.mode, x.machine) /\ a.cases[j].of.ref # None /\ a.cases[j].of.pinned
  <2> DEFINE c == x.cases[j]
             key == <<c.url, c.ref>>
  <2>1. /\ a.cases[j].of = c /\ c.ref # None /\ c.pinned /\ key \in DOMAIN a.staged
        /\ a.cases[j].checked_out = c.ref /\ a.staged[key].dir = c.ref
        /\ x.mode = "build" => BuildPlanForCase(c, x.machine)
    BY <1>3, <1>4 DEF RowOk
  <2>2. a.staged[key].dir = a.dirs[key]
    BY <1>1, <2>1 DEF StageInv
  <2> QED BY <2>1, <2>2 DEF Usable, SourceDirFor
<1>5. CASE StatusReady(report.cases[i].status)
  BY <1>2, <1>3, <1>4, <1>5
<1>6. CASE report.cases[i].of.pinned /\ StageGateReasons(report, x.mode) = {}
  <2>1. i \in 1..L
    BY <1>2, <1>3
  <2>2. report.cases # <<>>
    <3>1. DOMAIN <<>> = {}
      OBVIOUS
    <3> QED BY <1>2, <1>3, <2>1, <3>1
  <2> DEFINE pinned == {j \in DOMAIN a.cases : a.cases[j].of.ref # None /\ a.cases[j].of.pinned}
             ready  == {j \in DOMAIN a.cases : StatusReady(a.cases[j].status)}
  <2>3. OverallStageStatus(x.mode, a.cases) = "ready"
    <3>1. OverallStageStatus(x.mode, a.cases) # "not_applicable"
      BY DEF OverallStageStatus
    <3> QED BY <1>2, <1>6, <2>2, <3>1 DEF StageGateReasons
  <2>4. Cardinality(ready) = Cardinality(pinned)
    BY <2>3 DEF OverallStageStatus
  <2>5. ready \subseteq pinned /\ IsFiniteSet(pinned)
    <3>1. IsFiniteSet(1..L) /\ pinned \subseteq 1..L
      BY <1>0, <1>3, FS_Interval
    <3>2. IsFiniteSet(pinned)
      BY <3>1, FS_Subset
    <3>3. ready \subseteq pinned
      BY <1>3, <1>4
    <3> QED BY <3>2, <3>3
  <2>6. i \in pinned
    <3>1. a.cases[i].of = x.cases[i]
      BY <1>3, <2>1 DEF RowOk
    <3>2. x.cases[i].pinned => x.cases[i].ref # None
      BY <1>0, <2>1 DEF IsStageInput
    <3> QED BY <1>2, <1>3, <1>6, <2>1, <3>1, <3>2
  <2> HIDE DEF pinned, ready
  <2>7. ready = pinned
    BY <2>4, <2>5, FS_Subset
  <2>8. StatusReady(a.cases[i].status)
    BY <2>6, <2>7 DEF ready
  <2> QED BY <1>2, <1>4, <2>1, <2>8
<1> QED BY <1>5, <1>6

-----------------------------------------------------------------------------
(* The findings of a case, and sums over cases                             *)

\* Every rank has its row.
LEMMA EveryRankHasItsRow ==
    ASSUME NEW rows, IsList(rows), \A i \in DOMAIN rows : rows[i].risk \in Nat,
           NEW n \in 1..Len(rows)
    PROVE  \E i \in DOMAIN rows : Cardinality(Before(rows, i)) = n - 1
<1> DEFINE L == Len(rows)
           R == 1..L
           B(i) == Before(rows, i)
           f == [i \in R |-> Cardinality(B(i)) + 1]
<1>1. L \in Nat /\ DOMAIN rows = R /\ IsFiniteSet(R) /\ Cardinality(R) = L
  <2>1. L \in Nat /\ DOMAIN rows = R
    BY DEF IsList
  <2>2. IsFiniteSet(R) /\ Cardinality(R) = L
    BY <2>1, FS_Interval
  <2> QED BY <2>1, <2>2
<1>2. ASSUME NEW i \in R
      PROVE  IsFiniteSet(B(i)) /\ Cardinality(B(i)) \in Nat /\ Cardinality(B(i)) < L
  <2>1. B(i) \subseteq R /\ i \in R /\ i \notin B(i)
    BY <1>1 DEF Before
  <2> HIDE DEF B, R
  <2>2. IsFiniteSet(B(i)) /\ Cardinality(B(i)) <= Cardinality(R) /\ (Cardinality(B(i)) = Cardinality(R) => B(i) = R)
    BY <1>1, <2>1, FS_Subset
  <2>3. Cardinality(B(i)) \in Nat
    BY <2>2, FS_CardinalityType
  <2>4. Cardinality(B(i)) # L
    BY <1>1, <2>1, <2>2
  <2> QED BY <1>1, <2>2, <2>3, <2>4
<1>3. ASSUME NEW i \in R, NEW j \in B(i)
      PROVE  Cardinality(B(j)) < Cardinality(B(i))
  <2>1. j \in R /\ j \notin B(j)
    BY <1>1, <1>3 DEF Before
  <2>2. B(j) \subseteq B(i)
    <3>1. ASSUME NEW k \in B(j) PROVE k \in B(i)
      <4>1. /\ k \in R /\ j \in R /\ rows[k].risk \in Nat /\ rows[j].risk \in Nat /\ rows[i].risk \in Nat
            /\ rows[k].risk > rows[j].risk \/ (rows[k].risk = rows[j].risk /\ k < j)
            /\ rows[j].risk > rows[i].risk \/ (rows[j].risk = rows[i].risk /\ j < i)
        BY <1>1, <1>3, <3>1 DEF Before
      <4>2. rows[k].risk > rows[i].risk \/ (rows[k].risk = rows[i].risk /\ k < i)
        BY <1>1, <4>1
      <4> QED BY <1>1, <4>1, <4>2 DEF Before
    <3> QED BY <3>1
  <2>3. B(j) # B(i)
    BY <1>3, <2>1
  <2>4. IsFiniteSet(B(i)) /\ Cardinality(B(i)) \in Nat /\ Cardinality(B(j)) \in Nat
    BY <1>2, <2>1
  <2> HIDE DEF B
  <2>5. Cardinality(B(j)) <= Cardinality(B(i)) /\ (Cardinality(B(j)) = Cardinality(B(i)) => B(j) = B(i))
    BY <2>2, <2>4, FS_Subset
  <2> QED BY <2>3, <2>4, <2>5
<1>4. ASSUME NEW i \in R, NEW j \in R, i # j PROVE i \in B(j) \/ j \in B(i)
  BY <1>1, <1>4 DEF Before
<1> HIDE DEF B
<1>5. f \in [R -> R]
  <2>1. \A i \in R : Cardinality(B(i)) + 1 \in R
    BY <1>1, <1>2
  <2> QED BY <2>1
<1>6. \A i, j \in R : f[i] = f[j] => i = j
  <2> SUFFICES ASSUME NEW i \in R, NEW j \in R, i # j PROVE f[i] # f[j]
    OBVIOUS
  <2>1. Cardinality(B(i)) # Cardinality(B(j))
    BY <1>2, <1>3, <1>4
  <2>2. Cardinality(B(i)) \in Nat /\ Cardinality(B(j)) \in Nat
    BY <1>2
  <2> QED BY <2>1, <2>2
<1>7. f \in Surjection(R, R)
  <2> HIDE DEF f, R
  <2>1. f \in Injection(R, R)
    BY <1>5, <1>6, Fun_IsInj
  <2> QED BY <1>1, <2>1, FS_Injection
<1>8. n \in R
  OBVIOUS
<1>9. PICK i \in R : f[i] = n
  BY <1>7, <1>8 DEF Surjection
<1>10. Cardinality(B(i)) = n - 1
  BY <1>2, <1>9
<1> QED BY <1>1, <1>10 DEF B

LEMMA MinOfTwo ==
    ASSUME NEW a \in Nat, NEW b \in Nat
    PROVE  Min({a, b}) \in {a, b} /\ Min({a, b}) <= a /\ Min({a, b}) <= b /\ Min({a, b}) \in Nat
<1>1. \E m \in {a, b} : \A y \in {a, b} : m <= y
  <2>1. a <= b \/ b <= a
    OBVIOUS
  <2> QED BY <2>1
<1>2. Min({a, b}) \in {a, b} /\ \A y \in {a, b} : Min({a, b}) <= y
  BY <1>1 DEF Min
<1> QED BY <1>2

\* What is read is a list of rows that were written.
LEMMA ReadIsWritten ==
    ASSUME NEW rows, IsList(rows), \A i \in DOMAIN rows : rows[i].risk \in Nat, NEW top_k \in Nat
    PROVE  /\ \E m \in Nat : DOMAIN ReadFindings(rows, top_k) = 1..m
           /\ \A r \in DOMAIN ReadFindings(rows, top_k) : \E i \in DOMAIN rows : ReadFindings(rows, top_k)[r] = rows[i]
<1> DEFINE m == Min({top_k, Len(rows)})
           found == ReadFindings(rows, top_k)
<1>1. m \in Nat /\ m <= Len(rows) /\ Len(rows) \in Nat
  BY MinOfTwo DEF IsList
<1> HIDE DEF m
<1>2. DOMAIN found = 1..m
  BY DEF ReadFindings, m
<1>3. ASSUME NEW r \in DOMAIN found PROVE \E i \in DOMAIN rows : found[r] = rows[i]
  <2>1. r \in 1..m /\ r \in 1..Len(rows)
    BY <1>1, <1>2
  <2>2. \E i \in DOMAIN rows : Cardinality(Before(rows, i)) = r - 1
    BY <2>1, EveryRankHasItsRow
  <2> DEFINE i == CHOOSE i \in DOMAIN rows : Cardinality(Before(rows, i)) = r - 1
  <2>3. i \in DOMAIN rows
    BY <2>2
  <2>4. found[r] = rows[i]
    BY <2>1 DEF ReadFindings, m
  <2> HIDE DEF i
  <2> QED BY <2>3, <2>4
<1> QED BY <1>1, <1>2, <1>3

\* The sum of a constant.
LEMMA SumConstant ==
    ASSUME NEW S, IsFiniteSet(S), NEW b \in Nat
    PROVE  SumFunction([x \in S |-> b]) = b * Cardinality(S)
<1> DEFINE f == [x \in S |-> b]
           Good(T) == SumFunction(Restrict(f, T)) = b * Cardinality(T)
           P == {T \in SUBSET S : Good(T)}
<1>0. f \in [S -> Nat]
  OBVIOUS
<1>1. Good({})
  <2>1. DOMAIN Restrict(f, {}) = {}
    BY DEF Restrict
  <2>2. SumFunction(Restrict(f, {})) = 0
    BY <2>1, SumEmpty
  <2>3. Cardinality({}) = 0
    BY FS_EmptySet
  <2> QED BY <2>2, <2>3
<1>2. ASSUME NEW T \in SUBSET S, Good(T), NEW x \in S \ T PROVE Good(T \cup {x})
  <2>1. f[x] = b
    OBVIOUS
  <2> HIDE DEF f
  <2>2. SumFunction(Restrict(f, T \cup {x})) = f[x] + SumFunction(Restrict(f, T))
    BY <1>0, SumOn
  <2>3. IsFiniteSet(T) /\ Cardinality(T) \in Nat
    BY FS_Subset, FS_CardinalityType
  <2>4. Cardinality(T \cup {x}) = Cardinality(T) + 1
    BY <2>3, FS_AddElement
  <2>5. \A n \in Nat : b * (n + 1) = b + b * n
    OBVIOUS
  <2> QED BY <1>2, <2>1, <2>2, <2>3, <2>4, <2>5
<1>3. S \in P
  <2> HIDE DEF Good
  <2>1. P \in SUBSET SUBSET S /\ {} \in P /\ \A T \in P : \A x \in S \ T : T \cup {x} \in P
    BY <1>1, <1>2
  <2> HIDE DEF P
  <2> QED BY <2>1, SetInduction
<1>4. Restrict(f, S) = f
  BY DEF Restrict
<1> HIDE DEF f
<1>5. SumFunction(f) = b * Cardinality(S)
  BY <1>3, <1>4
<1> QED BY <1>5 DEF f

\* Values of at most b whose mean is b are all b.
LEMMA MeanIsAttained ==
    ASSUME NEW S, IsFiniteSet(S), NEW f \in [S -> Nat], NEW b \in Nat,
           \A x \in S : f[x] <= b, SumFunction(f) >= b * Cardinality(S)
    PROVE  \A x \in S : f[x] = b
<1> DEFINE e == [x \in S |-> b - f[x]]
           c == [x \in S |-> b]
<1>1. e \in [S -> Nat] /\ c = [x \in S |-> f[x] + e[x]] /\ \A x \in S : e[x] = b - f[x] /\ f[x] \in Nat
  <2>1. \A x \in S : b - f[x] \in Nat /\ b = f[x] + (b - f[x])
    OBVIOUS
  <2> QED BY <2>1
<1>2. SumFunction(c) = b * Cardinality(S)
  BY SumConstant
<1> HIDE DEF e, c
<1>3. SumFunction([x \in S |-> f[x] + e[x]]) = SumFunction(f) + SumFunction(e)
  BY <1>1, SumAdd
<1>4. SumFunction(f) \in Nat /\ SumFunction(e) \in Nat
  BY <1>1, SumNat
<1>5. SumFunction(e) = 0
  <2>1. SumFunction(f) + SumFunction(e) = b * Cardinality(S)
    BY <1>1, <1>2, <1>3
  <2>2. \A p, q \in Nat : p >= p + q => q = 0
    OBVIOUS
  <2> QED BY <1>4, <2>1, <2>2
<1>6. ASSUME NEW x \in S PROVE f[x] = b
  <2>1. SumFunction(e) = e[x] + SumFunction([y \in S \ {x} |-> e[y]]) /\ SumFunction([y \in S \ {x} |-> e[y]]) \in Nat
    <3>1. e \in [S -> Nat]
      BY <1>1
    <3> QED BY <3>1, SumTake
  <2>2. e[x] \in Nat /\ e[x] = b - f[x] /\ f[x] \in Nat
    BY <1>1
  <2>3. \A p, q \in Nat : 0 = p + q => p = 0
    OBVIOUS
  <2>4. e[x] = 0
    BY <1>5, <2>1, <2>2, <2>3
  <2> QED BY <2>2, <2>4
<1> QED BY <1>6

-----------------------------------------------------------------------------
(* Grades                                                                  *)

LEMMA RatioIsPart ==
    ASSUME NEW tp \in Nat, NEW fp \in Nat, NEW clean \in BOOLEAN, NEW p, p = Ratio(tp, tp + fp, clean)
    PROVE  p \in Nat /\ p <= Scale /\ (p = Scale => fp = 0)
<1> DEFINE d == tp + fp
<1>1. CASE d = 0
  BY <1>1 DEF Ratio, Scale
<1>2. CASE d # 0
  <2>1. p = (60 * tp) \div d
    BY <1>2 DEF Ratio, Scale
  <2>2. d \in Nat /\ d > 0 /\ 60 * tp \in Nat
    BY <1>2
  <2> HIDE DEF d
  <2>3. p \in Int /\ d * p <= 60 * tp /\ 60 * tp < d * (p + 1)
    BY <2>1, <2>2
  <2>4. p \in Nat
    BY <2>2, <2>3
  <2>5. p <= 60
    <3> SUFFICES ASSUME p >= 61 PROVE FALSE
      BY <2>4
    <3>1. d * p >= d * 61
      BY <2>2, <2>4
    <3>2. d * 61 > 60 * tp
      BY <2>2 DEF d
    <3> QED BY <2>2, <2>3, <2>4, <3>1, <3>2
  <2>6. p = 60 => fp = 0
    BY <2>3 DEF d
  <2> QED BY <2>4, <2>5, <2>6 DEF Scale
<1> QED BY <1>1, <1>2

\* A grade is at most 5, and 5 only without a false positive.
LEMMA TopLevelIsPrecise ==
    ASSUME NEW c, IsCase(c), NEW m \in Nat, NEW found, DOMAIN found = 1..m, NEW packets, NEW reasons,
           NEW t, t = Tally(c, found, packets)
    PROVE  /\ Grade(c, reasons, t).level \in Nat
           /\ Grade(c, reasons, t).level <= 5 * Scale
           /\ Grade(c, reasons, t).level = 5 * Scale => t.false_positives = {}
<1> DEFINE tp == IF c.expected_clean THEN 0
                 ELSE Cardinality(t.matched_signatures) + Cardinality(t.matched \cap Required(c))
           fp == Cardinality(t.false_positives)
           precision == Ratio(tp, tp + fp, c.expected_clean)
           recall == Ratio(tp, ExpectedTotal(c), c.expected_clean)
           grade == Scale + 4 * precision
           level == IF recall >= Scale THEN grade ELSE Min({grade, 4 * Scale})
           g == Grade(c, reasons, t)
<1>1. g.level = IF reasons = {} THEN level ELSE Min({level, 4 * Scale})
  BY DEF Grade
<1>2. tp \in Nat /\ fp \in Nat /\ (fp = 0 => t.false_positives = {})
  <2>1. IsFiniteSet(DOMAIN found)
    BY FS_Interval
  <2>2. IsFiniteSet(t.false_positives)
    <3>1. t.false_positives \subseteq DOMAIN found
      BY DEF Tally, FalsePositives
    <3> QED BY <2>1, <3>1, FS_Subset
  <2>3. IsFiniteSet(t.matched_signatures)
    <3>1. IsFiniteSet({found[r].bug_class : r \in DOMAIN found})
      <4> DEFINE T == {found[r].bug_class : r \in DOMAIN found}
                 h == [r \in DOMAIN found |-> found[r].bug_class]
      <4>1. h \in Surjection(DOMAIN found, T)
        BY DEF Surjection
      <4> HIDE DEF h, T
      <4>2. IsFiniteSet(T)
        BY <2>1, <4>1, FS_Surjection
      <4> QED BY <4>2 DEF T
    <3>2. t.matched_signatures \subseteq {found[r].bug_class : r \in DOMAIN found}
      BY DEF Tally
    <3> QED BY <3>1, <3>2, FS_Subset
  <2>4. IsFiniteSet(t.matched \cap Required(c))
    <3>1. IsFiniteSet(DOMAIN c.expected)
      <4>1. Len(c.expected) \in Nat /\ DOMAIN c.expected = 1..Len(c.expected)
        BY DEF IsCase, IsList
      <4> QED BY <4>1, FS_Interval
    <3>2. t.matched \cap Required(c) \subseteq DOMAIN c.expected
      BY DEF Required
    <3> QED BY <3>1, <3>2, FS_Subset
  <2>5. fp \in Nat /\ (fp = 0 => t.false_positives = {})
    BY <2>2, FS_CardinalityType, FS_EmptySet
  <2>6. Cardinality(t.matched_signatures) \in Nat /\ Cardinality(t.matched \cap Required(c)) \in Nat
    BY <2>3, <2>4, FS_CardinalityType
  <2> QED BY <2>5, <2>6
<1> HIDE DEF fp, tp, g
<1>3. precision \in Nat /\ precision <= Scale /\ (precision = Scale => fp = 0)
  <2>1. c.expected_clean \in BOOLEAN
    BY DEF IsCase
  <2> QED BY <1>2, <2>1, RatioIsPart
<1> HIDE DEF precision, recall
<1>4. grade \in Nat /\ grade <= 300 /\ (grade = 300 => fp = 0)
  BY <1>3 DEF Scale
<1> HIDE DEF grade
<1>5. level \in Nat /\ level <= 300 /\ (level = 300 => fp = 0)
  <2>1. Min({grade, 240}) \in Nat /\ Min({grade, 240}) <= 240
    BY <1>4, MinOfTwo
  <2> QED BY <1>4, <2>1 DEF Scale
<1> HIDE DEF level
<1>6. Min({level, 240}) \in Nat /\ Min({level, 240}) <= 240
  BY <1>5, MinOfTwo
<1>7. g.level \in Nat /\ g.level <= 300 /\ (g.level = 300 => fp = 0)
  BY <1>1, <1>5, <1>6 DEF Scale
<1> QED BY <1>2, <1>7 DEF Scale, g

\* Without a reason against it, a case found all that it must.
LEMMA NoReasonNoMiss ==
    ASSUME NEW c, NEW args, NEW found, NEW packets, NEW t, t = Tally(c, found, packets),
           GateReasons(c, args, t) = {}, NEW i \in DOMAIN c.expected, ~c.expected[i].missed_ok
    PROVE  \E r \in DOMAIN found : r <= c.expected[i].min_rank /\ ShapeMatches(found[r], c.expected[i])
<1> DEFINE e == c.expected[i]
           hits == {r \in DOMAIN found : ExpectedFindingMatches(found[r], PacketOf(packets, found[r]), e, r)}
<1>1. i \notin t.missed
  <2>1. {<<"missed_expected_finding", c.expected[j].label>> : j \in t.missed} = {}
    BY DEF GateReasons
  <2> QED BY <2>1
<1>2. DOMAIN t.counts = DOMAIN c.expected /\ t.counts[i] = Cardinality(hits)
  BY DEF Tally, MatchCounts
<1>3. t.missed = {j \in DOMAIN t.counts : t.counts[j] = 0 /\ ~c.expected[j].missed_ok}
  BY DEF Tally
<1>4. Cardinality(hits) # 0
  BY <1>1, <1>2, <1>3
<1>5. hits # {}
  BY <1>4, FS_EmptySet
<1>6. PICK r \in hits : TRUE
  BY <1>5
<1> QED BY <1>6 DEF ExpectedFindingMatches

-----------------------------------------------------------------------------
(* Evidence                                                                *)

\* A probe's rows are about the sink it was seen at.
LEMMA RowsAreObserved ==
    ASSUME NEW findings, NEW packets, NEW expected, NEW probe,
           NEW e \in SynthesizeProbeEvidence(findings, packets, expected, probe, "real-9")
    PROVE  e.by.observed = e.sink
BY DEF SynthesizeProbeEvidence, ProbeSatisfiesPolicy

LEMMA EvidenceIsObserved ==
    ASSUME NEW c, NEW args, args.preset = "real-9", NEW w
    PROVE  /\ ~args.allow => AnalyseCase(c, args, w).evidence = {}
           /\ \A e \in AnalyseCase(c, args, w).evidence : e.by.observed = e.sink
<1> DEFINE run == AnalyseCase(c, args, w)
<1>1. ~args.allow => run.evidence = {}
  BY DEF AnalyseCase, DynamicExecutionBlocked
<1>2. ASSUME NEW e \in run.evidence
      PROVE  \E findings, probe : e \in SynthesizeProbeEvidence(findings, w.packets, c.expected, probe, "real-9")
  <2> DEFINE static == ReadFindings(w.rows, c.top_k)
             jobs == RunDynamicJobs(c, args, Tail(w.endings), static, w.packets)
  <2>1. \/ e \in jobs.rows
        \/ e \in SynthesizeProbeEvidence(static, w.packets, c.expected, c.probe[1], args.preset)
    BY <1>2 DEF AnalyseCase
  <2>2. CASE e \in jobs.rows
    <3>1. PICK i : e \in SynthesizeProbeEvidence(static, w.packets, c.expected, JobAsProbe(c.jobs[i]), args.preset)
      BY <2>2 DEF RunDynamicJobs
    <3> QED BY <3>1
  <2> QED BY <2>1, <2>2
<1> HIDE DEF run
<1>3. \A e \in run.evidence : e.by.observed = e.sink
  BY <1>2, RowsAreObserved
<1> QED BY <1>1, <1>3 DEF run

\* A row of evidence changes what is known of a finding, not the finding.
LEMMA ConfirmedIsSame ==
    ASSUME NEW f, IsRow(f), NEW rows, NEW g, g = Confirmed(f, rows)
    PROVE  /\ g.risk = f.risk /\ g.sink = f.sink
           /\ g.status # None => \E e \in rows : e.sink = g.sink
<1> DEFINE mine == {r \in rows : r.chain = f.chain /\ r.sink = f.sink}
<1>1. CASE mine = {}
  BY <1>1 DEF Confirmed, IsRow
<1>2. CASE mine # {}
  <2>1. g = [f EXCEPT !.status = (CHOOSE r \in mine : \A q \in mine : StatusRank(r.status) >= StatusRank(q.status)).status,
                      !.sources = {r.source : r \in mine}]
    BY <1>2 DEF Confirmed
  <2>2. g.risk = f.risk /\ g.sink = f.sink
    BY <2>1 DEF IsRow
  <2>3. \E e \in rows : e.sink = f.sink
    BY <1>2
  <2> QED BY <2>2, <2>3
<1> QED BY <1>1, <1>2

\* What an analysis leaves: what was confirmed, evidence says.
LEMMA AnalysedRows ==
    ASSUME NEW c, NEW args, NEW w, IsWorld(w), NEW run, run = AnalyseCase(c, args, w)
    PROVE  /\ IsList(run.rows)
           /\ \A i \in DOMAIN run.rows : run.rows[i].risk \in Nat
           /\ \A i \in DOMAIN run.rows : run.rows[i].status # None => \E e \in run.evidence : e.sink = run.rows[i].sink
<1>1. IsList(w.rows) /\ \A i \in DOMAIN w.rows : IsRow(w.rows[i])
  BY DEF IsWorld
<1>2. \/ run.rows = w.rows
      \/ run.rows = [i \in DOMAIN w.rows |-> Confirmed(w.rows[i], run.evidence)]
  BY DEF AnalyseCase
<1>3. CASE run.rows = w.rows
  <2>1. \A i \in DOMAIN w.rows : w.rows[i].risk \in Nat /\ w.rows[i].status = None
    BY <1>1 DEF IsRow
  <2> QED BY <1>1, <1>3, <2>1
<1>4. CASE run.rows = [i \in DOMAIN w.rows |-> Confirmed(w.rows[i], run.evidence)]
  <2> DEFINE rs == run.rows
             L == Len(w.rows)
             T == {rs[i] : i \in 1..L}
  <2>1. L \in Nat /\ DOMAIN w.rows = 1..L
    BY <1>1 DEF IsList
  <2>2. IsList(rs)
    <3>1. rs = [i \in 1..L |-> rs[i]]
      BY <1>4, <2>1
    <3>2. \A i \in 1..L : rs[i] \in T
      OBVIOUS
    <3> HIDE DEF rs, T, L
    <3>3. rs \in [1..L -> T]
      BY <3>1, <3>2
    <3>4. Len(rs) = L
      BY <2>1, <3>3
    <3> QED BY <2>1, <3>1, <3>4 DEF IsList
  <2>3. ASSUME NEW i \in DOMAIN rs
        PROVE  rs[i].risk \in Nat /\ (rs[i].status # None => \E e \in run.evidence : e.sink = rs[i].sink)
    <3>1. IsRow(w.rows[i]) /\ rs[i] = Confirmed(w.rows[i], run.evidence)
      BY <1>1, <1>4, <2>3
    <3>2. rs[i].risk = w.rows[i].risk /\ (rs[i].status # None => \E e \in run.evidence : e.sink = rs[i].sink)
      BY <3>1, ConfirmedIsSame
    <3>3. w.rows[i].risk \in Nat
      BY <3>1 DEF IsRow
    <3> QED BY <3>2, <3>3
  <2> QED BY <2>2, <2>3
<1> QED BY <1>2, <1>3, <1>4

LEMMA CompletedIs ==
    ASSUME NEW c, NEW args, NEW w, NEW x, x = ScoreCase(c, args, w)
    PROVE  /\ x.of = c
           /\ x.evidence = {} \/ x.evidence = AnalyseCase(c, args, w).evidence
           /\ x.status = "completed" =>
                /\ x.evidence = AnalyseCase(c, args, w).evidence
                /\ x.found = ReadFindings(AnalyseCase(c, args, w).rows, c.top_k)
                /\ x.tally = Tally(c, x.found, w.packets)
                /\ x.reasons = GateReasons(c, args, x.tally)
                /\ x.grade = Grade(c, x.reasons, x.tally)
BY DEF ScoreCase

\* What is confirmed of a completed case, some row of evidence names the sink of.
LEMMA ConfirmedHasEvidence ==
    ASSUME NEW c, IsCase(c), NEW args, NEW w, IsWorld(w),
           NEW x, x = ScoreCase(c, args, w), x.status = "completed", NEW r \in x.tally.dynamic
    PROVE  \E e \in x.evidence : e.sink = x.found[r].sink
<1> DEFINE run == AnalyseCase(c, args, w)
<1>1. /\ x.evidence = run.evidence /\ x.found = ReadFindings(run.rows, c.top_k)
      /\ x.tally = Tally(c, x.found, w.packets)
  BY CompletedIs
<1>2. /\ IsList(run.rows)
      /\ \A i \in DOMAIN run.rows : run.rows[i].risk \in Nat
      /\ \A i \in DOMAIN run.rows : run.rows[i].status # None => \E e \in run.evidence : e.sink = run.rows[i].sink
  BY AnalysedRows
<1> HIDE DEF run
<1>3. r \in DOMAIN x.found /\ CountsAsConfirmation(DynamicStatusFor(x.found[r], PacketOf(w.packets, x.found[r])))
  BY <1>1 DEF Tally
<1>4. \A f : PacketOf(w.packets, f).status = None
  BY DEF PacketOf, NoPacket, IsWorld
<1>5. x.found[r].status # None
  BY <1>3, <1>4 DEF CountsAsConfirmation, DynamicStatusFor, None
<1>6. c.top_k \in Nat
  BY DEF IsCase
<1>7. PICK i \in DOMAIN run.rows : x.found[r] = run.rows[i]
  BY <1>1, <1>2, <1>3, <1>6, ReadIsWritten
<1> QED BY <1>1, <1>2, <1>5, <1>7

-----------------------------------------------------------------------------
(* The whole run                                                           *)

LEMMA GatesSay ==
    ASSUME NEW s, NEW reasons, Real5Gate(s) \/ Real8GateReasons(s) = {} \/ Real9GateReasons(s, reasons) = {}
    PROVE  s.levels >= 300 * s.completed /\ s.failures = 0
<1>1. CASE Real5Gate(s)
  BY <1>1 DEF Real5Gate, MeanAtLeast, Scale
<1>2. CASE Real8GateReasons(s) = {} \/ Real9GateReasons(s, reasons) = {}
  <2>1. Real8GateReasons(s) = {}
    BY <1>2 DEF Real9GateReasons
  <2>2. /\ Reason("mean_estimated_level_below_5", ~MeanAtLeast(s.levels, s.completed, 5 * Scale)) = {}
        /\ Reason("requirement_failures", s.failures # 0) = {}
    <3> DEFINE a == Reason("mean_estimated_level_below_5", ~MeanAtLeast(s.levels, s.completed, 5 * Scale))
               b == Reason("requirement_failures", s.failures # 0)
    <3>1. a \subseteq Real8GateReasons(s) /\ b \subseteq Real8GateReasons(s)
      BY DEF Real8GateReasons
    <3> QED BY <2>1, <3>1
  <2>3. MeanAtLeast(s.levels, s.completed, 5 * Scale) /\ s.failures = 0
    BY <2>2 DEF Reason
  <2> QED BY <2>3 DEF MeanAtLeast, Scale
<1> QED BY <1>1, <1>2

\* The cases of a run, scored.
Scored(x) == [k \in DOMAIN x.cases |-> ScoreCase(x.cases[k], x.args, x.worlds[k])]

LEMMA RunIs ==
    ASSUME NEW x, NEW run, run = ScoreRun(x)
    PROVE  /\ run.results = <<>> \/ run.results = Scored(x)
           /\ run.results # <<>> /\ (run.gates.real5 \/ run.gates.real8 \/ run.gates.real9) =>
                LET s == Totals(Scored(x))
                IN  Real5Gate(s) \/ Real8GateReasons(s) = {} \/ Real9GateReasons(s, x.reasons) = {}
BY DEF ScoreRun, RunBenchmark, Scored

\* EvidenceWasObserved of one run.
LEMMA RunIsObserved ==
    ASSUME NEW x, IsScoreInput(x), x.args.preset = "real-9", NEW run, run = ScoreRun(x), NEW k \in DOMAIN run.results
    PROVE  LET y == run.results[k] IN
            /\ ~x.args.allow => y.evidence = {}
            /\ \A e \in y.evidence : e.by.observed = e.sink
            /\ y.status = "completed" =>
                 \A r \in y.tally.dynamic : \E e \in y.evidence : e.sink = y.found[r].sink
<1> DEFINE y == run.results[k]
           c == x.cases[k]
           w == x.worlds[k]
<1>1. run.results = Scored(x) /\ k \in DOMAIN x.cases
  <2>1. DOMAIN <<>> = {}
    OBVIOUS
  <2>2. run.results = Scored(x)
    BY <2>1, RunIs
  <2> QED BY <2>2 DEF Scored
<1>2. y = ScoreCase(c, x.args, w)
  BY <1>1 DEF Scored
<1>3. IsCase(c) /\ IsWorld(w)
  BY <1>1 DEF IsScoreInput, IsList
<1> HIDE DEF y, c, w
<1>4. y.evidence = {} \/ y.evidence = AnalyseCase(c, x.args, w).evidence
  BY <1>2, CompletedIs
<1>5. /\ ~x.args.allow => AnalyseCase(c, x.args, w).evidence = {}
      /\ \A e \in AnalyseCase(c, x.args, w).evidence : e.by.observed = e.sink
  BY EvidenceIsObserved
<1>6. y.status = "completed" => \A r \in y.tally.dynamic : \E e \in y.evidence : e.sink = y.found[r].sink
  BY <1>2, <1>3, ConfirmedHasEvidence
<1> QED BY <1>4, <1>5, <1>6 DEF y

\* PassedGateIsClean of one run.
LEMMA PassedIsClean ==
    ASSUME NEW x, IsScoreInput(x), NEW run, run = ScoreRun(x), run.results # <<>>,
           run.gates.real5 \/ run.gates.real8 \/ run.gates.real9,
           NEW k \in DOMAIN run.results, run.results[k].status = "completed"
    PROVE  LET y == run.results[k] IN
                /\ y.tally.false_positives = {} /\ y.reasons = {}
                /\ \A i \in DOMAIN y.of.expected : ~y.of.expected[i].missed_ok =>
                     \E r \in DOMAIN y.found : r <= y.of.expected[i].min_rank /\ ShapeMatches(y.found[r], y.of.expected[i])
<1> DEFINE results == Scored(x)
           done == {j \in DOMAIN results : results[j].status = "completed"}
           s == Totals(results)
           levels == [j \in done |-> results[j].grade.level]
<1>1. run.results = results
  BY RunIs
<1>2. Real5Gate(s) \/ Real8GateReasons(s) = {} \/ Real9GateReasons(s, x.reasons) = {}
  BY RunIs
<1>3. s.levels >= 300 * s.completed /\ s.failures = 0
  <2> HIDE DEF s
  <2> QED BY <1>2, GatesSay
<1>4. /\ s.levels = SumFunction(levels) /\ s.completed = Cardinality(done)
      /\ s.failures = Cardinality({j \in done : results[j].reasons # {}})
  BY DEF Totals
<1>5. DOMAIN results = DOMAIN x.cases /\ IsFiniteSet(done)
  <2>1. DOMAIN results = DOMAIN x.cases
    BY DEF Scored
  <2>2. Len(x.cases) \in Nat /\ DOMAIN x.cases = 1..Len(x.cases)
    BY DEF IsScoreInput, IsList
  <2>3. IsFiniteSet(DOMAIN x.cases)
    <3> DEFINE L == Len(x.cases)
    <3>1. L \in Nat /\ DOMAIN x.cases = 1..L
      BY <2>2
    <3> HIDE DEF L
    <3> QED BY <3>1, FS_Interval
  <2>4. done \subseteq DOMAIN x.cases
    BY <2>1
  <2> HIDE DEF done, results
  <2>5. IsFiniteSet(done)
    BY <2>3, <2>4, FS_Subset
  <2> QED BY <2>1, <2>5
<1>6. k \in done
  BY <1>1
<1>7. results[k].reasons = {}
  <2>1. {j \in done : results[j].reasons # {}} = {}
    <3> DEFINE F == {j \in done : results[j].reasons # {}}
    <3>1. F \subseteq done /\ Cardinality(F) = 0
      BY <1>3, <1>4
    <3> HIDE DEF F, done
    <3>2. IsFiniteSet(F)
      BY <1>5, <3>1, FS_Subset
    <3>3. F = {}
      BY <3>1, <3>2, FS_EmptySet
    <3> QED BY <3>3 DEF F
  <2> QED BY <1>6, <2>1
<1>8. ASSUME NEW j \in done
      PROVE  /\ IsCase(x.cases[j]) /\ IsWorld(x.worlds[j])
             /\ results[j] = ScoreCase(x.cases[j], x.args, x.worlds[j]) /\ results[j].status = "completed"
  <2>1. j \in DOMAIN x.cases /\ j \in DOMAIN x.worlds
    BY <1>5 DEF IsScoreInput, IsList
  <2> QED BY <2>1 DEF Scored, IsScoreInput
<1> HIDE DEF results, done, s
<1>9. ASSUME NEW j \in done
      PROVE  /\ results[j].grade.level \in Nat /\ results[j].grade.level <= 300
             /\ results[j].grade.level = 300 => results[j].tally.false_positives = {}
  <2> DEFINE y == results[j]
             c == x.cases[j]
             w == x.worlds[j]
             of == AnalyseCase(c, x.args, w)
  <2>1. IsCase(c) /\ IsWorld(w) /\ y = ScoreCase(c, x.args, w) /\ y.status = "completed"
    BY <1>8
  <2> HIDE DEF y, c, w
  <2>2. /\ y.found = ReadFindings(of.rows, c.top_k) /\ y.tally = Tally(c, y.found, w.packets)
        /\ y.grade = Grade(c, y.reasons, y.tally)
    BY <2>1, CompletedIs
  <2>3. IsList(of.rows) /\ \A i \in DOMAIN of.rows : of.rows[i].risk \in Nat
    BY <2>1, AnalysedRows
  <2>4. c.top_k \in Nat
    BY <2>1 DEF IsCase
  <2> HIDE DEF of
  <2>5. PICK m \in Nat : DOMAIN y.found = 1..m
    BY <2>2, <2>3, <2>4, ReadIsWritten
  <2>6. /\ y.grade.level \in Nat /\ y.grade.level <= 5 * Scale
        /\ y.grade.level = 5 * Scale => y.tally.false_positives = {}
    BY <2>1, <2>2, <2>5, TopLevelIsPrecise
  <2> QED BY <2>6 DEF Scale, y
<1>10. \A j \in done : levels[j] = 300
  <2>1. levels \in [done -> Nat] /\ \A j \in done : levels[j] <= 300
    BY <1>9
  <2> HIDE DEF levels
  <2>2. SumFunction(levels) >= 300 * Cardinality(done)
    BY <1>3, <1>4
  <2>3. levels \in [done -> Nat]
    BY <2>1
  <2>4. \A j \in done : levels[j] <= 300
    BY <2>1
  <2> QED BY <1>5, <2>2, <2>3, <2>4, MeanIsAttained
<1>11. results[k].tally.false_positives = {}
  BY <1>6, <1>9, <1>10
<1>12. ASSUME NEW i \in DOMAIN results[k].of.expected, ~results[k].of.expected[i].missed_ok
       PROVE  \E r \in DOMAIN results[k].found : /\ r <= results[k].of.expected[i].min_rank
                                                 /\ ShapeMatches(results[k].found[r], results[k].of.expected[i])
  <2> DEFINE y == results[k]
             c == x.cases[k]
             w == x.worlds[k]
  <2>1. y = ScoreCase(c, x.args, w) /\ y.status = "completed" /\ y.reasons = {}
    BY <1>6, <1>7, <1>8
  <2>2. i \in DOMAIN y.of.expected /\ ~y.of.expected[i].missed_ok
    BY <1>12
  <2> HIDE DEF y, c, w
  <2>3. y.of = c /\ y.tally = Tally(c, y.found, w.packets) /\ GateReasons(c, x.args, y.tally) = {}
    BY <2>1, CompletedIs
  <2>4. \E r \in DOMAIN y.found : r <= c.expected[i].min_rank /\ ShapeMatches(y.found[r], c.expected[i])
    BY <2>2, <2>3, NoReasonNoMiss
  <2> QED BY <2>3, <2>4 DEF y
<1> QED BY <1>1, <1>7, <1>11, <1>12

-----------------------------------------------------------------------------
(* The invariant: the result is that of the input.                         *)

BenchInv ==
    /\ family = "bench_score" => IsScoreInput(input)
    /\ family = "bench_stage" => IsStageInput(input)
    /\ family = "bench_prepare" => IsPrepareInput(input)
    /\ result.stage = "done" =>
         /\ family = "bench_score" => result.of = ScoreRun(input)
         /\ family = "bench_stage" => result.of = StageRun(input)
         /\ family = "bench_prepare" => result.of = PrepareTwice(input)

LEMMA BenchInvInit == BenchInit => BenchInv
BY DEF BenchInit, BenchInv, NotYet

LEMMA BenchInvNext == BenchInv /\ [BenchNext]_avars => BenchInv'
<1> SUFFICES ASSUME BenchInv, [BenchNext]_avars PROVE BenchInv'
  OBVIOUS
<1>1. CASE ScoreStep
  BY <1>1 DEF ScoreStep, Compute, At, BenchInv
<1>2. CASE StageStep
  BY <1>2 DEF StageStep, Compute, At, BenchInv
<1>3. CASE PrepareStep
  BY <1>3 DEF PrepareStep, Compute, At, BenchInv
<1>4. CASE UNCHANGED avars
  BY <1>4 DEF avars, BenchInv
<1> QED BY <1>1, <1>2, <1>3, <1>4 DEF BenchNext

LEMMA BenchInvHonest == BenchInv => BenchmarkIsHonest
<1> SUFFICES ASSUME BenchInv PROVE BenchmarkIsHonest
  OBVIOUS
<1>1. PassedGateIsClean
  <2> SUFFICES ASSUME Done("bench_score"), result.of.results # <<>>,
                      result.of.gates.real5 \/ result.of.gates.real8 \/ result.of.gates.real9,
                      NEW k \in DOMAIN result.of.results, result.of.results[k].status = "completed"
               PROVE  LET y == result.of.results[k] IN
                        /\ y.tally.false_positives = {} /\ y.reasons = {}
                        /\ \A i \in DOMAIN y.of.expected : ~y.of.expected[i].missed_ok =>
                             \E r \in DOMAIN y.found : r <= y.of.expected[i].min_rank /\ ShapeMatches(y.found[r], y.of.expected[i])
    BY DEF PassedGateIsClean
  <2>1. IsScoreInput(input) /\ result.of = ScoreRun(input)
    BY DEF BenchInv, Done, At
  <2> QED BY <2>1, PassedIsClean
<1>2. EvidenceWasObserved
  <2> SUFFICES ASSUME Done("bench_score"), input.args.preset = "real-9", NEW k \in DOMAIN result.of.results
               PROVE  LET y == result.of.results[k] IN
                        /\ ~input.args.allow => y.evidence = {}
                        /\ \A e \in y.evidence : e.by.observed = e.sink
                        /\ y.status = "completed" =>
                             \A r \in y.tally.dynamic : \E e \in y.evidence : e.sink = y.found[r].sink
    BY DEF EvidenceWasObserved
  <2>1. IsScoreInput(input) /\ result.of = ScoreRun(input)
    BY DEF BenchInv, Done, At
  <2> QED BY <2>1, RunIsObserved
<1>3. ReadyMeansCheckedOut
  <2> SUFFICES ASSUME Done("bench_stage"), NEW i \in DOMAIN result.of.cases,
                      \/ StatusReady(result.of.cases[i].status)
                      \/ result.of.cases[i].of.pinned /\ StageGateReasons(result.of, input.mode) = {}
               PROVE  Usable(result.of.cases[i], result.of.dirs, input.mode, input.machine)
    BY DEF ReadyMeansCheckedOut
  <2>1. IsStageInput(input) /\ result.of = StageRun(input)
    BY DEF BenchInv, Done, At
  <2> QED BY <2>1, ReadyIsCheckedOut
<1>4. RebuiltInputIsSame
  <2> SUFFICES ASSUME Done("bench_prepare")
               PROVE  LET first == result.of[1] again == result.of[2]
                      IN  first.ok /\ first.path = "output" =>
                            /\ "output" \in first.files
                            /\ again.ok
                            /\ (input.args.build_fixtures \/ input.args.build # "missing") => again.path = "output"
    BY DEF RebuiltInputIsSame
  <2>1. IsPrepareInput(input) /\ result.of = PrepareTwice(input)
    BY DEF BenchInv, Done, At
  <2> QED BY <2>1, PreparedTwice
<1> QED BY <1>1, <1>2, <1>3, <1>4 DEF BenchmarkIsHonest

\* bin/axe-bench.rs: for every manifest, machine and answer of the tools, a
\* gate that passes hides no failing case, evidence under real-9 was observed
\* at the sink it names, a source that is ready is checked out at its commit,
\* and a rebuilt input is the one that was analysed.
THEOREM GatesAreHonest == BenchSpec => []BenchmarkIsHonest
<1>1. BenchInit => BenchInv
  BY BenchInvInit
<1>2. BenchInv /\ [BenchNext]_avars => BenchInv'
  BY BenchInvNext
<1>3. BenchInv => BenchmarkIsHonest
  BY BenchInvHonest
<1> QED BY <1>1, <1>2, <1>3, PTL DEF BenchSpec
=============================================================================
