--------------------------- MODULE MonitoringProofs ---------------------------
(* Theorems about CronTasks, ServiceMonitoring and AlertEvaluation, which    *)
(* the run monitoring and the run agent_streams check, and their proofs. The *)
(* last two add up counts and seconds: what a sum over a finite set is comes *)
(* first.                                                                    *)
EXTENDS CronTasks, ServiceMonitoring, AlertEvaluation, FiniteSetTheorems, SequenceTheorems,
        WellFoundedInduction, TLAPS

-----------------------------------------------------------------------------
(* Induction, as a statement about sets of numbers.                          *)

LEMMA LeastNumber ==
  ASSUME NEW T \in SUBSET Nat, T # {}
  PROVE  \E m \in T : \A k \in T : m <= k
  <1> DEFINE R == OpToRel(<, Nat)
  <1>1. IsWellFoundedOn(R, Nat)
    BY NatLessThanWellFounded
  <1>2. \A k, m \in Nat : k < m => <<k, m>> \in R
    BY DEF OpToRel
  <1> HIDE DEF R
  <1>3. PICK m \in T : \A k \in T : ~(<<k, m>> \in R)
    BY <1>1, WFMin
  <1>4. \A k \in T : ~(k < m)
    BY <1>2, <1>3
  <1> QED BY <1>4

LEMMA Inductive ==
  ASSUME NEW T, 0 \in T, \A n \in Nat : n \in T => n + 1 \in T
  PROVE  Nat \subseteq T
  <1> SUFFICES ASSUME Nat \ T # {} PROVE FALSE
    OBVIOUS
  <1>1. PICK m \in Nat \ T : \A k \in Nat \ T : m <= k
    BY LeastNumber
  <1>2. m - 1 \in Nat /\ m = (m - 1) + 1 /\ ~(m <= m - 1)
    BY <1>1
  <1>3. m - 1 \in T
    BY <1>1, <1>2
  <1> QED BY <1>1, <1>2, <1>3

-----------------------------------------------------------------------------
(* Sums over finite sets, as the fold computes them: element by element, in  *)
(* the order of CHOOSE.                                                      *)

Chosen(s) == CHOOSE x \in s : TRUE
Partial(counts, g, s) == IF s = {} THEN 0 ELSE counts[Chosen(s)] + g[s \ {Chosen(s)}]
IsFolding(counts, g, U) == g = [s \in U |-> Partial(counts, g, s)]
Folding(counts, S) == CHOOSE g : IsFolding(counts, g, SUBSET S)

LEMMA SumIsFolding ==
  ASSUME NEW counts, NEW S
  PROVE  Sum(counts, S) = Folding(counts, S)[S]
  BY Zenon DEF Sum, MapThenSumSet, MapThenFoldSet, Folding, IsFolding, Partial, Chosen

LEMMA OneLess ==
  ASSUME NEW S, IsFiniteSet(S), NEW s \in SUBSET S, NEW x \in s
  PROVE  /\ IsFiniteSet(s) /\ Cardinality(s) \in Nat
         /\ s \ {x} \in SUBSET S /\ Cardinality(s \ {x}) = Cardinality(s) - 1 /\ Cardinality(s) > 0
  <1>1. IsFiniteSet(s) /\ Cardinality(s) \in Nat
    BY FS_Subset, FS_CardinalityType
  <1>2. Cardinality(s \ {x}) = Cardinality(s) - 1 /\ Cardinality(s \ {x}) \in Nat
    BY <1>1, FS_RemoveElement, FS_CardinalityType
  <1> QED BY <1>1, <1>2

LEMMA ChosenMember == \A s : s # {} => Chosen(s) \in s
  BY DEF Chosen

(* The fold is well defined: sets of at most n elements have one. *)
LEMMA FoldingExists ==
  ASSUME NEW counts, NEW S, IsFiniteSet(S)
  PROVE  IsFolding(counts, Folding(counts, S), SUBSET S)
  <1> DEFINE Level(n) == {s \in SUBSET S : Cardinality(s) <= n}
             T == {n \in Nat : \E g : IsFolding(counts, g, Level(n))}
  <1>1. \A s \in SUBSET S : Cardinality(s) \in Nat /\ IsFiniteSet(s)
    BY FS_Subset, FS_CardinalityType
  <1>2. 0 \in T
    <2> DEFINE g == [s \in Level(0) |-> 0]
    <2>1. \A s \in Level(0) : s = {}
      BY <1>1, FS_EmptySet
    <2>2. IsFolding(counts, g, Level(0))
      BY <2>1 DEF IsFolding, Partial
    <2> QED BY <2>2
  <1>3. ASSUME NEW n \in Nat, n \in T PROVE n + 1 \in T
    <2>1. PICK g : IsFolding(counts, g, Level(n))
      BY <1>3
    <2> DEFINE h == [s \in Level(n + 1) |-> Partial(counts, g, s)]
    <2>2. \A s \in Level(n) : s \in Level(n + 1) /\ h[s] = g[s]
      BY <1>1, <2>1 DEF IsFolding
    <2>3. ASSUME NEW s \in Level(n + 1) PROVE h[s] = Partial(counts, h, s)
      <3>1. CASE s = {}
        BY <3>1 DEF Partial
      <3>2. CASE s # {}
        <4>1. s \ {Chosen(s)} \in Level(n)
          BY <1>1, <3>2, OneLess, ChosenMember
        <4> HIDE DEF h
        <4>2. h[s \ {Chosen(s)}] = g[s \ {Chosen(s)}]
          BY <2>2, <4>1
        <4>3. h[s] = Partial(counts, g, s)
          BY DEF h
        <4> QED BY <4>2, <4>3 DEF Partial
      <3> QED BY <3>1, <3>2
    <2>4. IsFolding(counts, h, Level(n + 1))
      BY <2>3 DEF IsFolding
    <2> HIDE DEF h, Level
    <2> QED BY <2>4
  <1>4. Nat \subseteq T
    <2> HIDE DEF T
    <2> QED BY <1>2, <1>3, Inductive
  <1>5. \E g : IsFolding(counts, g, SUBSET S)
    <2>1. Cardinality(S) \in Nat
      BY FS_CardinalityType
    <2>2. \A s \in SUBSET S : Cardinality(s) <= Cardinality(S)
      BY FS_Subset
    <2>3. Level(Cardinality(S)) = SUBSET S
      BY <2>2
    <2>4. PICK g : IsFolding(counts, g, Level(Cardinality(S)))
      BY <1>4, <2>1
    <2> QED BY <2>3, <2>4
  <1> QED BY <1>5 DEF Folding


(* The sum does not depend on the order. *)
Counts(f, S) == IsFiniteSet(S) /\ \A x \in S : f[x] \in Nat

LEMMA FoldingSplits ==
  ASSUME NEW counts, NEW S, Counts(counts, S)
  PROVE  /\ Folding(counts, S)[{}] = 0 /\ Sum(counts, S) = Folding(counts, S)[S]
         /\ \A s \in SUBSET S :
              /\ Folding(counts, S)[s] \in Nat
              /\ \A x \in s : Folding(counts, S)[s] = counts[x] + Folding(counts, S)[s \ {x}]
  <1> DEFINE g == Folding(counts, S)
             Splits(s) == g[s] \in Nat /\ \A x \in s : g[s] = counts[x] + g[s \ {x}]
             T == {n \in Nat : \A s \in SUBSET S : Cardinality(s) <= n => Splits(s)}
  <1>0. IsFiniteSet(S) /\ \A x \in S : counts[x] \in Nat
    BY DEF Counts
  <1>1. \A s \in SUBSET S : g[s] = Partial(counts, g, s)
    <2>1. IsFolding(counts, g, SUBSET S)
      BY <1>0, FoldingExists
    <2> HIDE DEF g
    <2> QED BY <2>1 DEF IsFolding
  <1> HIDE DEF g
  <1>2. g[{}] = 0
    BY <1>1 DEF Partial
  <1>3. 0 \in T
    <2>1. ASSUME NEW s \in SUBSET S, Cardinality(s) <= 0, NEW x \in s PROVE FALSE
      <3>1. Cardinality(s) \in Nat /\ Cardinality(s) > 0
        BY <1>0, OneLess
      <3> QED BY <2>1, <3>1
    <2>2. Splits({})
      BY <1>2
    <2> HIDE DEF Splits
    <2> QED BY <2>1, <2>2
  <1>4. ASSUME NEW n \in Nat, n \in T PROVE n + 1 \in T
    <2>1. ASSUME NEW s \in SUBSET S, Cardinality(s) <= n + 1 PROVE Splits(s)
      <3>1. CASE s = {}
        BY <1>2, <3>1
      <3>2. CASE s # {}
        <4> DEFINE c == Chosen(s)
        <4>1. c \in s
          BY <3>2, ChosenMember
        <4> HIDE DEF c
        <4>2. g[s] = counts[c] + g[s \ {c}]
          BY <1>1, <3>2 DEF Partial, c
        <4>3. \A x \in s : s \ {x} \in SUBSET S /\ Splits(s \ {x})
          <5> SUFFICES ASSUME NEW x \in s PROVE s \ {x} \in SUBSET S /\ Splits(s \ {x})
            OBVIOUS
          <5>1. s \ {x} \in SUBSET S /\ Cardinality(s \ {x}) <= n
            BY <1>0, <2>1, OneLess
          <5> QED BY <1>4, <5>1
        <4>4. g[s] \in Nat
          <5>1. counts[c] \in Nat /\ g[s \ {c}] \in Nat
            BY <1>0, <4>1, <4>3
          <5> QED BY <4>2, <5>1
        <4>5. ASSUME NEW x \in s, x # c PROVE g[s] = counts[x] + g[s \ {x}]
          <5>1. c \in s \ {x} /\ x \in s \ {c} /\ (s \ {x}) \ {c} = (s \ {c}) \ {x}
            BY <4>1, <4>5
          <5>2. g[s \ {x}] = counts[c] + g[(s \ {x}) \ {c}]
            BY <4>3, <5>1
          <5>3. g[s \ {c}] = counts[x] + g[(s \ {c}) \ {x}]
            BY <4>1, <4>3, <5>1
          <5>4. (s \ {x}) \ {c} \in SUBSET S /\ g[(s \ {x}) \ {c}] \in Nat
            <6>1. Cardinality(s \ {x}) = Cardinality(s) - 1 /\ Cardinality(s) \in Nat
              BY <1>0, OneLess
            <6>2. /\ (s \ {x}) \ {c} \in SUBSET S /\ Cardinality(s \ {x}) \in Nat
                  /\ Cardinality((s \ {x}) \ {c}) = Cardinality(s \ {x}) - 1
              BY <1>0, <4>3, <5>1, OneLess
            <6>3. Cardinality((s \ {x}) \ {c}) <= n
              BY <2>1, <6>1, <6>2
            <6> QED BY <1>4, <6>2, <6>3
          <5>5. counts[x] \in Nat /\ counts[c] \in Nat
            BY <1>0, <4>1
          <5> DEFINE rest == g[(s \ {x}) \ {c}]
          <5>6. g[s] = counts[c] + (counts[x] + rest)
            BY <4>2, <5>1, <5>3
          <5>7. g[s \ {x}] = counts[c] + rest
            BY <5>2
          <5>8. rest \in Nat
            BY <5>4
          <5> HIDE DEF rest
          <5>9. counts[c] + (counts[x] + rest) = counts[x] + (counts[c] + rest)
            BY <5>5, <5>8
          <5> QED BY <5>6, <5>7, <5>9
        <4> QED BY <4>2, <4>4, <4>5
      <3> QED BY <3>1, <3>2
    <2> HIDE DEF Splits
    <2> QED BY <2>1
  <1>5. Nat \subseteq T
    <2> HIDE DEF T
    <2> QED BY <1>3, <1>4, Inductive
  <1>6. \A s \in SUBSET S : Splits(s)
    <2>1. \A s \in SUBSET S : Cardinality(s) \in Nat
      BY <1>0, FS_Subset, FS_CardinalityType
    <2> HIDE DEF Splits
    <2> QED BY <1>5, <2>1
  <1>7. Sum(counts, S) = g[S]
    BY SumIsFolding DEF g
  <1> QED BY <1>2, <1>6, <1>7 DEF g

(* Counts that are carried over to other places add up to the same. *)
Carries(m, f, g, S, R) ==
    /\ \A x \in S : m[x] \in R /\ g[x] = f[m[x]]
    /\ \A x, y \in S : m[x] = m[y] => x = y
Image(m, S) == {m[x] : x \in S}

LEMMA FoldingMapped ==
  ASSUME NEW f, NEW g, NEW S, NEW R, NEW m, Counts(f, R), Counts(g, S), Carries(m, f, g, S, R)
  PROVE  Sum(g, S) = Folding(f, R)[Image(m, S)]
  <1> DEFINE a == Folding(g, S)
             b == Folding(f, R)
             T == {n \in Nat : \A s \in SUBSET S : Cardinality(s) <= n => a[s] = b[Image(m, s)]}
  <1>1. /\ a[{}] = 0 /\ Sum(g, S) = a[S]
        /\ \A s \in SUBSET S : a[s] \in Nat /\ \A x \in s : a[s] = g[x] + a[s \ {x}]
    BY FoldingSplits
  <1>2. /\ b[{}] = 0
        /\ \A s \in SUBSET R : b[s] \in Nat /\ \A x \in s : b[s] = f[x] + b[s \ {x}]
    BY FoldingSplits
  <1> HIDE DEF a, b
  <1>3. /\ IsFiniteSet(S)
        /\ \A x \in S : m[x] \in R /\ g[x] = f[m[x]]
        /\ \A x, y \in S : m[x] = m[y] => x = y
    BY DEF Counts, Carries
  <1>4. 0 \in T
    <2>1. ASSUME NEW s \in SUBSET S, Cardinality(s) <= 0 PROVE s = {}
      <3>1. ASSUME NEW x \in s PROVE FALSE
        <4>1. Cardinality(s) \in Nat /\ Cardinality(s) > 0
          BY <1>3, OneLess
        <4> QED BY <2>1, <4>1
      <3> QED BY <3>1
    <2>2. Image(m, {}) = {}
      BY DEF Image
    <2>3. \A s \in SUBSET S : Cardinality(s) <= 0 => a[s] = b[Image(m, s)]
      BY <1>1, <1>2, <2>1, <2>2
    <2> QED BY <2>3
  <1>5. ASSUME NEW n \in Nat, n \in T PROVE n + 1 \in T
    <2>1. ASSUME NEW s \in SUBSET S, Cardinality(s) <= n + 1 PROVE a[s] = b[Image(m, s)]
      <3>1. CASE s = {}
        <4>1. Image(m, s) = {}
          BY <3>1 DEF Image
        <4> QED BY <1>1, <1>2, <3>1, <4>1
      <3>2. CASE s # {}
        <4>1. PICK x \in s : TRUE
          BY <3>2
        <4>2. s \ {x} \in SUBSET S /\ Cardinality(s \ {x}) <= n
          BY <1>3, <2>1, OneLess
        <4>3. a[s \ {x}] = b[Image(m, s \ {x})]
          BY <1>5, <4>2
        <4>4. Image(m, s \ {x}) = Image(m, s) \ {m[x]} /\ m[x] \in Image(m, s) /\ Image(m, s) \in SUBSET R
          BY <1>3 DEF Image
        <4>5. b[Image(m, s)] = f[m[x]] + b[Image(m, s) \ {m[x]}]
          BY <1>2, <4>4
        <4>6. a[s] = g[x] + a[s \ {x}]
          BY <1>1
        <4>7. g[x] = f[m[x]]
          BY <1>3
        <4> QED BY <4>3, <4>4, <4>5, <4>6, <4>7
      <3> QED BY <3>1, <3>2
    <2> QED BY <2>1, <1>5
  <1>6. Nat \subseteq T
    <2> HIDE DEF T
    <2> QED BY <1>4, <1>5, Inductive
  <1>7. Cardinality(S) \in Nat /\ Cardinality(S) <= Cardinality(S)
    BY <1>3, FS_CardinalityType
  <1>8. a[S] = b[Image(m, S)]
    BY <1>6, <1>7
  <1> QED BY <1>1, <1>8 DEF b

LEMMA SumIsNat ==
  ASSUME NEW counts, NEW S, Counts(counts, S)
  PROVE  Sum(counts, S) \in Nat
  BY FoldingSplits

LEMMA SumMapped ==
  ASSUME NEW f, NEW g, NEW S, NEW R, NEW m, Counts(f, R), Counts(g, S), Carries(m, f, g, S, R),
         R = Image(m, S)
  PROVE  Sum(g, S) = Sum(f, R)
  <1>1. Sum(g, S) = Folding(f, R)[Image(m, S)]
    BY FoldingMapped
  <1>2. Sum(f, R) = Folding(f, R)[R]
    BY FoldingSplits
  <1> QED BY <1>1, <1>2

LEMMA SumOfSubset ==
  ASSUME NEW f, NEW g, NEW R, NEW S \in SUBSET R, Counts(f, R), \A x \in S : g[x] = f[x]
  PROVE  Counts(g, S) /\ Sum(g, S) = Folding(f, R)[S]
  <1> DEFINE m == [x \in S |-> x]
  <1>1. Counts(g, S)
    BY FS_Subset DEF Counts
  <1>2. Carries(m, f, g, S, R)
    BY DEF Carries
  <1>3. Image(m, S) = S
    BY DEF Image
  <1> HIDE DEF m
  <1>4. Sum(g, S) = Folding(f, R)[Image(m, S)]
    BY <1>1, <1>2, FoldingMapped
  <1> QED BY <1>1, <1>3, <1>4

LEMMA SumEqual ==
  ASSUME NEW f, NEW g, NEW S, Counts(f, S), \A x \in S : g[x] = f[x]
  PROVE  Counts(g, S) /\ Sum(g, S) = Sum(f, S)
  <1>1. Counts(g, S) /\ Sum(g, S) = Folding(f, S)[S]
    BY Z3, SumOfSubset
  <1>2. Sum(f, S) = Folding(f, S)[S]
    BY FoldingSplits
  <1> QED BY <1>1, <1>2

LEMMA SumSplits ==
  ASSUME NEW counts, NEW S, Counts(counts, S), NEW x \in S
  PROVE  /\ Sum(counts, S) = counts[x] + Sum(counts, S \ {x})
         /\ Counts(counts, S \ {x}) /\ Sum(counts, S \ {x}) \in Nat /\ counts[x] \in Nat
  <1>1. S \ {x} \in SUBSET S
    OBVIOUS
  <1>2. Counts(counts, S \ {x}) /\ Sum(counts, S \ {x}) = Folding(counts, S)[S \ {x}]
    BY <1>1, SumOfSubset, Z3
  <1>3. Sum(counts, S) = counts[x] + Folding(counts, S)[S \ {x}] /\ Folding(counts, S)[S \ {x}] \in Nat
    BY FoldingSplits, Z3
  <1> QED BY <1>2, <1>3 DEF Counts

(* A count that changes changes the sum by as much. *)
LEMMA SumExcept ==
  ASSUME NEW f, NEW g, NEW S, NEW x \in S, Counts(f, S), g[x] \in Nat, \A y \in S \ {x} : g[y] = f[y]
  PROVE  Counts(g, S) /\ Sum(g, S) = Sum(f, S) - f[x] + g[x]
  <1>1. /\ Sum(f, S) = f[x] + Sum(f, S \ {x}) /\ Sum(f, S \ {x}) \in Nat
        /\ f[x] \in Nat /\ Counts(f, S \ {x})
    BY SumSplits, Z3
  <1>2. Counts(g, S)
    BY DEF Counts
  <1>3. Sum(g, S) = g[x] + Sum(g, S \ {x})
    BY <1>2, SumSplits
  <1>4. Sum(g, S \ {x}) = Sum(f, S \ {x})
    BY <1>1, SumEqual
  <1> QED BY <1>1, <1>2, <1>3, <1>4

LEMMA SumZero ==
  ASSUME NEW counts, NEW S, IsFiniteSet(S), \A x \in S : counts[x] = 0
  PROVE  Counts(counts, S) /\ Sum(counts, S) = 0
  <1> DEFINE g == Folding(counts, S)
             T == {n \in Nat : \A s \in SUBSET S : Cardinality(s) <= n => g[s] = 0}
  <1>0. Counts(counts, S)
    BY DEF Counts
  <1>1. /\ g[{}] = 0 /\ Sum(counts, S) = g[S]
        /\ \A s \in SUBSET S : g[s] \in Nat /\ \A x \in s : g[s] = counts[x] + g[s \ {x}]
    BY ONLY <1>0, FoldingSplits
  <1> HIDE DEF g
  <1>2. ASSUME NEW n \in Nat, n \in T, NEW s \in SUBSET S, Cardinality(s) <= n + 1 PROVE g[s] = 0
    <2>1. CASE s = {}
      BY <1>1, <2>1
    <2>2. CASE s # {}
      <3>1. PICK x \in s : TRUE
        BY <2>2
      <3>2. s \ {x} \in SUBSET S /\ Cardinality(s \ {x}) <= n
        BY <1>2, OneLess
      <3>3. g[s \ {x}] = 0 /\ counts[x] = 0 /\ g[s] = counts[x] + g[s \ {x}]
        BY <1>1, <1>2, <3>2
      <3> QED BY <3>3
    <2> QED BY <2>1, <2>2
  <1>3. 0 \in T
    <2>1. ASSUME NEW s \in SUBSET S, Cardinality(s) <= 0 PROVE s = {}
      <3>1. ASSUME NEW x \in s PROVE FALSE
        <4>1. Cardinality(s) \in Nat /\ Cardinality(s) > 0
          BY OneLess
        <4> QED BY <2>1, <4>1
      <3> QED BY <3>1
    <2> QED BY <1>1, <2>1
  <1>4. \A n \in Nat : n \in T => n + 1 \in T
    BY <1>2
  <1>5. Nat \subseteq T
    <2> HIDE DEF T
    <2> QED BY <1>3, <1>4, Inductive
  <1>6. Cardinality(S) \in Nat /\ Cardinality(S) <= Cardinality(S)
    BY FS_CardinalityType
  <1> QED BY <1>0, <1>1, <1>5, <1>6

(* The columns move to the left by one: the first is lost, the last is new. *)
LEMMA SumShift ==
  ASSUME NEW f, NEW g, NEW n \in Nat, Counts(f, 1 .. n + 1),
         g[n + 1] = 0, \A d \in 1 .. n : g[d] = f[d + 1]
  PROVE  Counts(g, 1 .. n + 1) /\ Sum(g, 1 .. n + 1) = Sum(f, 1 .. n + 1) - f[1]
  <1> DEFINE m == [d \in 1 .. n |-> d + 1]
             All == 1 .. n + 1
  <1>1. (n + 1) \in All /\ 1 \in All /\ All \ {n + 1} = 1 .. n /\ All \ {1} = 2 .. n + 1
    OBVIOUS
  <1>2. IsFiniteSet(All) /\ \A d \in All : f[d] \in Nat
    BY DEF Counts
  <1>3. Counts(g, All)
    <2>1. ASSUME NEW d \in All PROVE g[d] \in Nat
      <3>1. d = n + 1 \/ (d \in 1 .. n /\ d + 1 \in All)
        OBVIOUS
      <3> QED BY <1>2, <3>1
    <2> QED BY <1>2, <2>1 DEF Counts
  <1>4. Counts(f, All)
    OBVIOUS
  <1> HIDE DEF All
  <1>5. /\ Sum(g, All) = g[n + 1] + Sum(g, All \ {n + 1}) /\ Sum(g, All \ {n + 1}) \in Nat
        /\ Counts(g, All \ {n + 1})
    BY <1>1, <1>3, SumSplits, Z3
  <1>6. /\ Sum(f, All) = f[1] + Sum(f, All \ {1}) /\ Sum(f, All \ {1}) \in Nat
        /\ Counts(f, All \ {1}) /\ f[1] \in Nat
    BY ONLY <1>1, <1>4, SumSplits, Z3
  <1>7. Sum(g, 1 .. n) = Sum(f, 2 .. n + 1)
    <2>1. Carries(m, f, g, 1 .. n, 2 .. n + 1)
      BY DEF Carries
    <2>2. 2 .. n + 1 = Image(m, 1 .. n)
      <3>1. \A e \in 2 .. n + 1 : e - 1 \in 1 .. n /\ e = m[e - 1]
        OBVIOUS
      <3>2. \A d \in 1 .. n : m[d] \in 2 .. n + 1
        OBVIOUS
      <3> HIDE DEF m
      <3> QED BY <3>1, <3>2 DEF Image
    <2>3. Counts(f, 2 .. n + 1) /\ Counts(g, 1 .. n)
      BY <1>1, <1>5, <1>6
    <2> HIDE DEF m
    <2> QED BY <2>1, <2>2, <2>3, SumMapped
  <1>8. Sum(g, All) = Sum(f, All) - f[1]
    <2>1. Sum(g, All \ {n + 1}) = Sum(f, All \ {1})
      BY <1>1, <1>7
    <2> QED BY <1>5, <1>6, <2>1
  <1> QED BY <1>3, <1>8 DEF All

LEMMA SumOfPart ==
  ASSUME NEW counts, NEW S, NEW R \in SUBSET S, Counts(counts, S)
  PROVE  Counts(counts, R) /\ Sum(counts, R) = Folding(counts, S)[R]
  BY SumOfSubset, Z3

(* Places that count nothing can be left out. *)
LEMMA SumOutside ==
  ASSUME NEW counts, NEW S, NEW R \in SUBSET S, Counts(counts, S), \A x \in S \ R : counts[x] = 0
  PROVE  Sum(counts, S) = Sum(counts, R)
  <1> DEFINE g == Folding(counts, S)
             T == {n \in Nat : \A s \in SUBSET S : Cardinality(s) <= n => g[s] = g[s \cap R]}
  <1>1. /\ Sum(counts, S) = g[S]
        /\ \A s \in SUBSET S : g[s] \in Nat /\ \A x \in s : g[s] = counts[x] + g[s \ {x}]
    BY ONLY Counts(counts, S), FoldingSplits
  <1>2. Sum(counts, R) = g[R]
    BY SumOfPart
  <1>3. IsFiniteSet(S)
    BY DEF Counts
  <1> HIDE DEF g
  <1>4. 0 \in T
    <2>1. ASSUME NEW s \in SUBSET S, Cardinality(s) <= 0 PROVE s = {}
      <3>1. ASSUME NEW x \in s PROVE FALSE
        <4>1. Cardinality(s) \in Nat /\ Cardinality(s) > 0
          BY <1>3, OneLess
        <4> QED BY <2>1, <4>1
      <3> QED BY <3>1
    <2>2. {} \cap R = {}
      OBVIOUS
    <2> QED BY <2>1, <2>2
  <1>5. ASSUME NEW n \in Nat, n \in T, NEW s \in SUBSET S, Cardinality(s) <= n + 1
        PROVE  g[s] = g[s \cap R]
    <2>1. CASE s = {}
      <3>1. s \cap R = s
        BY <2>1
      <3> QED BY <3>1
    <2>2. CASE s # {}
      <3>1. PICK x \in s : TRUE
        BY <2>2
      <3>2. s \ {x} \in SUBSET S /\ Cardinality(s \ {x}) <= n
        BY <1>3, <1>5, OneLess
      <3>3. g[s \ {x}] = g[(s \ {x}) \cap R] /\ g[s] = counts[x] + g[s \ {x}] /\ g[s \ {x}] \in Nat
        BY <1>1, <1>5, <3>2
      <3>4. CASE x \in R
        <4>1. (s \ {x}) \cap R = (s \cap R) \ {x} /\ x \in s \cap R /\ s \cap R \in SUBSET S
          BY <3>4
        <4>2. g[s \cap R] = counts[x] + g[(s \cap R) \ {x}]
          BY <1>1, <4>1
        <4>3. g[s \ {x}] = g[(s \cap R) \ {x}]
          BY <3>3, <4>1
        <4> QED BY <3>3, <4>2, <4>3
      <3>5. CASE x \notin R
        <4>1. (s \ {x}) \cap R = s \cap R
          BY <3>5
        <4>2. counts[x] = 0
          BY <3>5
        <4>3. g[s \ {x}] = g[s \cap R]
          BY <3>3, <4>1
        <4> QED BY <3>3, <4>2, <4>3
      <3> QED BY <3>4, <3>5
    <2> QED BY <2>1, <2>2
  <1>6. \A n \in Nat : n \in T => n + 1 \in T
    BY <1>5
  <1>7. Nat \subseteq T
    <2> HIDE DEF T
    <2> QED BY <1>4, <1>6, Inductive
  <1>8. Cardinality(S) \in Nat /\ Cardinality(S) <= Cardinality(S)
    BY <1>3, FS_CardinalityType
  <1>9. S \cap R = R
    OBVIOUS
  <1>10. g[S] = g[S \cap R]
    BY <1>7, <1>8
  <1> QED BY <1>1, <1>2, <1>9, <1>10

-----------------------------------------------------------------------------
(* Scheduled tasks: one job for a task, and every command accounted for.     *)

(* The cached task is one whose edit is through, an edit that registered a   *)
(* job keeps it until it is through or has failed, and what a job may run    *)
(* has been saved.                                                           *)
EditInv == /\ step[1] = "done"
           /\ task # NoTask => step[task] \in {"updated", "done"}
           /\ \A v \in Versions :
                /\ v \in scheduled => step[v] \notin {"none", "read"}
                /\ v \in scheduled /\ step[v] \in {"registered", "saved"} => v \in jobs
                /\ step[v] \in {"saved", "updated"} => v \in durable
           /\ committed \subseteq durable

(* As long as nothing goes wrong, there is one authorization for every       *)
(* command that is being sent, has failed and is not yet revoked, or is with *)
(* the agent.                                                                *)
Outstanding == {t \in Triggers : trigger[t] \in {"send", "failed"}} \cup arrived
CountInv == fault = "none" /\ Untouched =>
    /\ task = 1 /\ refused = {} /\ authorized = Cardinality(Outstanding)
    /\ \A t \in Triggers : trigger[t] # "none" => 1 \notin scheduled
    /\ \A t \in arrived : trigger[t] \in {"send", "over"}

LEMMA Numbers == 1 \in Versions /\ NoTask \notin Versions /\ IsFiniteSet(Triggers)
  BY CronAssumption, FS_Interval DEF Versions, Triggers, NoTask

LEMMA InitInv == CronInit => CronTypeOK /\ EditInv /\ JobsOfTasks /\ CountInv
  <1> SUFFICES ASSUME CronInit PROVE CronTypeOK /\ EditInv /\ JobsOfTasks /\ CountInv
    OBVIOUS
  <1>1. CronTypeOK /\ EditInv /\ JobsOfTasks
    BY Numbers DEF CronInit, CronTypeOK, JobTypes, ResultTypes, EditInv, JobsOfTasks
  <1>2. Outstanding = {}
    BY DEF CronInit, Outstanding
  <1>3. CountInv
    BY <1>2, FS_EmptySet DEF CronInit, CountInv
  <1> QED BY <1>1, <1>3

LEMMA StepJobTypes ==
  ASSUME CronTypeOK, CronNext
  PROVE  JobTypes'
  <1>1. ASSUME NEW v \in Versions, ReadCron(v) PROVE JobTypes'
    BY <1>1, Numbers DEF ReadCron, CronTypeOK, JobTypes, results
  <1>2. ASSUME NEW v \in Versions, RegisterJob(v) PROVE JobTypes'
    BY <1>2, Numbers DEF RegisterJob, CronTypeOK, JobTypes, results
  <1>3. ASSUME NEW v \in Versions, SaveCron(v) PROVE JobTypes'
    BY <1>3, Numbers DEF SaveCron, CronTypeOK, JobTypes, results
  <1>4. ASSUME NEW v \in Versions, UpdateTask(v) PROVE JobTypes'
    BY <1>4, Numbers DEF UpdateTask, CronTypeOK, JobTypes, results
  <1>5. ASSUME NEW v \in Versions, Commit(v) PROVE JobTypes'
    BY <1>5, Numbers DEF Commit, CronTypeOK, JobTypes
  <1>6. ASSUME NEW v \in Versions, RunJob(v) PROVE JobTypes'
    BY <1>6, Numbers DEF RunJob, CronTypeOK, JobTypes, tasks, results
  <1>7. ASSUME DeleteCronRow PROVE JobTypes'
    BY <1>7, Numbers DEF DeleteCronRow, NoTask, CronTypeOK, JobTypes, results
  <1>8. ASSUME DeleteTask PROVE JobTypes'
    BY <1>8, Numbers DEF DeleteTask, NoTask, CronTypeOK, JobTypes, results
  <1>9. ASSUME DeleteAuthorizations PROVE JobTypes'
    BY <1>9, Numbers DEF DeleteAuthorizations, CronTypeOK, JobTypes
  <1>10. ASSUME \/ AuthorizationExpires
           \/ (\E t \in Triggers : SendTriggerTasks(t))
           \/ (\E t \in Triggers : Reserve(t))
           \/ (\E t \in Triggers : Arrives(t))
           \/ (\E t \in Triggers : SendTaskGuarded(t))
           \/ (\E t \in Triggers : Revoke(t))
           \/ (\E t \in Triggers : ReportResult(t))
           \/ (\E t \in Triggers : SendReturns(t))
         PROVE  UNCHANGED <<row, task, scheduled, jobs, committed, step, deletion, ran, durable>>
    BY <1>10 DEF AuthorizationExpires, SendTriggerTasks, Reserve, Arrives, SendTaskGuarded, Revoke,
        ReportResult, SendReturns, Consumable, tasks
  <1>11. ASSUME UNCHANGED <<row, task, scheduled, jobs, committed, step, deletion, ran, durable>>
       PROVE  JobTypes'
    BY <1>11 DEF CronTypeOK, JobTypes
  <1> QED BY <1>1, <1>2, <1>3, <1>4, <1>5, <1>6, <1>7, <1>8, <1>9, <1>10, <1>11
  DEF CronNext, EditStep, TriggerStep

LEMMA StepResultTypes ==
  ASSUME CronTypeOK, CronNext
  PROVE  ResultTypes'
  <1>1. ASSUME NEW v \in Versions, Commit(v) PROVE ResultTypes'
    BY <1>1, Numbers DEF Commit, CronTypeOK, ResultTypes
  <1>2. ASSUME DeleteAuthorizations PROVE ResultTypes'
    BY <1>2, Numbers DEF DeleteAuthorizations, CronTypeOK, ResultTypes
  <1>3. ASSUME AuthorizationExpires PROVE ResultTypes'
    BY <1>3, Numbers DEF AuthorizationExpires, CronTypeOK, ResultTypes, tasks
  <1>4. ASSUME NEW t \in Triggers, SendTriggerTasks(t) PROVE ResultTypes'
    BY <1>4, Numbers DEF SendTriggerTasks, CronTypeOK, ResultTypes, tasks
  <1>5. ASSUME NEW t \in Triggers, Reserve(t) PROVE ResultTypes'
    BY <1>5, Numbers DEF Reserve, CronTypeOK, ResultTypes, tasks
  <1>6. ASSUME NEW t \in Triggers, Arrives(t) PROVE ResultTypes'
    BY <1>6, Numbers DEF Arrives, CronTypeOK, ResultTypes, tasks
  <1>7. ASSUME NEW t \in Triggers, SendTaskGuarded(t) PROVE ResultTypes'
    BY <1>7, Numbers DEF SendTaskGuarded, CronTypeOK, ResultTypes, tasks
  <1>8. ASSUME NEW t \in Triggers, Revoke(t) PROVE ResultTypes'
    BY <1>8, Numbers DEF Revoke, CronTypeOK, ResultTypes, tasks
  <1>9. ASSUME NEW t \in Triggers, ReportResult(t) PROVE ResultTypes'
    BY <1>9, Numbers DEF ReportResult, Consumable, CronTypeOK, ResultTypes, tasks
  <1>10. ASSUME NEW t \in Triggers, SendReturns(t) PROVE ResultTypes'
    BY <1>10, Numbers DEF SendReturns, CronTypeOK, ResultTypes, tasks
  <1>11. ASSUME \/ (\E v \in Versions : ReadCron(v))
           \/ (\E v \in Versions : RegisterJob(v))
           \/ (\E v \in Versions : SaveCron(v))
           \/ (\E v \in Versions : UpdateTask(v))
           \/ (\E v \in Versions : RunJob(v))
           \/ DeleteCronRow
           \/ DeleteTask
         PROVE  UNCHANGED <<trigger, authorized, arrived, fault, refused>>
    BY <1>11 DEF ReadCron, RegisterJob, SaveCron, UpdateTask, RunJob, DeleteCronRow, DeleteTask,
        NoTask, tasks, results
  <1>12. ASSUME UNCHANGED <<trigger, authorized, arrived, fault, refused>> PROVE ResultTypes'
    BY <1>12 DEF CronTypeOK, ResultTypes
  <1> QED BY <1>1, <1>2, <1>3, <1>4, <1>5, <1>6, <1>7, <1>8, <1>9, <1>10, <1>11, <1>12
  DEF CronNext, EditStep, TriggerStep

LEMMA StepEditInv ==
  ASSUME CronTypeOK, EditInv, CronNext
  PROVE  EditInv'
  <1>1. ASSUME NEW v \in Versions, ReadCron(v) PROVE EditInv'
    BY <1>1, Numbers DEF ReadCron, CronTypeOK, JobTypes, EditInv, results
  <1>2. ASSUME NEW v \in Versions, RegisterJob(v) PROVE EditInv'
    BY <1>2, Numbers DEF RegisterJob, CronTypeOK, JobTypes, EditInv, results
  <1>3. ASSUME NEW v \in Versions, SaveCron(v) PROVE EditInv'
    BY <1>3, Numbers DEF SaveCron, CronTypeOK, JobTypes, EditInv, results
  <1>4. ASSUME NEW v \in Versions, UpdateTask(v) PROVE EditInv'
    BY <1>4, Numbers DEF UpdateTask, CronTypeOK, JobTypes, EditInv, results
  <1>5. ASSUME NEW v \in Versions, Commit(v) PROVE EditInv'
    BY <1>5, Numbers DEF Commit, CronTypeOK, JobTypes, EditInv
  <1>6. ASSUME DeleteTask PROVE EditInv'
    BY <1>6, Numbers DEF DeleteTask, NoTask, CronTypeOK, JobTypes, EditInv, results
  <1>7. ASSUME \/ (\E v \in Versions : RunJob(v))
           \/ DeleteCronRow
           \/ DeleteAuthorizations
           \/ AuthorizationExpires
           \/ (\E t \in Triggers : SendTriggerTasks(t))
           \/ (\E t \in Triggers : Reserve(t))
           \/ (\E t \in Triggers : Arrives(t))
           \/ (\E t \in Triggers : SendTaskGuarded(t))
           \/ (\E t \in Triggers : Revoke(t))
           \/ (\E t \in Triggers : ReportResult(t))
           \/ (\E t \in Triggers : SendReturns(t))
         PROVE  UNCHANGED <<step, task, scheduled, jobs, durable, committed>>
    BY <1>7 DEF RunJob, DeleteCronRow, DeleteAuthorizations, AuthorizationExpires, SendTriggerTasks,
        Reserve, Arrives, SendTaskGuarded, Revoke, ReportResult, SendReturns, Consumable, NoTask,
        tasks, results
  <1>8. ASSUME UNCHANGED <<step, task, scheduled, jobs, durable, committed>> PROVE EditInv'
    BY <1>8 DEF CronTypeOK, JobTypes, EditInv
  <1> QED BY <1>1, <1>2, <1>3, <1>4, <1>5, <1>6, <1>7, <1>8 DEF CronNext, EditStep, TriggerStep

LEMMA StepJobsOfTasks ==
  ASSUME CronTypeOK, EditInv, JobsOfTasks, CronNext
  PROVE  JobsOfTasks'
  <1>1. ASSUME NEW v \in Versions, ReadCron(v) PROVE JobsOfTasks'
    BY <1>1, Numbers DEF ReadCron, CronTypeOK, JobTypes, EditInv, JobsOfTasks, results
  <1>2. ASSUME NEW v \in Versions, RegisterJob(v) PROVE JobsOfTasks'
    BY <1>2, Numbers DEF RegisterJob, CronTypeOK, JobTypes, EditInv, JobsOfTasks, results
  <1>3. ASSUME NEW v \in Versions, SaveCron(v) PROVE JobsOfTasks'
    BY <1>3, Numbers DEF SaveCron, CronTypeOK, JobTypes, EditInv, JobsOfTasks, results
  <1>4. ASSUME NEW v \in Versions, UpdateTask(v) PROVE JobsOfTasks'
    BY <1>4, Numbers DEF UpdateTask, CronTypeOK, JobTypes, EditInv, JobsOfTasks, results
  <1>5. ASSUME NEW v \in Versions, Commit(v) PROVE JobsOfTasks'
    BY <1>5, Numbers DEF Commit, CronTypeOK, JobTypes, EditInv, JobsOfTasks
  <1>6. ASSUME NEW v \in Versions, RunJob(v) PROVE JobsOfTasks'
    BY <1>6, Numbers DEF RunJob, CronTypeOK, JobTypes, EditInv, JobsOfTasks, tasks, results
  <1>7. ASSUME DeleteTask PROVE JobsOfTasks'
    BY <1>7, Numbers DEF DeleteTask, NoTask, CronTypeOK, JobTypes, EditInv, JobsOfTasks, results
  <1>8. ASSUME \/ DeleteCronRow
           \/ DeleteAuthorizations
           \/ AuthorizationExpires
           \/ (\E t \in Triggers : SendTriggerTasks(t))
           \/ (\E t \in Triggers : Reserve(t))
           \/ (\E t \in Triggers : Arrives(t))
           \/ (\E t \in Triggers : SendTaskGuarded(t))
           \/ (\E t \in Triggers : Revoke(t))
           \/ (\E t \in Triggers : ReportResult(t))
           \/ (\E t \in Triggers : SendReturns(t))
         PROVE  UNCHANGED <<step, task, scheduled, jobs, durable, ran>>
    BY <1>8 DEF DeleteCronRow, DeleteAuthorizations, AuthorizationExpires, SendTriggerTasks,
        Reserve, Arrives, SendTaskGuarded, Revoke, ReportResult, SendReturns, Consumable, NoTask,
        tasks, results
  <1>9. ASSUME UNCHANGED <<step, task, scheduled, jobs, durable, ran>> PROVE JobsOfTasks'
    BY <1>9 DEF CronTypeOK, JobTypes, EditInv, JobsOfTasks
  <1> QED BY <1>1, <1>2, <1>3, <1>4, <1>5, <1>6, <1>7, <1>8, <1>9 DEF CronNext, EditStep,
         TriggerStep

LEMMA StepCountInv ==
  ASSUME CronTypeOK, EditInv, CountInv, CronNext
  PROVE  CountInv'
  <1>1. ASSUME NEW v \in Versions, ReadCron(v) PROVE CountInv'
    <2> SUFFICES ASSUME fault' = "none", Untouched' PROVE CountInv'
      BY DEF CountInv
    <2>1. fault = "none" /\ Untouched
      BY <1>1 DEF ReadCron, Untouched, CronTypeOK, JobTypes, results
    <2>2. Outstanding' = Outstanding
      BY <1>1, <2>1 DEF ReadCron, Outstanding, CountInv, CronTypeOK, ResultTypes, results
    <2> QED
      BY <1>1, <2>1, <2>2, Numbers DEF ReadCron, Untouched, CountInv, EditInv, CronTypeOK, JobTypes,
          ResultTypes, results
  <1>2. ASSUME NEW v \in Versions, RegisterJob(v) PROVE CountInv'
    <2> SUFFICES ASSUME fault' = "none", Untouched' PROVE CountInv'
      BY DEF CountInv
    <2>1. fault = "none" /\ Untouched
      BY <1>2 DEF RegisterJob, Untouched, CronTypeOK, JobTypes, results
    <2>2. Outstanding' = Outstanding
      BY <1>2, <2>1 DEF RegisterJob, Outstanding, CountInv, CronTypeOK, ResultTypes, results
    <2> QED
      BY <1>2, <2>1, <2>2, Numbers DEF RegisterJob, Untouched, CountInv, EditInv, CronTypeOK,
          JobTypes, ResultTypes, results
  <1>3. ASSUME NEW v \in Versions, SaveCron(v) PROVE CountInv'
    <2> SUFFICES ASSUME fault' = "none", Untouched' PROVE CountInv'
      BY DEF CountInv
    <2>1. fault = "none" /\ Untouched
      BY <1>3 DEF SaveCron, Untouched, CronTypeOK, JobTypes, results
    <2>2. Outstanding' = Outstanding
      BY <1>3, <2>1 DEF SaveCron, Outstanding, CountInv, CronTypeOK, ResultTypes, results
    <2> QED
      BY <1>3, <2>1, <2>2, Numbers DEF SaveCron, Untouched, CountInv, EditInv, CronTypeOK, JobTypes,
          ResultTypes, results
  <1>4. ASSUME NEW v \in Versions, UpdateTask(v) PROVE CountInv'
    <2> SUFFICES ASSUME fault' = "none", Untouched' PROVE CountInv'
      BY DEF CountInv
    <2>1. fault = "none" /\ Untouched
      BY <1>4 DEF UpdateTask, Untouched, CronTypeOK, JobTypes, results
    <2>2. Outstanding' = Outstanding
      BY <1>4, <2>1 DEF UpdateTask, Outstanding, CountInv, CronTypeOK, ResultTypes, results
    <2> QED
      BY <1>4, <2>1, <2>2, Numbers DEF UpdateTask, Untouched, CountInv, EditInv, CronTypeOK,
          JobTypes, ResultTypes, results
  <1>5. ASSUME NEW v \in Versions, Commit(v) PROVE CountInv'
    <2> SUFFICES ASSUME fault' = "none", Untouched' PROVE CountInv'
      BY DEF CountInv
    <2>1. fault = "none" /\ Untouched
      BY <1>5 DEF Commit, Untouched, CronTypeOK, JobTypes, NoTask
    <2>2. Outstanding' = Outstanding
      BY <1>5, <2>1 DEF Commit, Outstanding, CountInv, CronTypeOK, ResultTypes, NoTask
    <2> QED
      BY <1>5, <2>1, <2>2, Numbers DEF Commit, Untouched, CountInv, EditInv, CronTypeOK, JobTypes,
          ResultTypes, NoTask
  <1>6. ASSUME DeleteCronRow PROVE CountInv'
    <2> SUFFICES ASSUME fault' = "none", Untouched' PROVE CountInv'
      BY DEF CountInv
    <2>1. fault = "none" /\ Untouched
      BY <1>6 DEF DeleteCronRow, Untouched, CronTypeOK, JobTypes, results
    <2>2. Outstanding' = Outstanding
      BY <1>6, <2>1 DEF DeleteCronRow, Outstanding, CountInv, CronTypeOK, ResultTypes, results
    <2> QED
      BY <1>6, <2>1, <2>2, Numbers DEF DeleteCronRow, Untouched, CountInv, EditInv, CronTypeOK,
          JobTypes, ResultTypes, results
  <1>7. ASSUME DeleteTask PROVE CountInv'
    <2> SUFFICES ASSUME fault' = "none", Untouched' PROVE CountInv'
      BY DEF CountInv
    <2>1. fault = "none" /\ Untouched
      BY <1>7 DEF DeleteTask, Untouched, CronTypeOK, JobTypes, results
    <2>2. Outstanding' = Outstanding
      BY <1>7, <2>1 DEF DeleteTask, Outstanding, CountInv, CronTypeOK, ResultTypes, results
    <2> QED
      BY <1>7, <2>1, <2>2, Numbers DEF DeleteTask, Untouched, CountInv, EditInv, CronTypeOK,
          JobTypes, ResultTypes, results
  <1>8. ASSUME DeleteAuthorizations PROVE CountInv'
    <2> SUFFICES ASSUME fault' = "none", Untouched' PROVE CountInv'
      BY DEF CountInv
    <2>1. fault = "none" /\ Untouched
      BY <1>8 DEF DeleteAuthorizations, Untouched, CronTypeOK, JobTypes, tasks
    <2>2. Outstanding' = Outstanding
      BY <1>8, <2>1 DEF DeleteAuthorizations, Outstanding, CountInv, CronTypeOK, ResultTypes, tasks
    <2> QED
      BY <1>8, <2>1, <2>2, Numbers DEF DeleteAuthorizations, Untouched, CountInv, EditInv,
          CronTypeOK, JobTypes, ResultTypes, tasks
  <1>9. ASSUME AuthorizationExpires PROVE CountInv'
    <2> SUFFICES ASSUME fault' = "none" PROVE FALSE
      BY DEF CountInv
    <2> QED BY <1>9 DEF AuthorizationExpires
  <1>10. ASSUME NEW t \in Triggers, SendTriggerTasks(t) PROVE CountInv'
    <2> SUFFICES ASSUME fault' = "none", Untouched' PROVE CountInv'
      BY DEF CountInv
    <2>1. fault = "none" /\ Untouched
      BY <1>10 DEF SendTriggerTasks, Untouched, CronTypeOK, JobTypes, tasks
    <2>2. Outstanding' = Outstanding
      BY <1>10, <2>1 DEF SendTriggerTasks, Outstanding, CountInv, CronTypeOK, ResultTypes, tasks
    <2> QED
      BY <1>10, <2>1, <2>2, Numbers DEF SendTriggerTasks, Untouched, CountInv, EditInv, CronTypeOK,
          JobTypes, ResultTypes, tasks
  <1>11. ASSUME NEW t \in Triggers, Reserve(t) PROVE CountInv'
    <2> SUFFICES ASSUME fault' = "none", Untouched' PROVE CountInv'
      BY DEF CountInv
    <2>1. fault = "none" /\ Untouched /\ fault' = fault
      BY <1>11 DEF Reserve, Untouched, tasks
    <2>2. IsFiniteSet(Outstanding)
      BY Numbers, FS_Subset DEF Outstanding, CronTypeOK, ResultTypes
    <2>3. CASE authorized' = authorized + 1 /\ trigger' = [trigger EXCEPT ![t] = "send"]
      <3>1. t \notin Outstanding /\ Outstanding' = Outstanding \cup {t}
        BY <1>11, <2>1, <2>3 DEF Reserve, Outstanding, CountInv, CronTypeOK, ResultTypes
      <3>2. Cardinality(Outstanding') = Cardinality(Outstanding) + 1
        BY <3>1, <2>2, FS_AddElement
      <3> QED BY <1>11, <2>1, <2>3, <3>2, Numbers DEF Reserve, Untouched, CountInv, CronTypeOK, ResultTypes, tasks
    <2>4. CASE authorized' = authorized /\ trigger' = [trigger EXCEPT ![t] = "over"]
      <3>1. Outstanding' = Outstanding
        BY <1>11, <2>1, <2>4 DEF Reserve, Outstanding, CountInv, CronTypeOK, ResultTypes
      <3> QED BY <1>11, <2>1, <2>4, <3>1 DEF Reserve, Untouched, CountInv, CronTypeOK, ResultTypes, tasks
    <2> QED BY <1>11, <2>3, <2>4 DEF Reserve
  <1>12. ASSUME NEW t \in Triggers, Arrives(t) PROVE CountInv'
    <2> SUFFICES ASSUME fault' = "none", Untouched' PROVE CountInv'
      BY DEF CountInv
    <2>1. fault = "none" /\ Untouched
      BY <1>12 DEF Arrives, Untouched, CronTypeOK, JobTypes, tasks
    <2>2. Outstanding' = Outstanding
      BY <1>12, <2>1 DEF Arrives, Outstanding, CountInv, CronTypeOK, ResultTypes, tasks
    <2> QED
      BY <1>12, <2>1, <2>2, Numbers DEF Arrives, Untouched, CountInv, EditInv, CronTypeOK, JobTypes,
          ResultTypes, tasks
  <1>13. ASSUME NEW t \in Triggers, SendTaskGuarded(t) PROVE CountInv'
    <2> SUFFICES ASSUME fault' = "none", Untouched' PROVE CountInv'
      BY DEF CountInv
    <2>1. fault = "none" /\ Untouched
      BY <1>13 DEF SendTaskGuarded, Untouched, CronTypeOK, JobTypes, tasks
    <2>2. Outstanding' = Outstanding
      BY <1>13, <2>1 DEF SendTaskGuarded, Outstanding, CountInv, CronTypeOK, ResultTypes, tasks
    <2> QED
      BY <1>13, <2>1, <2>2, Numbers DEF SendTaskGuarded, Untouched, CountInv, EditInv, CronTypeOK,
          JobTypes, ResultTypes, tasks
  <1>14. ASSUME NEW t \in Triggers, Revoke(t) PROVE CountInv'
    <2> SUFFICES ASSUME fault' = "none", Untouched' PROVE CountInv'
      BY DEF CountInv
    <2>1. fault = "none" /\ Untouched /\ fault' = fault
      BY <1>14 DEF Revoke, Untouched, tasks
    <2>2. IsFiniteSet(Outstanding)
      BY Numbers, FS_Subset DEF Outstanding, CronTypeOK, ResultTypes
    <2>3. t \in Outstanding /\ Outstanding' = Outstanding \ {t}
      BY <1>14, <2>1 DEF Revoke, Outstanding, CountInv, CronTypeOK, ResultTypes
    <2>4. Cardinality(Outstanding') = Cardinality(Outstanding) - 1 /\ Cardinality(Outstanding) \in Nat
      BY <2>2, <2>3, FS_RemoveElement, FS_CardinalityType
    <2>5. Cardinality(Outstanding) # 0
      BY <2>2, <2>3, FS_EmptySet
    <2> QED BY <1>14, <2>1, <2>4, <2>5 DEF Revoke, Untouched, CountInv, CronTypeOK, ResultTypes,
           tasks
  <1>15. ASSUME NEW t \in Triggers, ReportResult(t) PROVE CountInv'
    <2> SUFFICES ASSUME fault' = "none", Untouched' PROVE CountInv'
      BY DEF CountInv
    <2>1. fault = "none" /\ Untouched /\ fault' = fault
      BY <1>15 DEF ReportResult, Untouched, tasks
    <2>2. IsFiniteSet(Outstanding)
      BY Numbers, FS_Subset DEF Outstanding, CronTypeOK, ResultTypes
    <2>3. t \in Outstanding /\ Outstanding' = Outstanding \ {t}
      BY <1>15, <2>1 DEF ReportResult, Outstanding, CountInv, CronTypeOK, ResultTypes
    <2>4. Cardinality(Outstanding') = Cardinality(Outstanding) - 1 /\ Cardinality(Outstanding) \in Nat
      BY <2>2, <2>3, FS_RemoveElement, FS_CardinalityType
    <2>5. Cardinality(Outstanding) # 0
      BY <2>2, <2>3, FS_EmptySet
    <2>6. Consumable
      BY <1>15, <2>1, <2>4, <2>5, Numbers DEF ReportResult, Consumable, CountInv, NoTask
    <2> QED BY <1>15, <2>1, <2>4, <2>6 DEF ReportResult, Untouched, CountInv, CronTypeOK,
           ResultTypes, tasks
  <1>16. ASSUME NEW t \in Triggers, SendReturns(t) PROVE CountInv'
    <2> SUFFICES ASSUME fault' = "none", Untouched' PROVE CountInv'
      BY DEF CountInv
    <2>1. fault = "none" /\ Untouched
      BY <1>16 DEF SendReturns, Untouched, CronTypeOK, JobTypes, tasks
    <2>2. Outstanding' = Outstanding
      BY <1>16, <2>1 DEF SendReturns, Outstanding, CountInv, CronTypeOK, ResultTypes, tasks
    <2> QED
      BY <1>16, <2>1, <2>2, Numbers DEF SendReturns, Untouched, CountInv, EditInv, CronTypeOK,
          JobTypes, ResultTypes, tasks
  <1>17. ASSUME \/ (\E v \in Versions : RunJob(v))
              PROVE   UNCHANGED <<trigger, authorized, arrived, fault, refused, task, scheduled, deletion, step>>
    BY <1>17 DEF RunJob, tasks, results
  <1>18. ASSUME UNCHANGED <<trigger, authorized, arrived, fault, refused, task, scheduled, deletion,
              step>>
       PROVE  CountInv'
    BY <1>18 DEF CronTypeOK, JobTypes, ResultTypes, EditInv, CountInv, Untouched, Outstanding
  <1> QED BY <1>1, <1>2, <1>3, <1>4, <1>5, <1>6, <1>7, <1>8, <1>9, <1>10, <1>11, <1>12, <1>13,
         <1>14, <1>15, <1>16, <1>17, <1>18
  DEF CronNext, EditStep, TriggerStep

LEMMA InvHolds == CronSpec => [](CronTypeOK /\ EditInv /\ JobsOfTasks /\ CountInv)
  <1> DEFINE Inv == CronTypeOK /\ EditInv /\ JobsOfTasks /\ CountInv
  <1>1. Inv /\ CronNext => Inv'
    BY StepJobTypes, StepResultTypes, StepEditInv, StepJobsOfTasks, StepCountInv DEF CronTypeOK
  <1>2. Inv /\ UNCHANGED cronVars => Inv'
    BY DEF CronTypeOK, JobTypes, ResultTypes, EditInv, JobsOfTasks, CountInv, Untouched, Outstanding,
           cronVars, tasks, results
  <1> QED BY <1>1, <1>2, InitInv, PTL DEF CronSpec

(* Every variable keeps its declared type, the count of authorizations is    *)
(* never negative.                                                           *)
THEOREM CronTypes == CronSpec => []CronTypeOK
  BY InvHolds, PTL

(* For any number of edits that overlap, fail or meet the deletion: the      *)
(* scheduler has exactly the jobs of the cached task and of edits under way, *)
(* and what a job sends has been saved.                                      *)
THEOREM JobsFollowTasks == CronSpec => []JobsOfTasks
  BY InvHolds, PTL

(* For any number of alerts that trigger the task at once: while nobody      *)
(* changes it, the result of a command that was sent is accepted.            *)
THEOREM ResultsAccepted == CronSpec => []SentResultsAccepted
  <1>1. CronTypeOK /\ CountInv => SentResultsAccepted
    <2> SUFFICES ASSUME CronTypeOK, CountInv, fault = "none", Untouched
                 PROVE  Cardinality(arrived) <= authorized /\ refused = {}
      BY DEF SentResultsAccepted
    <2>1. IsFiniteSet(Outstanding) /\ arrived \subseteq Outstanding
      BY Numbers, FS_Subset DEF Outstanding, CronTypeOK, ResultTypes
    <2>2. Cardinality(arrived) <= Cardinality(Outstanding)
      BY <2>1, FS_Subset
    <2> QED BY <2>2 DEF CountInv
  <1> QED BY <1>1, InvHolds, PTL

-----------------------------------------------------------------------------
(* The service monitor: its table adds up and its history loses no report.   *)
MonitorTypeOK ==
    /\ clock \in 0 .. MaxClock /\ periodStart \in 0 .. MaxClock \cup {Unset}
    /\ stored \in BOOLEAN /\ registered \in BOOLEAN /\ current \in BOOLEAN
    /\ today \in Nat /\ total \in Nat /\ carried \in Nat /\ period \in Nat /\ accepted \in Nat
    /\ days \in [Columns -> Nat] /\ history \in [0 .. Day(MaxClock) -> Nat]
MonitorInv == MonitorTypeOK /\ TotalsAdd /\ HistoryExact

LEMMA MonitorNumbers ==
  /\ Days \in Nat /\ Days # 0 /\ DayLength \in Nat /\ DayLength # 0 /\ MaxClock \in Nat
  /\ Columns = 1 .. (Days - 1) + 1 /\ Days - 1 \in Nat /\ 1 \in Columns /\ Days \in Columns
  /\ IsFiniteSet(Columns)
  <1>1. Days \in Nat /\ Days # 0 /\ DayLength \in Nat /\ DayLength # 0 /\ MaxClock \in Nat
    BY MonitoringAssumption
  <1>2. IsFiniteSet(1 .. Days)
    BY <1>1, FS_Interval
  <1> QED BY <1>1, <1>2 DEF Columns

(* The clock never leaves the days of the history. *)
LEMMA DayInRange == \A t \in 0 .. MaxClock : Day(t) \in 0 .. Day(MaxClock)
  <1> SUFFICES ASSUME NEW t \in 0 .. MaxClock PROVE Day(t) \in 0 .. Day(MaxClock)
    OBVIOUS
  <1>1. /\ Day(t) \in Nat /\ DayLength * Day(t) <= t
        /\ Day(MaxClock) \in Nat /\ MaxClock < DayLength * (Day(MaxClock) + 1)
    BY MonitorNumbers DEF Day
  <1>2. DayLength * Day(t) < DayLength * (Day(MaxClock) + 1)
    BY <1>1, MonitorNumbers
  <1>3. Day(t) < Day(MaxClock) + 1
    BY <1>1, <1>2, MonitorNumbers
  <1> QED BY <1>1, <1>3

LEMMA HistoryFinite ==
  ASSUME history \in [0 .. Day(MaxClock) -> Nat]
  PROVE  DOMAIN history = 0 .. Day(MaxClock) /\ Counts(history, DOMAIN history)
  <1>1. Day(MaxClock) \in Nat
    BY MonitorNumbers DEF Day
  <1>2. IsFiniteSet(0 .. Day(MaxClock))
    BY <1>1, FS_Interval
  <1> QED BY <1>2 DEF Counts

LEMMA DaysCount ==
  ASSUME days \in [Columns -> Nat]
  PROVE  Counts(days, Columns) /\ Sum(days, Columns) \in Nat
  <1>1. Counts(days, Columns)
    BY MonitorNumbers DEF Counts
  <1> QED BY <1>1, SumIsNat

LEMMA NoDaysNoSum == Sum(NoDays, Columns) = 0 /\ NoDays \in [Columns -> Nat]
  BY MonitorNumbers, SumZero DEF NoDays

LEMMA MonitorInit0 == MonitorInit => MonitorInv
  <1> SUFFICES ASSUME MonitorInit PROVE MonitorInv
    OBVIOUS
  <1>1. MonitorTypeOK
    <2>1. history \in [0 .. Day(MaxClock) -> Nat] /\ days \in [Columns -> Nat]
      BY NoDaysNoSum DEF MonitorInit
    <2>2. clock \in 0 .. MaxClock /\ periodStart = Unset
      BY MonitorNumbers DEF MonitorInit
    <2> QED BY <2>1, <2>2 DEF MonitorInit, MonitorTypeOK
  <1>2. TotalsAdd
    BY NoDaysNoSum DEF MonitorInit, TotalsAdd
  <1>3. Sum(history, DOMAIN history) = 0
    <2>1. Counts(history, DOMAIN history) /\ \A d \in DOMAIN history : history[d] = 0
      BY <1>1, HistoryFinite DEF MonitorTypeOK, MonitorInit
    <2> QED BY <2>1, SumZero DEF Counts
  <1>4. HistoryExact
    BY <1>3 DEF MonitorInit, HistoryExact
  <1> QED BY <1>1, <1>2, <1>4 DEF MonitorInv

(* Whatever LoadStats makes of the table, it adds up afterwards as it did    *)
(* before.                                                                   *)
LEMMA BroughtUpAdds ==
  ASSUME MonitorInv, BroughtUp, UNCHANGED <<registered, current, carried, today>>
  PROVE  TotalsAdd' /\ total' \in Nat /\ days' \in [Columns -> Nat]
  <1>1. CASE ~registered
    BY <1>1 DEF MonitorInv, MonitorTypeOK, BroughtUp, TotalsAdd
  <1>2. CASE registered
    <2>1. /\ days' = [days EXCEPT ![Days] = today] /\ total' = total - days[Days] + today
          /\ days \in [Columns -> Nat] /\ today \in Nat /\ total \in Nat /\ carried \in Nat
      BY <1>2 DEF MonitorInv, MonitorTypeOK, BroughtUp
    <2>2. days' \in [Columns -> Nat] /\ days'[Days] = today /\ \A d \in Columns \ {Days} : days'[d] = days[d]
      BY <2>1, MonitorNumbers
    <2>3. Counts(days, Columns)
      BY <2>1, DaysCount
    <2>4. /\ Sum(days, Columns) = days[Days] + Sum(days, Columns \ {Days})
          /\ Sum(days, Columns \ {Days}) \in Nat /\ days[Days] \in Nat
      BY <2>3, MonitorNumbers, SumSplits, Z3
    <2>5. Sum(days', Columns) = Sum(days, Columns) - days[Days] + days'[Days]
      <3>1. Days \in Columns /\ days'[Days] \in Nat
        BY <2>1, <2>2, MonitorNumbers
      <3> QED BY <2>2, <2>3, <3>1, SumExcept, Z3
    <2>6. total = Sum(days, Columns) + carried
      BY <1>2 DEF MonitorInv, TotalsAdd
    <2>7. total' = Sum(days', Columns) + carried /\ total' \in Nat
      BY <2>1, <2>2, <2>4, <2>5, <2>6
    <2> QED BY <1>2, <2>2, <2>7 DEF TotalsAdd
  <1> QED BY <1>1, <1>2

(* Midnight takes from the total what the column that falls out had. *)
LEMMA ShiftAdds ==
  ASSUME MonitorInv, RefreshMonthlyServiceStatus
  PROVE  TotalsAdd' /\ total' \in Nat /\ days' \in [Columns -> Nat]
  <1>1. CASE ~registered
    BY <1>1 DEF MonitorInv, MonitorTypeOK, RefreshMonthlyServiceStatus, TotalsAdd, table, registry
  <1>2. CASE registered
    <2> DEFINE n == Days - 1
    <2>1. /\ days' = [d \in Columns |-> IF d = Days THEN 0 ELSE days[d + 1]]
          /\ total' = total - days[1] /\ carried' = carried /\ registered' = registered
          /\ days \in [Columns -> Nat] /\ total \in Nat /\ carried \in Nat
      BY <1>2 DEF MonitorInv, MonitorTypeOK, RefreshMonthlyServiceStatus, registry
    <2>2. n \in Nat /\ Columns = 1 .. n + 1 /\ n + 1 = Days
      BY MonitorNumbers
    <2>3. days'[n + 1] = 0 /\ \A d \in 1 .. n : days'[d] = days[d + 1]
      BY <2>1, <2>2
    <2>4. Counts(days, Columns)
      BY <2>1, DaysCount
    <2> HIDE DEF n
    <2>5. Counts(days', Columns) /\ Sum(days', Columns) = Sum(days, Columns) - days[1]
      BY <2>2, <2>3, <2>4, SumShift
    <2>6. days' \in [Columns -> Nat]
      BY <2>1, <2>5 DEF Counts
    <2>7. Sum(days', Columns) \in Nat
      BY <2>5, SumIsNat
    <2>8. total = Sum(days, Columns) + carried
      BY <1>2 DEF MonitorInv, TotalsAdd
    <2>9. Sum(days, Columns) \in Nat /\ days[1] \in Nat
      BY <2>1, DaysCount, MonitorNumbers
    <2>10. total' = Sum(days', Columns) + carried /\ total' \in Nat
      BY <2>1, <2>5, <2>7, <2>8, <2>9
    <2> QED BY <1>2, <2>1, <2>6, <2>10 DEF TotalsAdd
  <1> QED BY <1>1, <1>2

(* A report ends in the running period, and a period that is closed in the   *)
(* row of the day it began.                                                  *)
LEMMA FlushKeeps ==
  ASSUME MonitorInv, FlushServiceHistory, accepted' = accepted + 1
  PROVE  /\ HistoryExact' /\ accepted' \in Nat /\ period' \in Nat
         /\ periodStart' \in 0 .. MaxClock \cup {Unset} /\ history' \in [0 .. Day(MaxClock) -> Nat]
  <1>1. /\ history \in [0 .. Day(MaxClock) -> Nat] /\ period \in Nat /\ accepted \in Nat
        /\ clock \in 0 .. MaxClock /\ periodStart \in 0 .. MaxClock \cup {Unset}
        /\ Sum(history, DOMAIN history) + period = accepted
    BY DEF MonitorInv, MonitorTypeOK, HistoryExact
  <1>2. Counts(history, DOMAIN history) /\ Sum(history, DOMAIN history) \in Nat
    <2>1. Counts(history, DOMAIN history)
      BY <1>1, HistoryFinite
    <2> QED BY <2>1, SumIsNat
  <1>3. periodStart' \in 0 .. MaxClock \cup {Unset}
    BY <1>1 DEF FlushServiceHistory
  <1>4. CASE period' = period + 1 /\ UNCHANGED history
    BY <1>1, <1>2, <1>3, <1>4 DEF HistoryExact
  <1>5. CASE /\ ~(periodStart = Unset) /\ period' = 1
             /\ history' = [history EXCEPT ![Day(periodStart)] = @ + period]
    <2> DEFINE d == Day(periodStart)
               D == 0 .. Day(MaxClock)
    <2>1. d \in D /\ DOMAIN history = D /\ Counts(history, D)
      BY <1>1, <1>5, DayInRange, HistoryFinite
    <2>0. history \in [D -> Nat]
      BY <1>1
    <2> HIDE DEF d, D
    <2>2. history' = [history EXCEPT ![d] = history[d] + period]
      BY <1>5, <2>1 DEF d
    <2>3. /\ history' \in [D -> Nat] /\ DOMAIN history' = D
          /\ history[d] \in Nat /\ history'[d] = history[d] + period
          /\ \A e \in D \ {d} : history'[e] = history[e]
      <3>1. history[d] \in Nat
        BY <2>0, <2>1
      <3>2. history[d] + period \in Nat
        BY <1>1, <3>1
      <3> QED BY <2>0, <2>1, <2>2, <3>1, <3>2
    <2>4. history'[d] \in Nat
      BY <1>1, <2>3
    <2>5. Sum(history', D) = Sum(history, D) - history[d] + history'[d]
      BY <2>1, <2>3, <2>4, SumExcept
    <2>6. Sum(history', DOMAIN history') = Sum(history, DOMAIN history) + period
      BY <1>1, <1>2, <2>1, <2>3, <2>5
    <2> QED BY <1>1, <1>2, <1>3, <1>5, <2>3, <2>6 DEF HistoryExact, D
  <1> QED BY <1>4, <1>5 DEF FlushServiceHistory

(* What a restart reads back. *)
LEMMA RestartAdds ==
  ASSUME MonitorInv, RestartSentinel
  PROVE  TotalsAdd' /\ today' \in Nat /\ total' \in Nat /\ carried' \in Nat /\ days' \in [Columns -> Nat]
  <1>1. history \in [0 .. Day(MaxClock) -> Nat] /\ clock \in 0 .. MaxClock
    BY DEF MonitorInv, MonitorTypeOK
  <1>2. CASE ~stored
    BY <1>2, NoDaysNoSum DEF RestartSentinel, TotalsAdd
  <1>3. CASE stored
    <2>1. /\ today' = history[Day(clock)] /\ carried' = today' /\ current' = FALSE /\ registered'
          /\ days' = [d \in Columns |-> Sum(history, OfColumn(d))]
          /\ total' = Sum(days', Columns) + today'
      BY <1>3 DEF RestartSentinel
    <2>2. today' \in Nat
      BY <1>1, <2>1, DayInRange
    <2>3. ASSUME NEW d \in Columns PROVE Sum(history, OfColumn(d)) \in Nat
      <3>1. Counts(history, DOMAIN history) /\ OfColumn(d) \in SUBSET DOMAIN history
        BY <1>1, HistoryFinite DEF OfColumn
      <3> HIDE DEF OfColumn
      <3>2. Counts(history, OfColumn(d))
        BY <3>1, FS_Subset DEF Counts
      <3> QED BY <3>2, SumIsNat
    <2>4. days' \in [Columns -> Nat]
      BY <2>1, <2>3
    <2>5. Sum(days', Columns) \in Nat
      <3>1. Counts(days', Columns)
        BY <2>4, MonitorNumbers DEF Counts
      <3> QED BY <3>1, SumIsNat
    <2> QED BY <2>1, <2>2, <2>4, <2>5 DEF TotalsAdd
  <1> QED BY <1>2, <1>3

(* A restart and a deletion forget the running period. *)
LEMMA ForgetsPeriod ==
  ASSUME MonitorInv, UNCHANGED history, period' = 0, accepted' = accepted - period
  PROVE  HistoryExact' /\ accepted' \in Nat
  <1>1. /\ period \in Nat /\ accepted \in Nat /\ Sum(history, DOMAIN history) + period = accepted
        /\ history \in [0 .. Day(MaxClock) -> Nat]
    BY DEF MonitorInv, MonitorTypeOK, HistoryExact
  <1>2. Sum(history, DOMAIN history) \in Nat
    BY <1>1, HistoryFinite, SumIsNat
  <1> QED BY <1>1, <1>2 DEF HistoryExact

LEMMA MonitorStep == MonitorInv /\ [MonitorNext]_monitorVars => MonitorInv'
  <1> SUFFICES ASSUME MonitorInv, [MonitorNext]_monitorVars PROVE MonitorInv'
    OBVIOUS
  <1> USE DEF registry, handlers, table, periods
  <1>1. CASE UNCHANGED monitorVars
    BY <1>1 DEF monitorVars, MonitorInv, MonitorTypeOK, TotalsAdd, HistoryExact
  <1>2. CASE Dispatch \/ Validate \/ ReadService \/ SaveService \/ DeleteServiceRow \/ ClockTicks
    <2>1. UNCHANGED <<registered, table, periods, carried, accepted>>
      BY <1>2 DEF Dispatch, Validate, ReadService, SaveService, DeleteServiceRow, ClockTicks
    <2>2. stored' \in BOOLEAN
      BY <1>2 DEF MonitorInv, MonitorTypeOK, Dispatch, Validate, ReadService, SaveService, DeleteServiceRow,
         ClockTicks
    <2>3. clock' \in 0 .. MaxClock
      <3>1. CASE ClockTicks
        BY <3>1, MonitorNumbers DEF MonitorInv, MonitorTypeOK, ClockTicks
      <3>2. CASE ~ClockTicks
        BY <1>2, <3>2 DEF MonitorInv, MonitorTypeOK, Dispatch, Validate, ReadService, SaveService,
           DeleteServiceRow
      <3> QED BY <3>1, <3>2
    <2> QED BY <2>1, <2>2, <2>3 DEF MonitorInv, MonitorTypeOK, TotalsAdd, HistoryExact
  <1>3. CASE ProcessReport
    <2>1. CASE ~CanReport /\ UNCHANGED <<today, current, periods, accepted>>
      BY <1>3, <2>1 DEF ProcessReport, MonitorInv, MonitorTypeOK, TotalsAdd, HistoryExact
    <2>2. CASE CanReport /\ FlushServiceHistory /\ today' = today + 1 /\ current' = TRUE /\ accepted' = accepted + 1
      <3>1. /\ HistoryExact' /\ accepted' \in Nat /\ period' \in Nat
            /\ periodStart' \in 0 .. MaxClock \cup {Unset} /\ history' \in [0 .. Day(MaxClock) -> Nat]
        BY <2>2, FlushKeeps
      <3>2. UNCHANGED <<clock, registry, days, total, carried>>
        BY <1>3 DEF ProcessReport
      <3>3. TotalsAdd'
        BY <2>2, <3>2 DEF CanReport, MonitorInv, TotalsAdd
      <3> QED BY <2>2, <3>1, <3>2, <3>3 DEF MonitorInv, MonitorTypeOK
    <2> QED BY <1>3, <2>1, <2>2 DEF ProcessReport
  <1>4. CASE LoadStats \/ RefreshLoadsStats
    <2>1. BroughtUp /\ UNCHANGED <<clock, registry, today, current, periods, carried, accepted>>
      BY <1>4 DEF LoadStats, RefreshLoadsStats
    <2>2. TotalsAdd' /\ total' \in Nat /\ days' \in [Columns -> Nat]
      BY <2>1, BroughtUpAdds
    <2> QED BY <2>1, <2>2 DEF MonitorInv, MonitorTypeOK, HistoryExact
  <1>5. CASE RefreshMonthlyServiceStatus
    <2>1. TotalsAdd' /\ total' \in Nat /\ days' \in [Columns -> Nat]
      BY <1>5, ShiftAdds
    <2>2. /\ UNCHANGED <<clock, registry, periods, carried, accepted>>
          /\ today' \in Nat /\ current' \in BOOLEAN
      <3>1. UNCHANGED <<clock, registry, periods, carried, accepted>>
        BY <1>5 DEF RefreshMonthlyServiceStatus
      <3>2. CASE registered
        BY <1>5, <3>1, <3>2 DEF RefreshMonthlyServiceStatus
      <3>3. CASE ~registered
        BY <1>5, <3>1, <3>3 DEF RefreshMonthlyServiceStatus, MonitorInv, MonitorTypeOK
      <3> QED BY <3>2, <3>3
    <2> QED BY <2>1, <2>2 DEF MonitorInv, MonitorTypeOK, HistoryExact
  <1>6. CASE UpdateService
    <2>1. UNCHANGED <<clock, stored, current, periods, accepted>>
      BY <1>6 DEF UpdateService
    <2>2. /\ registered' \in BOOLEAN /\ today' \in Nat /\ total' \in Nat /\ carried' \in Nat
          /\ days' \in [Columns -> Nat] /\ TotalsAdd'
      <3>1. CASE UNCHANGED <<registered, admits, table, carried>>
        BY <3>1 DEF MonitorInv, MonitorTypeOK, TotalsAdd
      <3>2. CASE registered' = TRUE /\ registered /\ UNCHANGED <<table, carried>>
        BY <3>2 DEF MonitorInv, MonitorTypeOK, TotalsAdd
      <3>3. CASE registered' = TRUE /\ today' = 0 /\ days' = NoDays /\ total' = 0 /\ carried' = 0
        BY <3>3, NoDaysNoSum DEF TotalsAdd
      <3> QED BY <1>6, <3>1, <3>2, <3>3 DEF UpdateService
    <2> QED BY <2>1, <2>2 DEF MonitorInv, MonitorTypeOK, HistoryExact
  <1>7. CASE DeleteService
    <2>1. HistoryExact' /\ accepted' \in Nat
      BY <1>7, ForgetsPeriod DEF DeleteService
    <2>2. TotalsAdd' /\ days' \in [Columns -> Nat]
      BY <1>7, NoDaysNoSum DEF DeleteService, TotalsAdd
    <2> QED BY <1>7, <2>1, <2>2 DEF DeleteService, MonitorInv, MonitorTypeOK
  <1>8. CASE RestartSentinel
    <2>1. HistoryExact' /\ accepted' \in Nat
      BY <1>8, ForgetsPeriod DEF RestartSentinel
    <2>2. TotalsAdd' /\ today' \in Nat /\ total' \in Nat /\ carried' \in Nat /\ days' \in [Columns -> Nat]
      BY <1>8, RestartAdds
    <2>3. /\ UNCHANGED <<clock, stored, history>> /\ registered' = stored /\ current' = FALSE
          /\ period' = 0 /\ periodStart' = Unset
      BY <1>8 DEF RestartSentinel
    <2> QED BY <2>1, <2>2, <2>3 DEF MonitorInv, MonitorTypeOK
  <1> QED BY <1>1, <1>2, <1>3, <1>4, <1>5, <1>6, <1>7, <1>8 DEF MonitorNext

LEMMA MonitorInvariant == MonitorSpec => []MonitorInv
  BY MonitorInit0, MonitorStep, PTL DEF MonitorSpec

(* The total that LoadStats keeps (servicesentinel.go) is what the columns   *)
(* add up to and what start-up read of the running day, through every order  *)
(* of reports, calls of LoadStats, midnights, edits, deletions and restarts. *)
THEOREM TableAddsUp == MonitorSpec => []TotalsAdd
  <1>1. MonitorInv => TotalsAdd
    BY DEF MonitorInv
  <1> QED BY <1>1, MonitorInvariant, PTL

(* Every accepted report is in one history row or in the running period,     *)
(* however often the row could not be written (flushServiceHistory).         *)
THEOREM NoReportTwice == MonitorSpec => []HistoryExact
  <1>1. MonitorInv => HistoryExact
    BY DEF MonitorInv
  <1> QED BY <1>1, MonitorInvariant, PTL

-----------------------------------------------------------------------------
(* Alert rules: how much of its window a row of points covers.               *)

LEMMA Least == ASSUME NEW T \in SUBSET Nat, T # {} PROVE Min(T) \in T /\ \A k \in T : Min(T) <= k
  <1>1. \E m \in T : \A k \in T : m <= k
    BY LeastNumber
  <1> QED BY <1>1 DEF Min

LEMMA LeastOfThree ==
  ASSUME NEW a \in Int, NEW b \in Int, NEW c \in Int
  PROVE  Min({a, b, c}) \in {a, b, c} /\ Min({a, b, c}) <= a /\ Min({a, b, c}) <= b /\ Min({a, b, c}) <= c
  <1>1. \E m \in {a, b, c} : m <= a /\ m <= b /\ m <= c
    OBVIOUS
  <1>2. \E m \in {a, b, c} : \A y \in {a, b, c} : m <= y
    BY <1>1
  <1> QED BY <1>2 DEF Min

LEMMA GreaterOfTwo ==
  ASSUME NEW a \in Int, NEW b \in Int
  PROVE  Max({a, b}) = IF a <= b THEN b ELSE a
  <1>1. \E m \in {a, b} : \A y \in {a, b} : m >= y
    OBVIOUS
  <1> QED BY <1>1 DEF Max

LEMMA AlertNumbers ==
  /\ Duration \in Nat /\ Duration >= 3 /\ AlertWindow = 3 * Duration /\ AlertWindow \in Nat
  /\ SampleInterval = 3 /\ SampleMaxAge = 6 /\ TimedRetention = AlertWindow + 6
  /\ WindowEnd = 3 /\ WindowStart = 3 - AlertWindow /\ LastSpan = 3 /\ Silent = AlertWindow + 1
  BY AlertAssumption DEF AlertWindow, SampleInterval, SampleMaxAge, TimedRetention, WindowEnd, WindowStart,
     LastSpan, Silent

(* A row of points: instants in order, none in the future, the last of them  *)
(* still counting.                                                           *)
InOrder(points) ==
    /\ points # <<>> /\ Len(points) \in Nat /\ DOMAIN points = 1 .. Len(points)
    /\ \A k \in DOMAIN points : points[k].age \in Nat
    /\ \A j, k \in DOMAIN points : j < k => points[k].age <= points[j].age
Since(points, k) == IF -points[k].age <= WindowStart THEN WindowStart ELSE -points[k].age

LEMMA SpanOfLast ==
  ASSUME NEW points, InOrder(points), points[Len(points)].age <= 6
  PROVE  /\ Len(points) \in DOMAIN points
         /\ Span(points, Len(points)) = (3 - points[Len(points)].age) - Since(points, Len(points))
         /\ Span(points, Len(points)) \in Nat
  <1> DEFINE n == Len(points)
             a == points[n].age
  <1>1. n \in DOMAIN points /\ a \in Nat /\ a <= 6
    BY DEF InOrder
  <1>2. Min({-a + 3, -a + 6, 3}) = 3 - a
    <2>1. -a + 3 \in Int /\ -a + 6 \in Int /\ 3 \in Int
      BY <1>1
    <2>2. /\ Min({-a + 3, -a + 6, 3}) \in {-a + 3, -a + 6, 3} /\ Min({-a + 3, -a + 6, 3}) <= -a + 3
          /\ Min({-a + 3, -a + 6, 3}) <= -a + 6 /\ Min({-a + 3, -a + 6, 3}) <= 3
      BY <2>1, LeastOfThree
    <2> QED BY <1>1, <2>2
  <1>3. Max({-a, WindowStart}) = Since(points, n)
    <2>1. -a \in Int /\ WindowStart \in Int
      BY <1>1, AlertNumbers
    <2>2. Max({-a, WindowStart}) = IF -a <= WindowStart THEN WindowStart ELSE -a
      BY <2>1, GreaterOfTwo
    <2> QED BY <2>2 DEF Since
  <1>4. Since(points, n) \in Int /\ Since(points, n) <= 3 - a
    BY <1>1, AlertNumbers DEF Since
  <1>5. Max({0, (3 - a) - Since(points, n)}) = (3 - a) - Since(points, n)
    BY <1>1, <1>4, GreaterOfTwo
  <1>6. Span(points, n) = Max({0, Min({-a + 3, -a + 6, 3}) - Max({-a, WindowStart})})
    BY AlertNumbers DEF Span
  <1>7. Span(points, n) = (3 - a) - Since(points, n)
    BY <1>2, <1>3, <1>5, <1>6
  <1> QED BY <1>1, <1>4, <1>7

LEMMA SpanOfEarlier ==
  ASSUME NEW points, InOrder(points), NEW k \in DOMAIN points, k + 1 \in DOMAIN points
  PROVE  /\ Span(points, k) \in Nat
         /\ points[k].age - points[k + 1].age <= 6 => Span(points, k) = Since(points, k + 1) - Since(points, k)
         /\ AlertWindow - 3 <= points[k + 1].age => Span(points, k) = 0
  <1> DEFINE a == points[k].age
             b == points[k + 1].age
             to == Min({-b, -a + 6, 3})
  <1>1. a \in Nat /\ b \in Nat /\ b <= a /\ k \in Nat /\ k # Len(points)
    BY DEF InOrder
  <1>2. to \in {-b, -a + 6, 3} /\ to <= -b /\ to <= -a + 6 /\ to <= 3
    <2>1. -b \in Int /\ -a + 6 \in Int /\ 3 \in Int
      BY <1>1
    <2> QED BY <2>1, LeastOfThree
  <1>3. to \in Int /\ (a - b <= 6 => to = -b)
    BY <1>1, <1>2
  <1>4. Max({-a, WindowStart}) = Since(points, k) /\ Since(points, k) \in Int
    <2>1. -a \in Int /\ WindowStart \in Int
      BY <1>1, AlertNumbers
    <2>2. Max({-a, WindowStart}) = IF -a <= WindowStart THEN WindowStart ELSE -a
      BY <2>1, GreaterOfTwo
    <2> QED BY <2>1, <2>2 DEF Since
  <1>5. Span(points, k) = Max({0, to - Since(points, k)})
    <2>1. Span(points, k) = Max({0, to - Max({-a, WindowStart})})
      BY <1>1, AlertNumbers DEF Span
    <2> QED BY <1>4, <2>1
  <1> HIDE DEF to
  <1>6. Span(points, k) = IF 0 <= to - Since(points, k) THEN to - Since(points, k) ELSE 0
    BY <1>3, <1>4, <1>5, GreaterOfTwo
  <1>7. Span(points, k) \in Nat
    BY <1>3, <1>4, <1>6
  <1> DEFINE s == Since(points, k)
             u == Since(points, k + 1)
             W == WindowStart
             span == Span(points, k)
  <1>10. /\ s = IF -a <= W THEN W ELSE -a
         /\ u = IF -b <= W THEN W ELSE -b
         /\ W \in Int /\ W = 3 - AlertWindow /\ a \in Nat /\ b \in Nat /\ b <= a /\ to \in Int
         /\ span = IF 0 <= to - s THEN to - s ELSE 0
    BY <1>1, <1>3, <1>6, AlertNumbers DEF Since
  <1>8. ASSUME a - b <= 6 PROVE span = u - s
    <2>1. to = -b
      BY <1>3, <1>8
    <2> HIDE DEF a, b, s, u, W, span
    <2> QED BY ONLY <1>10, <2>1
  <1>9. ASSUME AlertWindow - 3 <= b PROVE span = 0
    <2>1. to <= -b /\ AlertWindow - 3 <= b /\ AlertWindow \in Int
      BY <1>2, <1>9, AlertNumbers
    <2> HIDE DEF a, b, s, u, W, span
    <2> QED BY ONLY <1>10, <2>1
  <1> QED BY <1>7, <1>8, <1>9

LEMMA SpansCount ==
  ASSUME NEW points, InOrder(points), points[Len(points)].age <= 6
  PROVE  Counts(Spans(points), DOMAIN points) /\ \A k \in DOMAIN points : Spans(points)[k] = Span(points, k)
  <1>1. \A k \in DOMAIN points : Span(points, k) \in Nat
    <2> SUFFICES ASSUME NEW k \in DOMAIN points PROVE Span(points, k) \in Nat
      OBVIOUS
    <2>1. CASE k = Len(points)
      BY <2>1, SpanOfLast
    <2>2. CASE k # Len(points)
      <3>1. k + 1 \in DOMAIN points
        BY <2>2 DEF InOrder
      <3> QED BY <3>1, SpanOfEarlier
    <2> QED BY <2>1, <2>2
  <1>2. IsFiniteSet(DOMAIN points)
    BY FS_Interval DEF InOrder
  <1> QED BY <1>1, <1>2 DEF Spans, Counts

(* The last points, none more than six seconds after the one before it,      *)
(* cover the time since the first of them without a gap.                     *)
Last(points, n) == Len(points) - n .. Len(points)

LEMMA LastCover ==
  ASSUME NEW points, InOrder(points), points[Len(points)].age <= 6,
         NEW m \in Nat, m < Len(points),
         \A k \in 0 .. m - 1 : points[Len(points) - k - 1].age - points[Len(points) - k].age <= 6
  PROVE  Sum(Spans(points), Last(points, m))
           = (3 - points[Len(points)].age) - Since(points, Len(points) - m)
  <1> DEFINE L == Len(points)
             f == Spans(points)
             Holding(n) == n <= m => Sum(f, Last(points, n)) = (3 - points[L].age) - Since(points, L - n)
             T == {n \in Nat : Holding(n)}
  <1>1. Counts(f, DOMAIN points) /\ \A k \in DOMAIN points : f[k] = Span(points, k)
    BY SpansCount
  <1>2. L \in Nat /\ DOMAIN points = 1 .. L /\ L > 0 /\ L \in DOMAIN points
    BY SpanOfLast DEF InOrder
  <1>3. \A k \in DOMAIN points : Since(points, k) \in Int /\ points[k].age \in Nat
    BY AlertNumbers DEF InOrder, Since
  <1> HIDE DEF f
  <1>4. ASSUME NEW n \in Nat, n <= m PROVE Counts(f, Last(points, n)) /\ L - n \in DOMAIN points
    <2>1. Last(points, n) \in SUBSET DOMAIN points /\ L - n \in DOMAIN points
      BY <1>2, <1>4 DEF Last
    <2>2. Counts(f, Last(points, n))
      BY <1>1, <2>1, FS_Subset DEF Counts
    <2> QED BY <2>1, <2>2
  <1>5. 0 \in T
    <2>1. Last(points, 0) = {L} /\ Last(points, 0) \ {L} = {} /\ L - 0 = L
      BY <1>2 DEF Last
    <2>2. Sum(f, Last(points, 0)) = f[L] + Sum(f, {})
      <3>1. Counts(f, Last(points, 0)) /\ L \in Last(points, 0)
        BY <1>4, <2>1
      <3> HIDE DEF L
      <3>2. Sum(f, Last(points, 0)) = f[L] + Sum(f, Last(points, 0) \ {L})
        BY <3>1, SumSplits, Z3
      <3> QED BY <2>1, <3>2
    <2>3. Sum(f, {}) = 0
      BY SumZero, FS_EmptySet
    <2>4. f[L] = (3 - points[L].age) - Since(points, L)
      BY <1>1, <1>2, SpanOfLast
    <2> QED BY <1>2, <1>3, <2>1, <2>2, <2>3, <2>4
  <1>6. ASSUME NEW n \in Nat, n \in T PROVE n + 1 \in T
    <2> SUFFICES ASSUME n + 1 <= m
                 PROVE  Sum(f, Last(points, n + 1)) = (3 - points[L].age) - Since(points, L - (n + 1))
      OBVIOUS
    <2> DEFINE j == L - (n + 1)
    <2>1. j \in DOMAIN points /\ j + 1 = L - n /\ j + 1 \in DOMAIN points
      BY <1>2
    <2>2. points[j].age - points[j + 1].age <= 6
      <3>1. n \in 0 .. m - 1 /\ L - n - 1 = j
        BY <1>2
      <3> HIDE DEF j, L
      <3>2. points[L - n - 1].age - points[L - n].age <= 6
        BY <3>1 DEF L
      <3> QED BY <2>1, <3>1, <3>2
    <2>3. f[j] = Since(points, L - n) - Since(points, j)
      <3> HIDE DEF j, L
      <3> QED BY <1>1, <2>1, <2>2, SpanOfEarlier
    <2>4. Last(points, n + 1) \ {j} = Last(points, n) /\ j \in Last(points, n + 1)
      BY <1>2 DEF Last
    <2>5. Sum(f, Last(points, n + 1)) = f[j] + Sum(f, Last(points, n))
      <3>1. Counts(f, Last(points, n + 1))
        BY <1>4
      <3> HIDE DEF j, L
      <3>2. Sum(f, Last(points, n + 1)) = f[j] + Sum(f, Last(points, n + 1) \ {j})
        BY <2>4, <3>1, SumSplits, Z3
      <3> QED BY <2>4, <3>2
    <2>6. Sum(f, Last(points, n)) = (3 - points[L].age) - Since(points, L - n)
      BY <1>6
    <2>7. Since(points, L - n) \in Int /\ Since(points, j) \in Int /\ points[L].age \in Nat
      BY <1>2, <1>3, <2>1
    <2> DEFINE a == Since(points, L - n)
               b == Since(points, j)
               c == points[L].age
               part == Sum(f, Last(points, n))
    <2>8. f[j] = a - b /\ part = (3 - c) - a /\ a \in Int /\ b \in Int /\ c \in Nat
      BY <2>3, <2>6, <2>7
    <2> HIDE DEF j, L, a, b, c, part
    <2>9. f[j] + part = (3 - c) - b
      BY ONLY <2>8
    <2> QED BY <2>5, <2>9 DEF j, b, c, part
  <1>7. m \in T
    <2> HIDE DEF T
    <2> QED BY <1>5, <1>6, Inductive
  <1> QED BY <1>7 DEF f

LEMMA FirstOldest ==
  ASSUME NEW points, InOrder(points), NEW e \in DOMAIN points
  PROVE  points[e].age <= points[1].age
  <1>1. /\ Len(points) \in Nat /\ DOMAIN points = 1 .. Len(points)
        /\ \A k \in DOMAIN points : points[k].age \in Nat
        /\ \A j, k \in DOMAIN points : j < k => points[k].age <= points[j].age
    BY DEF InOrder
  <1>2. 1 \in DOMAIN points /\ (e = 1 \/ 1 < e)
    BY <1>1
  <1>3. points[1].age \in Nat
    BY <1>1, <1>2
  <1> QED BY <1>1, <1>2, <1>3

(* Points without a gap that reach back to the beginning of the window       *)
(* decide of how much of it any set of points tells that has all of them or  *)
(* none.                                                                     *)
LEMMA WindowCovered ==
  ASSUME NEW points, InOrder(points), points[Len(points)].age <= 6,
         NEW m \in Nat, m < Len(points),
         \A k \in 0 .. m - 1 : points[Len(points) - k - 1].age - points[Len(points) - k].age <= 6,
         AlertWindow - 3 <= points[Len(points) - m].age
  PROVE  /\ Last(points, m) \in SUBSET DOMAIN points
         /\ -points[1].age <= WindowStart
         /\ \A S \in SUBSET DOMAIN points :
              /\ Last(points, m) \subseteq S => Seconds(Spans(points), S) = AlertWindow - points[Len(points)].age
              /\ Last(points, m) \cap S = {} => Seconds(Spans(points), S) = 0
  <1> DEFINE L == Len(points)
             f == Spans(points)
             R == Last(points, m)
  <1>1. L \in Nat /\ DOMAIN points = 1 .. L /\ m < L /\ L - m \in DOMAIN points /\ 1 \in DOMAIN points
    BY DEF InOrder
  <1>2. R \in SUBSET DOMAIN points
    BY <1>1 DEF Last
  <1>3. Counts(f, DOMAIN points) /\ \A k \in DOMAIN points : f[k] = Span(points, k)
    BY SpansCount
  <1>4. /\ \A k \in DOMAIN points : points[k].age \in Nat
        /\ \A j, k \in DOMAIN points : j < k => points[k].age <= points[j].age
        /\ AlertWindow - 3 <= points[L - m].age
    BY DEF InOrder
  <1>5. Since(points, L - m) = WindowStart
    <2>1. points[L - m].age \in Nat /\ AlertWindow - 3 <= points[L - m].age
      BY <1>1, <1>4
    <2> QED BY <2>1, AlertNumbers DEF Since
  <1>6. Sum(f, R) = AlertWindow - points[L].age
    <2>1. Sum(f, R) = (3 - points[L].age) - Since(points, L - m)
      BY LastCover
    <2>2. points[L].age \in Nat
      BY <1>1, <1>4
    <2> HIDE DEF f, R, L
    <2> QED BY <1>5, <2>1, <2>2, AlertNumbers
  <1>7. ASSUME NEW k \in DOMAIN points, k \notin R PROVE f[k] = 0
    <2>1. k < L - m /\ k + 1 <= L - m /\ k + 1 \in DOMAIN points
      BY <1>1, <1>7 DEF Last
    <2>2. points[L - m].age <= points[k + 1].age
      <3>1. CASE k + 1 = L - m
        BY <1>1, <1>4, <3>1
      <3>2. CASE k + 1 # L - m
        <4> DEFINE j == k + 1
                   e == L - m
        <4>1. j \in DOMAIN points /\ e \in DOMAIN points /\ j < e
          BY <1>1, <2>1, <3>2
        <4> HIDE DEF j, e, L
        <4>2. points[e].age <= points[j].age
          BY <1>4, <4>1
        <4> QED BY <4>2 DEF j, e
      <3> QED BY <3>1, <3>2
    <2>3. AlertWindow - 3 <= points[k + 1].age
      <3> DEFINE a == points[k + 1].age
                 b == points[L - m].age
      <3>1. a \in Nat /\ b \in Nat /\ b <= a /\ AlertWindow - 3 <= b /\ AlertWindow \in Nat
        BY <1>1, <1>4, <2>1, <2>2, AlertNumbers
      <3> HIDE DEF a, b
      <3>2. AlertWindow - 3 <= a
        BY <3>1
      <3> QED BY <3>2 DEF a
    <2> QED BY <1>3, <2>1, <2>3, SpanOfEarlier
  <1>8. -points[1].age <= WindowStart
    <2>1. points[L - m].age <= points[1].age
      BY <1>1, FirstOldest
    <2> DEFINE a == points[1].age
               b == points[L - m].age
    <2>2. a \in Nat /\ b \in Nat /\ b <= a /\ AlertWindow - 3 <= b /\ WindowStart = 3 - AlertWindow
          /\ AlertWindow \in Nat
      <3>1. 1 \in DOMAIN points /\ L - m \in DOMAIN points
        BY <1>1
      <3> QED BY <1>1, <1>4, <2>1, <3>1, AlertNumbers
    <2> HIDE DEF a, b
    <2>3. -a <= WindowStart
      BY ONLY <2>2
    <2> QED BY <2>3 DEF a
  <1> HIDE DEF f, R
  <1>9. ASSUME NEW S \in SUBSET DOMAIN points, R \subseteq S PROVE Sum(f, S) = AlertWindow - points[L].age
    <2>1. Counts(f, S)
      BY <1>3, SumOfPart
    <2>2. \A k \in S \ R : f[k] = 0
      BY <1>7
    <2>3. R \in SUBSET S
      BY <1>9
    <2>4. Sum(f, S) = Sum(f, R)
      BY <2>1, <2>2, <2>3, SumOutside
    <2> QED BY <1>6, <2>4
  <1>10. ASSUME NEW S \in SUBSET DOMAIN points, R \cap S = {} PROVE Sum(f, S) = 0
    <2>1. IsFiniteSet(S)
      BY <1>3, FS_Subset DEF Counts
    <2>2. \A k \in S : f[k] = 0
      BY <1>7, <1>10
    <2> QED BY <2>1, <2>2, SumZero
  <1>11. \A S : Seconds(f, S) = Sum(f, S)
    BY DEF Seconds, Sum
  <1>12. \A S \in SUBSET DOMAIN points :
           /\ R \subseteq S => Seconds(f, S) = AlertWindow - points[L].age
           /\ R \cap S = {} => Seconds(f, S) = 0
    BY <1>9, <1>10, <1>11
  <1> QED BY <1>2, <1>8, <1>12 DEF f, R

-----------------------------------------------------------------------------
(* What dropping old points leaves. *)
Points == [age : Nat, values : [Conditions -> BOOLEAN]]

LEMMA RecentKeeps ==
  ASSUME NEW P, NEW points \in Seq(P), NEW most, points # <<>>, points[Len(points)].age <= most
  PROVE  /\ Recent(points, most) \in Seq(P) /\ Len(Recent(points, most)) \in 1 .. Len(points)
         /\ \A k \in 0 .. Len(Recent(points, most)) - 1 :
              Recent(points, most)[Len(Recent(points, most)) - k] = points[Len(points) - k]
         /\ \A k \in 1 .. Len(points) : points[k].age <= most => Len(points) - k < Len(Recent(points, most))
  <1> DEFINE L == Len(points)
             Good == {k \in DOMAIN points : points[k].age <= most}
             T == Good \cup {L + 1}
             first == Min(T)
             R == Recent(points, most)
  <1>1. L \in Nat /\ L > 0 /\ DOMAIN points = 1 .. L /\ \A k \in 1 .. L : points[k] \in P
    OBVIOUS
  <1>2. T \in SUBSET Nat /\ T # {} /\ L \in T
    <2>1. L \in Good /\ Good \in SUBSET Nat /\ L + 1 \in Nat
      BY <1>1
    <2> HIDE DEF Good
    <2> QED BY <2>1
  <1>3. first \in T /\ \A k \in T : first <= k
    <2> HIDE DEF T
    <2> QED BY <1>2, Least
  <1>4. first \in 1 .. L /\ \A k \in 1 .. L : points[k].age <= most => first <= k
    <2>1. first <= L /\ first \in Nat
      BY <1>2, <1>3
    <2>2. first \in Good
      BY <1>1, <1>3, <2>1
    <2>3. Good \subseteq 1 .. L /\ Good \subseteq T
      BY <1>1
    <2>4. \A k \in 1 .. L : points[k].age <= most => k \in Good
      BY <1>1
    <2> HIDE DEF first, T, Good
    <2> QED BY <1>3, <2>2, <2>3, <2>4
  <1>5. R = SubSeq(points, first, L)
    BY DEF Recent
  <1> HIDE DEF first, T, Good, R, L
  <1>6. /\ R \in Seq(P) /\ Len(R) = L - first + 1
        /\ \A i \in 1 .. L - first + 1 : R[i] = points[first + i - 1]
    <2>1. \A i \in first .. L : points[i] \in P
      BY <1>1, <1>4
    <2>2. first \in Int /\ L \in Int /\ first <= L
      BY <1>1, <1>4
    <2> QED BY <1>5, <2>1, <2>2, SubSeqProperties
  <1>7. Len(R) \in 1 .. L
    BY <1>1, <1>4, <1>6
  <1>8. ASSUME NEW k \in 0 .. Len(R) - 1 PROVE R[Len(R) - k] = points[L - k]
    <2>1. Len(R) - k \in 1 .. L - first + 1 /\ first + (Len(R) - k) - 1 = L - k
      BY <1>1, <1>4, <1>6
    <2> QED BY <1>6, <2>1
  <1>9. ASSUME NEW k \in 1 .. L, points[k].age <= most PROVE L - k < Len(R)
    BY <1>1, <1>4, <1>6, <1>9
  <1> QED BY <1>6, <1>7, <1>8, <1>9 DEF L, R

LEMMA OlderAges ==
  ASSUME NEW points \in Seq(Points)
  PROVE  /\ Older(points) \in Seq(Points) /\ Len(Older(points)) = Len(points)
         /\ DOMAIN Older(points) = DOMAIN points
         /\ \A k \in DOMAIN points : /\ points[k] \in Points
                                     /\ Older(points)[k].age = points[k].age + 1
                                     /\ Older(points)[k].values = points[k].values
  <1>1. DOMAIN points = 1 .. Len(points) /\ Len(points) \in Nat /\ \A k \in DOMAIN points : points[k] \in Points
    BY LenProperties, ElementOfSeq
  <1>2. ASSUME NEW p \in Points
        PROVE  /\ [p EXCEPT !.age = @ + 1] \in Points
               /\ [p EXCEPT !.age = @ + 1].age = p.age + 1 /\ [p EXCEPT !.age = @ + 1].values = p.values
    BY DEF Points
  <1>3. /\ DOMAIN Older(points) = 1 .. Len(points)
        /\ \A k \in DOMAIN points : Older(points)[k] = [points[k] EXCEPT !.age = @ + 1]
        /\ Older(points) = [k \in 1 .. Len(points) |-> Older(points)[k]]
    BY <1>1 DEF Older
  <1>4. \A k \in DOMAIN points : Older(points)[k] \in Points
    BY <1>1, <1>2, <1>3
  <1>5. Older(points) \in Seq(Points) /\ Len(Older(points)) = Len(points)
    BY <1>1, <1>3, <1>4
  <1> QED BY <1>1, <1>2, <1>3, <1>5

-----------------------------------------------------------------------------
(* The looks of a run: each in its tick, at a report that came since the     *)
(* look before or is as young as a run allows, and every point still there.  *)

(* A rule whose looks are late, when it judges a metric, has a window short  *)
(* enough that the reports of a run leave no gap.                            *)
OnTime(c) ==
    (\E i \in DOMAIN c.rule : c.rule[i] # "offline") => c.late = 0 \/ 10 * c.late + 3 * Duration < 40

ThisTick == IF due THEN 3 + phase ELSE phase   \* since the tick of the last look
Nth(k) == samples[Len(samples) - k]            \* the last point is Nth(0)
Slack(k) == IF case.late = 0 /\ k = same.looks - 1 THEN 6 ELSE 3 - case.late

AlertTypeOK ==
    /\ case \in Cases /\ phase \in 0 .. 2 /\ due \in BOOLEAN
    /\ runtime \in [age : 0 .. Silent, measures : {<<>>} \cup UNION {c.reports : c \in Cases},
                    attached : BOOLEAN, fresh : BOOLEAN]
    /\ samples \in Seq(Points) /\ same.looks \in 0 .. Duration + 1
    /\ same.looks > 0 => same.values \in [Conditions -> BOOLEAN]
LooksInv ==
    /\ due => phase <= case.late
    /\ IsMetricRule /\ runtime.fresh /\ same.looks > 0 => runtime.age <= ThisTick
OrderInv ==
    /\ \A j, k \in DOMAIN samples : j < k => samples[k].age <= samples[j].age
    /\ IsMetricRule /\ samples # <<>> => runtime.age <= samples[Len(samples)].age
RunInv ==
    /\ same.looks <= Len(samples)
    /\ \A k \in 0 .. same.looks - 1 :
         /\ Nth(k).values = same.values
         /\ 3 * k + ThisTick - case.late <= Nth(k).age /\ Nth(k).age <= 3 * k + ThisTick + Slack(k)
AlertInv == AlertTypeOK /\ LooksInv /\ OrderInv /\ RunInv /\ LastingDecided

LEMMA CaseTypes ==
  ASSUME AlertTypeOK
  PROVE  /\ case.late \in 0 .. 2 /\ Conditions = DOMAIN case.rule
         /\ \A i \in Conditions : case.rule[i] \in {"metric", "offline", "cycle"}
         /\ IsMetricRule \in BOOLEAN /\ Len(samples) \in Nat /\ DOMAIN samples = 1 .. Len(samples)
         /\ \A k \in DOMAIN samples : samples[k].age \in Nat
         /\ runtime.age \in 0 .. Silent /\ runtime.fresh \in BOOLEAN
  <1>1. case \in Cases
    BY DEF AlertTypeOK
  <1>2. /\ case.late \in 0 .. 2
        /\ \A i \in DOMAIN case.rule : case.rule[i] \in {"metric", "offline", "cycle"}
    BY <1>1, AlertAssumption
  <1>3. /\ Len(samples) \in Nat /\ DOMAIN samples = 1 .. Len(samples)
        /\ \A k \in 1 .. Len(samples) : samples[k] \in Points
    BY LenProperties, ElementOfSeq DEF AlertTypeOK
  <1>4. \A k \in DOMAIN samples : samples[k].age \in Nat
    BY <1>3 DEF Points
  <1>5. runtime.age \in 0 .. Silent /\ runtime.fresh \in BOOLEAN
    BY DEF AlertTypeOK
  <1> QED BY <1>2, <1>3, <1>4, <1>5 DEF Conditions, IsMetricRule

LEMMA SecondKeeps ==
  ASSUME AlertInv, Second
  PROVE  AlertInv'
  <1> DEFINE L == Len(samples)
  <1>1. AlertTypeOK /\ LooksInv /\ OrderInv /\ RunInv /\ LastingDecided
    BY DEF AlertInv
  <1>2. /\ case.late \in 0 .. 2 /\ L \in Nat /\ DOMAIN samples = 1 .. L
        /\ \A k \in DOMAIN samples : samples[k].age \in Nat
        /\ runtime.age \in 0 .. Silent /\ phase \in 0 .. 2 /\ due \in BOOLEAN /\ same.looks \in 0 .. Duration + 1
    BY <1>1, CaseTypes DEF AlertTypeOK
  <1>3. /\ (due => phase < case.late) /\ phase' = (phase + 1) % 3 /\ due' = (due \/ phase' = 0)
        /\ UNCHANGED <<case, verdict, same>> /\ samples' = Older(samples)
        /\ runtime' = [runtime EXCEPT !.age = IF @ = Silent THEN @ ELSE @ + 1]
    BY AlertNumbers DEF Second
  <1>4. phase' = (IF phase = 2 THEN 0 ELSE phase + 1) /\ phase' \in 0 .. 2 /\ due' \in BOOLEAN
    BY <1>2, <1>3
  <1>5. ThisTick' = ThisTick + 1 /\ ThisTick \in Nat
    <2>1. CASE phase = 2
      <3>1. ~due
        BY <1>2, <1>3, <2>1
      <3>2. phase' = 0
        BY <1>4, <2>1
      <3>3. due'
        BY <1>3, <3>2
      <3> QED BY <2>1, <3>1, <3>2, <3>3 DEF ThisTick
    <2>2. CASE phase # 2
      <3>1. phase' = phase + 1 /\ due' = due
        BY <1>2, <1>3, <1>4, <2>2
      <3> QED BY <1>2, <3>1 DEF ThisTick
    <2> QED BY <2>1, <2>2
  <1>6. /\ samples' \in Seq(Points) /\ Len(samples') = L /\ DOMAIN samples' = 1 .. L
        /\ \A k \in 1 .. L : samples'[k].age = samples[k].age + 1 /\ samples'[k].values = samples[k].values
    BY <1>1, <1>2, <1>3, OlderAges DEF AlertTypeOK
  <1>7. /\ runtime' \in [age : 0 .. Silent, measures : {<<>>} \cup UNION {c.reports : c \in Cases},
                         attached : BOOLEAN, fresh : BOOLEAN]
        /\ runtime'.age <= runtime.age + 1 /\ runtime'.fresh = runtime.fresh
    <2> DEFINE a == IF runtime.age = Silent THEN runtime.age ELSE runtime.age + 1
    <2>1. a \in 0 .. Silent /\ a <= runtime.age + 1
      <3> DEFINE n == runtime.age
                 most == Silent
      <3>4. n \in 0 .. most
        BY <1>2
      <3>5. most \in Nat
        BY AlertNumbers
      <3>1. n \in 0 .. most /\ most \in Nat
        BY <3>4, <3>5
      <3>2. a = IF n = most THEN n ELSE n + 1
        OBVIOUS
      <3> HIDE DEF n, most, a
      <3>3. a \in 0 .. most /\ a <= n + 1
        BY ONLY <3>1, <3>2
      <3> QED BY <3>3 DEF n, most
    <2>2. runtime' = [runtime EXCEPT !.age = a]
      BY <1>3
    <2> HIDE DEF a
    <2> QED BY <1>1, <2>1, <2>2 DEF AlertTypeOK
  <1>8. Conditions' = Conditions /\ IsMetricRule' = IsMetricRule /\ Points' = Points
    BY <1>3 DEF Conditions, IsMetricRule, Points
  <1>9. AlertTypeOK'
    BY <1>1, <1>3, <1>4, <1>6, <1>7, <1>8 DEF AlertTypeOK
  <1>10. LooksInv'
    <2>1. due' => phase' <= case'.late
      BY <1>2, <1>3, <1>4
    <2>2. ASSUME IsMetricRule', runtime'.fresh, same'.looks > 0 PROVE runtime'.age <= ThisTick'
      <3>1. runtime.age <= ThisTick
        BY <1>1, <1>3, <1>7, <1>8, <2>2 DEF LooksInv
      <3>2. runtime'.age \in Nat
        BY <1>7
      <3> QED BY <1>2, <1>5, <1>7, <3>1, <3>2
    <2> QED BY <2>1, <2>2 DEF LooksInv
  <1>11. OrderInv'
    <2>1. ASSUME NEW j \in 1 .. L, NEW k \in 1 .. L, j < k PROVE samples'[k].age <= samples'[j].age
      <3>1. samples[k].age <= samples[j].age /\ samples[k].age \in Nat /\ samples[j].age \in Nat
        BY <1>1, <1>2, <2>1 DEF OrderInv
      <3> QED BY <1>6, <3>1
    <2>2. ASSUME IsMetricRule', samples' # <<>> PROVE runtime'.age <= samples'[Len(samples')].age
      <3>1. L \in 1 .. L /\ samples # <<>>
        BY <1>2, <1>6, <2>2
      <3>2. runtime.age <= samples[L].age /\ samples[L].age \in Nat
        BY <1>1, <1>2, <1>8, <2>2, <3>1 DEF OrderInv
      <3>3. samples'[Len(samples')].age = samples[L].age + 1
        BY <1>6, <3>1
      <3>4. runtime'.age \in Nat
        BY <1>7
      <3> QED BY <1>2, <1>7, <3>2, <3>3, <3>4
    <2> QED BY <1>6, <2>1, <2>2 DEF OrderInv
  <1>12. RunInv'
    <2>1. same'.looks <= Len(samples')
      BY <1>1, <1>3, <1>6 DEF RunInv
    <2>2. ASSUME NEW k \in 0 .. same.looks - 1
          PROVE  /\ Nth(k)'.values = same'.values
                 /\ 3 * k + ThisTick' - case'.late <= Nth(k)'.age /\ Nth(k)'.age <= 3 * k + ThisTick' + Slack(k)'
      <3>1. /\ Nth(k).values = same.values /\ same.looks <= L
            /\ 3 * k + ThisTick - case.late <= Nth(k).age /\ Nth(k).age <= 3 * k + ThisTick + Slack(k)
        BY <1>1 DEF RunInv
      <3>2. L - k \in 1 .. L /\ k \in Nat
        BY <1>2, <3>1
      <3>3. Nth(k)'.values = Nth(k).values /\ Nth(k)'.age = Nth(k).age + 1 /\ Nth(k).age \in Nat
        BY <1>2, <1>6, <3>2 DEF Nth
      <3>4. Slack(k)' = Slack(k) /\ Slack(k) \in Nat
        BY <1>2, <1>3 DEF Slack
      <3> DEFINE a == Nth(k).age
                 s == Slack(k)
                 b == ThisTick
      <3>5. a \in Nat /\ s \in Nat /\ b \in Nat /\ case.late \in Nat /\ k \in Nat
        BY <1>2, <1>5, <3>2, <3>3, <3>4
      <3>6. 3 * k + b - case.late <= a /\ a <= 3 * k + b + s
        BY <3>1
      <3> HIDE DEF a, s, b
      <3>7. 3 * k + (b + 1) - case.late <= a + 1 /\ a + 1 <= 3 * k + (b + 1) + s
        BY <3>5, <3>6
      <3> QED BY <1>3, <1>5, <3>1, <3>3, <3>4, <3>7 DEF a, s, b
    <2> QED BY <1>3, <2>1, <2>2 DEF RunInv
  <1>13. LastingDecided'
    BY <1>1, <1>3, <1>8 DEF LastingDecided
  <1> QED BY <1>9, <1>10, <1>11, <1>12, <1>13 DEF AlertInv

(* A step that ends the run, or leaves it as it is. *)
LEMMA RunEnds ==
  ASSUME AlertInv, UNCHANGED <<case, phase, samples>> \/ (UNCHANGED <<case, phase>> /\ samples' = <<>>),
         same' = NoRun, due' = due \/ due' = FALSE,
         runtime' \in [age : 0 .. Silent, measures : {<<>>} \cup UNION {c.reports : c \in Cases},
                       attached : BOOLEAN, fresh : BOOLEAN],
         runtime'.age = runtime.age
  PROVE  AlertInv'
  <1>1. AlertTypeOK /\ LooksInv /\ OrderInv /\ RunInv
    BY DEF AlertInv
  <1>2. Conditions' = Conditions /\ IsMetricRule' = IsMetricRule /\ Points' = Points /\ same'.looks = 0
    BY DEF Conditions, IsMetricRule, Points, NoRun
  <1>3. samples' \in Seq(Points)
    BY <1>1, EmptySeq DEF AlertTypeOK
  <1>4. AlertTypeOK'
    <2>1. same'.looks \in 0 .. Duration + 1 /\ ~(same'.looks > 0)
      BY <1>2, AlertNumbers
    <2>2. case' \in Cases /\ phase' \in 0 .. 2 /\ due' \in BOOLEAN
      BY <1>1 DEF AlertTypeOK
    <2> QED BY <1>2, <1>3, <2>1, <2>2 DEF AlertTypeOK
  <1>5. LooksInv'
    BY <1>1, <1>2 DEF LooksInv
  <1>6. OrderInv'
    <2>1. CASE samples' = <<>>
      BY <2>1 DEF OrderInv
    <2>2. CASE samples' = samples
      BY <1>1, <1>2, <2>2 DEF OrderInv
    <2> QED BY <2>1, <2>2
  <1>7. RunInv'
    <2>1. Len(samples') \in Nat
      BY <1>3, LenProperties
    <2> QED BY <1>2, <2>1 DEF RunInv
  <1>8. LastingDecided'
    BY <1>2, AlertNumbers DEF LastingDecided
  <1> QED BY <1>4, <1>5, <1>6, <1>7, <1>8 DEF AlertInv

LEMMA RunStays ==
  ASSUME AlertInv, UNCHANGED <<case, phase, due, samples, verdict, same>>,
         runtime' \in [age : 0 .. Silent, measures : {<<>>} \cup UNION {c.reports : c \in Cases},
                       attached : BOOLEAN, fresh : BOOLEAN],
         runtime'.age = 0 \/ (runtime'.age = runtime.age /\ runtime'.fresh = runtime.fresh)
  PROVE  AlertInv'
  <1>1. AlertTypeOK /\ LooksInv /\ OrderInv /\ RunInv /\ LastingDecided
    BY DEF AlertInv
  <1>2. Conditions' = Conditions /\ IsMetricRule' = IsMetricRule /\ Points' = Points /\ ThisTick' = ThisTick
    BY DEF Conditions, IsMetricRule, Points, ThisTick
  <1>3. ThisTick \in Nat /\ Len(samples) \in Nat /\ DOMAIN samples = 1 .. Len(samples)
        /\ \A k \in DOMAIN samples : samples[k].age \in Nat
    BY <1>1, CaseTypes DEF AlertTypeOK, ThisTick
  <1>4. AlertTypeOK'
    BY <1>1, <1>2 DEF AlertTypeOK
  <1>5. LooksInv'
    BY <1>1, <1>2, <1>3 DEF LooksInv
  <1>6. OrderInv'
    <2>1. ASSUME samples # <<>> PROVE samples[Len(samples)].age \in Nat
      <3>1. Len(samples) \in DOMAIN samples
        BY <1>1, <1>3, <2>1, EmptySeq DEF AlertTypeOK
      <3> QED BY <1>3, <3>1
    <2> QED BY <1>1, <1>2, <2>1 DEF OrderInv
  <1>7. RunInv'
    BY <1>1, <1>2 DEF RunInv, Nth, Slack
  <1>8. LastingDecided'
    BY <1>1, <1>2 DEF LastingDecided
  <1> QED BY <1>4, <1>5, <1>6, <1>7, <1>8 DEF AlertInv

(* What a look that judges finds: its own point is young enough, and comes   *)
(* after the others.                                                         *)
LEMMA SampleFits ==
  ASSUME AlertInv, Judges, OnTime(case)
  PROVE  /\ Sampled \in Points /\ Sampled.values = Point /\ Point \in [Conditions -> BOOLEAN]
         /\ Sampled.age \in Nat /\ Sampled.age <= 6 /\ (~IsMetricRule => Sampled.age = 0)
         /\ samples # <<>> => Sampled.age <= samples[Len(samples)].age
         /\ InTime /\ same.looks > 0 /\ case.late = 0 => Sampled.age <= ThisTick
         /\ InTime /\ case.late # 0 => Sampled.age <= 3 - case.late
         /\ InTime => 10 * Sampled.age <= AlertWindow
  <1>1. AlertTypeOK /\ LooksInv /\ OrderInv
    BY DEF AlertInv
  <1>2. /\ case.late \in 0 .. 2 /\ runtime.age \in 0 .. Silent /\ IsMetricRule \in BOOLEAN
        /\ Len(samples) \in Nat /\ DOMAIN samples = 1 .. Len(samples)
        /\ \A k \in DOMAIN samples : samples[k].age \in Nat
    BY <1>1, CaseTypes
  <1>3. runtime.age \in Nat
    BY <1>2, AlertNumbers
  <1>4. Distinct /\ (IsMetricRule => runtime.age <= 6 /\ runtime.fresh)
    BY AlertNumbers DEF Judges, Distinct, Online
  <1>5. Point \in [Conditions -> BOOLEAN]
    BY DEF Point
  <1>6. Sampled.values = Point /\ Sampled.age = (IF IsMetricRule THEN runtime.age ELSE 0) /\ Sampled \in Points
    BY <1>3, <1>5 DEF Sampled, Points
  <1>7. Sampled.age \in Nat /\ Sampled.age <= 6 /\ (~IsMetricRule => Sampled.age = 0)
    BY <1>3, <1>4, <1>6
  <1>8. ASSUME samples # <<>> PROVE Sampled.age <= samples[Len(samples)].age
    <2>1. Len(samples) \in DOMAIN samples
      BY <1>1, <1>2, <1>8, EmptySeq DEF AlertTypeOK
    <2>2. samples[Len(samples)].age \in Nat
      BY <1>2, <2>1
    <2> QED BY <1>1, <1>6, <1>8, <2>2 DEF OrderInv
  <1>9. ThisTick \in Nat
    BY <1>1 DEF AlertTypeOK, ThisTick
  <1>10. ASSUME InTime, same.looks > 0 PROVE Sampled.age <= ThisTick
    BY <1>1, <1>4, <1>6, <1>9, <1>10 DEF LooksInv
  <1>11. ASSUME InTime PROVE 10 * Sampled.age <= AlertWindow
    BY <1>6, <1>11, AlertNumbers DEF InTime
  <1>12. ASSUME InTime, case.late # 0 PROVE Sampled.age <= 3 - case.late
    <2>1. CASE ~IsMetricRule
      BY <1>2, <1>7, <2>1
    <2>2. CASE IsMetricRule
      <3>1. \E i \in DOMAIN case.rule : case.rule[i] # "offline"
        BY <2>2 DEF IsMetricRule, Conditions
      <3>2. 10 * case.late + 3 * Duration < 40
        BY <1>12, <3>1 DEF OnTime
      <3>3. 10 * Sampled.age <= 3 * Duration
        BY <1>11, <1>12, AlertNumbers
      <3> QED BY <1>2, <1>7, <3>2, <3>3, AlertNumbers
    <2> QED BY <2>1, <2>2
  <1> QED BY <1>5, <1>6, <1>7, <1>8, <1>10, <1>11, <1>12

(* The row it judges: the new point behind those that are kept.              *)
Nth2(points, k) == points[Len(points) - k]

LEMMA KeptIs ==
  ASSUME AlertInv, Judges, OnTime(case)
  PROVE  /\ Kept \in Seq(Points) /\ InOrder(Kept) /\ Nth2(Kept, 0) = Sampled
         /\ \A k \in 1 .. Len(Kept) - 1 : Nth2(Kept, k) = Nth(k - 1)
         /\ \A k \in 1 .. Len(samples) : Nth(k - 1).age <= TimedRetention => k < Len(Kept)
  <1> DEFINE P == Append(samples, Sampled)
             L == Len(samples)
  <1>1. AlertTypeOK /\ OrderInv
    BY DEF AlertInv
  <1>2. /\ Sampled \in Points /\ Sampled.age \in Nat /\ Sampled.age <= 6
        /\ samples # <<>> => Sampled.age <= samples[Len(samples)].age
    BY SampleFits
  <1>3. samples \in Seq(Points) /\ L \in Nat /\ DOMAIN samples = 1 .. L
    BY <1>1, CaseTypes DEF AlertTypeOK
  <1>4. /\ P \in Seq(Points) /\ P # <<>> /\ Len(P) = L + 1 /\ P[L + 1] = Sampled
        /\ \A k \in 1 .. L : P[k] = samples[k]
    BY <1>2, <1>3, AppendProperties
  <1>5. P[Len(P)].age <= TimedRetention
    BY <1>2, <1>4, AlertNumbers
  <1>6. Kept = Recent(P, TimedRetention)
    BY DEF Kept
  <1> HIDE DEF P
  <1>7. /\ Kept \in Seq(Points) /\ Len(Kept) \in 1 .. L + 1
        /\ \A k \in 0 .. Len(Kept) - 1 : Kept[Len(Kept) - k] = P[L + 1 - k]
        /\ \A k \in 1 .. L + 1 : P[k].age <= TimedRetention => L + 1 - k < Len(Kept)
    <2> DEFINE R == Recent(P, TimedRetention)
    <2>1. /\ R \in Seq(Points) /\ Len(R) \in 1 .. Len(P)
          /\ \A k \in 0 .. Len(R) - 1 : R[Len(R) - k] = P[Len(P) - k]
          /\ \A k \in 1 .. Len(P) : P[k].age <= TimedRetention => Len(P) - k < Len(R)
      BY <1>4, <1>5, RecentKeeps
    <2> HIDE DEF R
    <2> QED BY <1>4, <1>6, <2>1 DEF R
  <1>8. Nth2(Kept, 0) = Sampled
    BY <1>3, <1>4, <1>7 DEF Nth2
  <1>9. ASSUME NEW k \in 1 .. Len(Kept) - 1 PROVE Nth2(Kept, k) = Nth(k - 1)
    <2>1. L + 1 - k \in 1 .. L /\ k \in 0 .. Len(Kept) - 1 /\ L - (k - 1) = L + 1 - k
      BY <1>3, <1>7
    <2> QED BY <1>4, <1>7, <2>1 DEF Nth2, Nth
  <1>10. ASSUME NEW k \in 1 .. L, Nth(k - 1).age <= TimedRetention PROVE k < Len(Kept)
    <2>1. L + 1 - k \in 1 .. L /\ L + 1 - k \in 1 .. L + 1 /\ L + 1 - (L + 1 - k) = k /\ L - (k - 1) = L + 1 - k
      BY <1>3
    <2>2. P[L + 1 - k].age <= TimedRetention
      BY <1>4, <1>10, <2>1 DEF Nth
    <2> QED BY <1>7, <2>1, <2>2
  <1>11. DOMAIN Kept = 1 .. Len(Kept) /\ Len(Kept) \in Nat /\ \A k \in 1 .. Len(Kept) : Kept[k] \in Points
    BY <1>7, LenProperties, ElementOfSeq
  <1>12. \A k \in DOMAIN Kept : Kept[k].age \in Nat
    BY <1>11 DEF Points
  <1>13. ASSUME NEW j \in 1 .. L + 1, NEW k \in 1 .. L + 1, j < k PROVE P[k].age <= P[j].age
    <2>1. j \in 1 .. L /\ samples # <<>> /\ L \in 1 .. L
      BY <1>3, <1>13, EmptySeq
    <2>2. \A i \in 1 .. L : samples[i].age \in Nat
      BY <1>1, CaseTypes
    <2>3. samples[L].age <= samples[j].age
      <3>1. CASE j = L
        BY <2>1, <2>2, <3>1
      <3>2. CASE j # L
        <4>1. j < L
          <5>1. j \in 1 .. L /\ L \in Nat
            BY <1>3, <2>1
          <5> HIDE DEF L
          <5> QED BY <3>2, <5>1
        <4>2. \A m, n \in DOMAIN samples : m < n => samples[n].age <= samples[m].age
          BY <1>1 DEF OrderInv
        <4> HIDE DEF L
        <4> QED BY <1>3, <2>1, <4>1, <4>2
      <3> QED BY <3>1, <3>2
    <2>4. CASE k = L + 1
      BY <1>2, <1>4, <2>1, <2>2, <2>3, <2>4
    <2>5. CASE k # L + 1
      <3>1. k \in 1 .. L
        BY <1>3, <2>5
      <3> QED BY <1>1, <1>3, <1>4, <1>13, <2>1, <3>1 DEF OrderInv
    <2> QED BY <2>4, <2>5
  <1>14. ASSUME NEW j \in 1 .. Len(Kept), NEW k \in 1 .. Len(Kept), j < k PROVE Kept[k].age <= Kept[j].age
    <2> DEFINE n == L + 1 - Len(Kept)
    <2>1. /\ n \in Nat /\ j + n \in 1 .. L + 1 /\ k + n \in 1 .. L + 1 /\ j + n < k + n
          /\ Len(Kept) - j \in 0 .. Len(Kept) - 1 /\ Len(Kept) - k \in 0 .. Len(Kept) - 1
          /\ Len(Kept) - (Len(Kept) - j) = j /\ Len(Kept) - (Len(Kept) - k) = k
          /\ L + 1 - (Len(Kept) - j) = j + n /\ L + 1 - (Len(Kept) - k) = k + n
      BY <1>3, <1>7, <1>11, <1>14
    <2> HIDE DEF n, L
    <2>2. Kept[j] = P[j + n] /\ Kept[k] = P[k + n]
      BY <1>7, <2>1
    <2> QED BY <1>13, <2>1, <2>2
  <1>15. InOrder(Kept)
    <2>1. Kept # <<>>
      BY <1>7, <1>11, EmptySeq
    <2> QED BY <1>11, <1>12, <1>14, <2>1 DEF InOrder
  <1> QED BY <1>7, <1>8, <1>9, <1>10, <1>15

LEMMA LessOfTwo ==
  ASSUME NEW a \in Int, NEW b \in Int
  PROVE  Min({a, b}) = IF a <= b THEN a ELSE b
  <1>1. \E m \in {a, b} : \A y \in {a, b} : m <= y
    OBVIOUS
  <1> QED BY <1>1 DEF Min

(* The looks of a run after a look that judges. *)
LEMMA RunGrows ==
  ASSUME AlertInv, Judges, OnTime(case)
  PROVE  AlertTypeOK' /\ RunInv' /\ (same'.looks > 0 => InTime /\ same'.values = Point)
  <1> DEFINE r == same.looks
  <1>1. AlertTypeOK /\ LooksInv /\ RunInv
    BY DEF AlertInv
  <1>2. /\ case.late \in 0 .. 2 /\ phase \in 0 .. 2 /\ r \in 0 .. Duration + 1 /\ Len(samples) \in Nat
        /\ DOMAIN samples = 1 .. Len(samples) /\ \A k \in DOMAIN samples : samples[k].age \in Nat
    BY <1>1, CaseTypes DEF AlertTypeOK
  <1>3. /\ due /\ due' = FALSE /\ UNCHANGED <<case, phase>> /\ samples' = Kept
        /\ runtime' = [runtime EXCEPT !.fresh = @ /\ ~IsMetricRule]
        /\ same' = IF ~InTime THEN NoRun
                   ELSE [values |-> Point,
                         looks |-> IF same.values = Point THEN Min({r, Duration}) + 1 ELSE 1]
    BY DEF Judges, Tick
  <1>4. phase <= case.late /\ ThisTick = 3 + phase /\ ThisTick' = phase
    BY <1>1, <1>3 DEF LooksInv, ThisTick
  <1>5. Min({r, Duration}) = IF r <= Duration THEN r ELSE Duration
    BY <1>2, AlertNumbers, LessOfTwo
  <1>6. \/ same'.looks = 0
        \/ same'.looks = 1 /\ InTime /\ same'.values = Point
        \/ /\ same'.looks = (IF r <= Duration THEN r ELSE Duration) + 1
           /\ InTime /\ same'.values = Point /\ same.values = Point
    BY <1>3, <1>5 DEF NoRun
  <1>7. same'.looks \in 0 .. Duration + 1
    <2>1. r \in 0 .. Duration + 1 /\ Duration \in Nat /\ Duration >= 3
      BY <1>2, AlertNumbers
    <2> HIDE DEF r
    <2>2. (IF r <= Duration THEN r ELSE Duration) + 1 \in 0 .. Duration + 1
      BY <2>1
    <2> QED BY <1>6, <2>1, <2>2
  <1>8. Conditions' = Conditions /\ Points' = Points
    BY <1>3 DEF Conditions, Points
  <1>9. /\ Kept \in Seq(Points) /\ InOrder(Kept) /\ Nth2(Kept, 0) = Sampled
        /\ \A k \in 1 .. Len(Kept) - 1 : Nth2(Kept, k) = Nth(k - 1)
        /\ \A k \in 1 .. Len(samples) : Nth(k - 1).age <= TimedRetention => k < Len(Kept)
    BY KeptIs
  <1>10. /\ Sampled.values = Point /\ Point \in [Conditions -> BOOLEAN]
         /\ Sampled.age \in Nat /\ Sampled.age <= 6
         /\ InTime /\ r > 0 /\ case.late = 0 => Sampled.age <= ThisTick
         /\ InTime /\ case.late # 0 => Sampled.age <= 3 - case.late
    BY SampleFits
  <1>11. Len(Kept) \in Nat /\ Len(Kept) > 0
    BY <1>9, LenProperties, EmptySeq DEF InOrder
  <1>12. AlertTypeOK'
    <2>1. runtime' \in [age : 0 .. Silent, measures : {<<>>} \cup UNION {c.reports : c \in Cases},
                        attached : BOOLEAN, fresh : BOOLEAN]
      BY <1>1, <1>3 DEF AlertTypeOK
    <2>2. same'.looks > 0 => same'.values \in [Conditions -> BOOLEAN]
      BY <1>6, <1>10
    <2>3. case' \in Cases /\ phase' \in 0 .. 2 /\ due' \in BOOLEAN
      BY <1>1, <1>3 DEF AlertTypeOK
    <2> QED BY <1>3, <1>7, <1>8, <1>9, <2>1, <2>2, <2>3 DEF AlertTypeOK
  <1>13. \A k : Nth(k)' = Nth2(Kept, k)
    BY <1>3 DEF Nth, Nth2
  <1>14. /\ Sampled.values = Point /\ 3 * 0 + phase - case.late <= Sampled.age
         /\ same'.looks > 0 => Sampled.age <= 3 * 0 + phase + Slack(0)'
    <2>1. CASE same'.looks = 0
      BY <1>2, <1>4, <1>10, <2>1
    <2>2. CASE same'.looks = 1
      BY <1>2, <1>3, <1>4, <1>6, <1>10, <2>2 DEF Slack
    <2>3. CASE same'.looks # 0 /\ same'.looks # 1
      <3>1. r > 0 /\ InTime /\ Slack(0)' = 3 - case.late
        <4>1. ~(0 = same'.looks - 1)
          BY <1>7, <2>3
        <4>2. Slack(0)' = 3 - case.late
          BY <1>3, <4>1 DEF Slack
        <4>3. r > 0 /\ InTime
          BY <1>2, <1>6, <2>3, AlertNumbers
        <4> QED BY <4>2, <4>3
      <3> QED BY <1>2, <1>4, <1>10, <3>1
    <2> QED BY <2>1, <2>2, <2>3
  <1>15. ASSUME NEW k \in 1 .. same'.looks - 1
         PROVE  /\ k < Len(Kept) /\ Nth2(Kept, k).values = Point
                /\ 3 * k + phase - case.late <= Nth2(Kept, k).age
                /\ Nth2(Kept, k).age <= 3 * k + phase + Slack(k)'
    <2>1. /\ same'.looks = (IF r <= Duration THEN r ELSE Duration) + 1 /\ InTime /\ same.values = Point
          /\ k \in Nat /\ k >= 1 /\ k <= r /\ k <= Duration
      <3>1. k \in Nat /\ k >= 1 /\ same'.looks # 0 /\ same'.looks # 1
        BY <1>7
      <3>2. /\ same'.looks = (IF r <= Duration THEN r ELSE Duration) + 1
            /\ InTime /\ same.values = Point
        BY <1>6, <3>1
      <3>3. r \in Nat /\ Duration \in Nat /\ k <= (IF r <= Duration THEN r ELSE Duration)
        BY <1>2, <3>1, <3>2, AlertNumbers
      <3> HIDE DEF r
      <3>4. k <= r /\ k <= Duration
        BY ONLY <3>1, <3>3
      <3> QED BY <3>1, <3>2, <3>4 DEF r
    <2>2. /\ Nth(k - 1).values = same.values /\ r <= Len(samples)
          /\ 3 * (k - 1) + ThisTick - case.late <= Nth(k - 1).age
          /\ Nth(k - 1).age <= 3 * (k - 1) + ThisTick + Slack(k - 1)
      <3>1. k - 1 \in 0 .. same.looks - 1
        BY <1>2, <2>1
      <3> QED BY <1>1, <3>1 DEF RunInv
    <2>3. Nth(k - 1).age \in Nat
      <3>1. Len(samples) - (k - 1) \in DOMAIN samples
        BY <1>2, <2>1, <2>2
      <3> QED BY <1>2, <3>1 DEF Nth
    <2> DEFINE a == Nth(k - 1).age
               s == Slack(k - 1)
    <2>4. s <= Slack(k)' /\ s \in Nat /\ Slack(k)' \in Nat /\ phase + s <= 6
      <3>1. Slack(k)' = IF case.late = 0 /\ k = same'.looks - 1 THEN 6 ELSE 3 - case.late
        BY <1>3 DEF Slack
      <3>2. s = IF case.late = 0 /\ k - 1 = r - 1 THEN 6 ELSE 3 - case.late
        BY DEF Slack
      <3>3. k = r => k = same'.looks - 1
        BY <1>2, <2>1, AlertNumbers
      <3> HIDE DEF s, r
      <3>4. k - 1 = r - 1 => k = r
        BY <1>2, <2>1
      <3> QED BY <1>2, <1>4, <3>1, <3>2, <3>3, <3>4
    <2>5. a \in Nat /\ 3 * (k - 1) + (3 + phase) - case.late <= a /\ a <= 3 * (k - 1) + (3 + phase) + s
      BY <1>4, <2>2, <2>3
    <2> HIDE DEF a, s
    <2>6. 3 * k + phase - case.late <= a /\ a <= 3 * k + phase + s /\ a <= 3 * k + phase + Slack(k)'
      <3> DEFINE l == case.late
                 p == phase
                 S == Slack(k)'
      <3>1. /\ a \in Nat /\ s \in Nat /\ S \in Nat /\ l \in Nat /\ p \in Nat /\ k \in Nat /\ s <= S
            /\ 3 * (k - 1) + (3 + p) - l <= a /\ a <= 3 * (k - 1) + (3 + p) + s
        BY <1>2, <2>1, <2>4, <2>5
      <3> HIDE DEF l, p, S
      <3>2. 3 * k + p - l <= a /\ a <= 3 * k + p + s /\ a <= 3 * k + p + S
        BY <3>1
      <3> QED BY <3>2 DEF l, p, S
    <2>7. a <= TimedRetention
      BY <1>2, <2>1, <2>4, <2>5, <2>6, AlertNumbers
    <2>8. k < Len(Kept)
      <3>1. k \in 1 .. Len(samples)
        BY <1>2, <2>1, <2>2
      <3> QED BY <1>9, <2>7, <3>1 DEF a
    <2>9. Nth2(Kept, k) = Nth(k - 1)
      BY <1>9, <1>11, <2>1, <2>8
    <2> QED BY <2>1, <2>2, <2>6, <2>8, <2>9 DEF a
  <1>16. same'.looks <= Len(Kept)
    <2>1. CASE same'.looks \in {0, 1}
      BY <1>11, <2>1
    <2>2. CASE same'.looks \notin {0, 1}
      <3>1. same'.looks - 1 \in 1 .. same'.looks - 1
        BY <1>7, <2>2
      <3>2. same'.looks - 1 < Len(Kept)
        BY <1>15, <3>1
      <3> QED BY <1>7, <1>11, <3>2
    <2> QED BY <2>1, <2>2
  <1>17. ASSUME NEW k \in 0 .. same'.looks - 1
         PROVE  /\ Nth(k)'.values = same'.values
                /\ 3 * k + ThisTick' - case'.late <= Nth(k)'.age /\ Nth(k)'.age <= 3 * k + ThisTick' + Slack(k)'
    <2>1. same'.values = Point /\ same'.looks > 0
      BY <1>6, <1>7
    <2>2. CASE k = 0
      BY <1>3, <1>4, <1>9, <1>13, <1>14, <2>1, <2>2
    <2>3. CASE k # 0
      <3>1. k \in 1 .. same'.looks - 1
        BY <1>7, <2>3
      <3> QED BY <1>3, <1>4, <1>13, <1>15, <2>1, <3>1
    <2> QED BY <2>2, <2>3
  <1>18. RunInv'
    BY <1>3, <1>16, <1>17 DEF RunInv
  <1> QED BY <1>6, <1>12, <1>18

(* After one look more than the window has, the window decides as the run    *)
(* has it.                                                                   *)
LEMMA RunDecides ==
  ASSUME AlertInv, Judges, OnTime(case), same'.looks > Duration
  PROVE  (verdict' = "fail") = (\A i \in Conditions : ~Point[i])
  <1> DEFINE L == Len(Kept)
             m == IF case.late = 0 THEN Duration - 1 ELSE Duration
             last == Kept[L].age
  <1>1. /\ AlertTypeOK' /\ RunInv' /\ same'.looks = Duration + 1 /\ InTime /\ same'.values = Point
        /\ case' = case /\ samples' = Kept /\ ThisTick' = phase
    <2>0. AlertTypeOK' /\ RunInv' /\ (same'.looks > 0 => InTime /\ same'.values = Point)
      BY RunGrows
    <2>2. same'.looks \in 0 .. Duration + 1
      BY <2>0 DEF AlertTypeOK
    <2>3. same'.looks = Duration + 1 /\ same'.looks > 0
      BY <2>2, AlertNumbers
    <2>1. AlertTypeOK' /\ RunInv' /\ InTime /\ same'.values = Point
      BY <2>0, <2>3
    <2> QED BY <2>1, <2>3 DEF Judges, Tick, ThisTick
  <1>2. /\ case.late \in 0 .. 2 /\ phase \in 0 .. 2 /\ phase <= case.late
        /\ \A i \in Conditions : case.rule[i] \in {"metric", "offline", "cycle"}
    BY CaseTypes DEF AlertInv, AlertTypeOK, LooksInv, Judges, Tick
  <1>3. InOrder(Kept) /\ Kept[L] = Sampled
    <2>1. Len(Kept) - 0 = Len(Kept)
      BY KeptIs DEF InOrder
    <2> QED BY <2>1, KeptIs DEF Nth2
  <1>4. /\ last \in Nat /\ last <= 6 /\ 10 * last <= AlertWindow /\ (~IsMetricRule => last = 0)
        /\ Point \in [Conditions -> BOOLEAN] /\ Sampled.values = Point
    BY <1>1, <1>3, SampleFits
  <1>5. /\ L \in Nat /\ Duration + 1 <= L
        /\ \A k \in 0 .. Duration :
             /\ Nth2(Kept, k).values = Point
             /\ 3 * k + phase - case.late <= Nth2(Kept, k).age
             /\ Nth2(Kept, k).age <= 3 * k + phase + (IF case.late = 0 /\ k = Duration THEN 6 ELSE 3 - case.late)
    <2>1. \A k : Nth(k)' = Nth2(Kept, k)
      BY <1>1 DEF Nth, Nth2
    <2>2. L \in Nat /\ Duration + 1 <= L
      BY <1>1, <1>3 DEF RunInv, InOrder
    <2>3. ASSUME NEW k \in 0 .. Duration
          PROVE  /\ Nth2(Kept, k).values = Point
                 /\ 3 * k + phase - case.late <= Nth2(Kept, k).age
                 /\ Nth2(Kept, k).age
                      <= 3 * k + phase + (IF case.late = 0 /\ k = Duration THEN 6 ELSE 3 - case.late)
      <3>1. k \in 0 .. same'.looks - 1
        BY <1>1, AlertNumbers
      <3>2. Slack(k)' = IF case.late = 0 /\ k = Duration THEN 6 ELSE 3 - case.late
        <4>1. same'.looks - 1 = Duration
          BY <1>1, AlertNumbers
        <4> QED BY <1>1, <4>1 DEF Slack
      <3>3. /\ Nth(k)'.values = same'.values /\ 3 * k + ThisTick' - case'.late <= Nth(k)'.age
            /\ Nth(k)'.age <= 3 * k + ThisTick' + Slack(k)'
        BY <1>1, <3>1 DEF RunInv
      <3> QED BY <1>1, <2>1, <3>2, <3>3
    <2> QED BY <2>2, <2>3
  <1>6. m \in Nat /\ m < L /\ m <= Duration /\ (case.late = 0 => m < Duration)
    BY <1>5, AlertNumbers
  <1>7. \A k \in DOMAIN Kept : Kept[k].age \in Nat
    BY <1>3 DEF InOrder
  <1>8. \A k \in 0 .. Duration : L - k \in DOMAIN Kept /\ Nth2(Kept, k) = Kept[L - k]
    BY <1>3, <1>5, AlertNumbers DEF InOrder, Nth2
  <1> HIDE DEF m
  <1>9. ASSUME NEW k \in 0 .. m - 1 PROVE Kept[L - k - 1].age - Kept[L - k].age <= 6
    <2> DEFINE a == Nth2(Kept, k + 1).age
               b == Nth2(Kept, k).age
    <2>1. k \in 0 .. Duration /\ k + 1 \in 0 .. Duration /\ (case.late = 0 => k + 1 # Duration) /\ k \in Nat
      BY <1>6, AlertNumbers
    <2>2. a <= 3 * (k + 1) + phase + (3 - case.late)
      BY <1>5, <2>1
    <2>3. 3 * k + phase - case.late <= b
      BY <1>5, <2>1
    <2>4. a \in Nat /\ b \in Nat /\ a = Kept[L - (k + 1)].age /\ b = Kept[L - k].age
      BY <1>7, <1>8, <2>1
    <2>5. L - (k + 1) = L - k - 1
      BY <1>5, <2>1
    <2> DEFINE c == case.late
    <2>6. a \in Int /\ b \in Int /\ c \in Int /\ phase \in Int /\ k \in Int
      BY <1>2, <2>1, <2>4
    <2>7. a <= 3 * (k + 1) + phase + (3 - c) /\ 3 * k + phase - c <= b
      BY <2>2, <2>3
    <2> HIDE DEF a, b, c
    <2>8. a - b <= 6
      BY ONLY <2>6, <2>7
    <2> QED BY <2>4, <2>5, <2>8
  <1>10. AlertWindow - 3 <= Kept[L - m].age
    <2>1. 3 * m + phase - case.late <= Kept[L - m].age /\ Kept[L - m].age \in Nat
      <3>1. m \in 0 .. Duration
        BY <1>6, AlertNumbers
      <3> QED BY <1>5, <1>7, <1>8, <3>1
    <2>2. (case.late = 0 /\ m = Duration - 1) \/ m = Duration
      BY DEF m
    <2> HIDE DEF L
    <2> QED BY <1>2, <2>1, <2>2, AlertNumbers
  <1>11. /\ Last(Kept, m) \in SUBSET DOMAIN Kept /\ -Kept[1].age <= WindowStart
         /\ \A S \in SUBSET DOMAIN Kept :
              /\ Last(Kept, m) \subseteq S => Seconds(Spans(Kept), S) = AlertWindow - last
              /\ Last(Kept, m) \cap S = {} => Seconds(Spans(Kept), S) = 0
    BY <1>3, <1>4, <1>6, <1>9, <1>10, WindowCovered
  <1>12. \A j \in Last(Kept, m) : Kept[j].values = Point
    <2> SUFFICES ASSUME NEW j \in Last(Kept, m) PROVE Kept[j].values = Point
      OBVIOUS
    <2>1. L - j \in 0 .. Duration /\ L - (L - j) = j
      BY <1>5, <1>6, AlertNumbers DEF Last
    <2> QED BY <1>5, <1>8, <2>1
  <1>13. Covered(Kept) = AlertWindow - last
    BY <1>11 DEF Covered
  <1>14. ASSUME NEW i \in Conditions PROVE Failed(Kept, i) = IF Point[i] THEN 0 ELSE AlertWindow - last
    <2> DEFINE S == {k \in DOMAIN Kept : ~Kept[k].values[i]}
    <2>1. S \in SUBSET DOMAIN Kept /\ Failed(Kept, i) = Seconds(Spans(Kept), S)
      BY DEF Failed
    <2>2. CASE Point[i]
      <3>1. Last(Kept, m) \cap S = {}
        BY <1>12, <2>2
      <3> QED BY <1>11, <2>1, <2>2, <3>1
    <2>3. CASE ~Point[i]
      <3>1. Last(Kept, m) \subseteq S
        BY <1>11, <1>12, <2>3
      <3> QED BY <1>11, <2>1, <2>3, <3>1
    <2> QED BY <2>2, <2>3
  <1>15. Decidable(Kept)
    BY <1>4, <1>11, <1>13, AlertNumbers DEF Decidable
  <1>16. ASSUME NEW i \in Conditions PROVE IF Point[i] THEN Passes(Kept, i) /\ ~Fails(Kept, i) ELSE Fails(Kept, i)
    <2>1. CASE case.rule[i] = "cycle"
      BY <1>3, <1>4, <2>1 DEF Passes, Fails
    <2>2. CASE case.rule[i] = "offline"
      <3>1. CASE Point[i]
        <4> DEFINE F == Failed(Kept, i)
                   C == Covered(Kept)
                   W == AlertWindow
        <4>1. /\ Fails(Kept, i) = (Decidable(Kept) /\ C - F < 3 /\ F >= W - 3)
              /\ Passes(Kept, i) = (Decidable(Kept) /\ C - F >= 3)
          BY <2>2, AlertNumbers DEF Fails, Passes
        <4>2. /\ W \in Nat /\ 9 <= W /\ last \in Nat /\ last <= 6 /\ F = 0 /\ C = W - last
          BY <1>4, <1>13, <1>14, <3>1, AlertNumbers
        <4> HIDE DEF F, C, W, last
        <4>3. C - F >= 3 /\ ~(C - F < 3)
          BY ONLY <4>2
        <4> QED BY <1>15, <3>1, <4>1, <4>3
      <3>2. CASE ~Point[i]
        <4>1. ~Online
          <5>1. Point[i] = (Measured(i) = "pass")
            BY DEF Point
          <5>2. Measured(i) = IF Online THEN "pass" ELSE "fail"
            BY <2>2 DEF Measured, FromCache
          <5> QED BY <3>2, <5>1, <5>2
        <4>2. last = 0
          BY <1>4, <4>1 DEF Judges, Distinct
        <4> QED BY <1>13, <1>14, <1>15, <2>2, <3>2, <4>2, AlertNumbers DEF Fails
      <3> QED BY <3>1, <3>2
    <2>3. CASE case.rule[i] = "metric"
      <3> DEFINE W == AlertWindow
                 F == Failed(Kept, i)
                 C == Covered(Kept)
      <3>3. case.rule[i] # "cycle" /\ case.rule[i] # "offline"
        BY <2>3
      <3>4. Fails(Kept, i) = (Decidable(Kept) /\ 10 * F > 7 * W)
        BY <3>3 DEF Fails
      <3>5. Passes(Kept, i) = (/\ Decidable(Kept) /\ 10 * F <= 7 * W
                               /\ 10 * (F + W - C) <= 7 * W)
        BY <3>3 DEF Passes
      <3>6. W \in Nat /\ W > 0 /\ last \in Nat /\ 10 * last <= W /\ C = W - last
            /\ F = IF Point[i] THEN 0 ELSE W - last
        BY <1>4, <1>13, <1>14, AlertNumbers
      <3> HIDE DEF W, F, C, last
      <3>1. CASE Point[i]
        <4>1. F = 0
          BY <3>1, <3>6
        <4>2. ~(10 * F > 7 * W) /\ 10 * F <= 7 * W /\ 10 * (F + W - C) <= 7 * W
          BY ONLY <3>6, <4>1
        <4> QED BY <1>15, <3>1, <3>4, <3>5, <4>2
      <3>2. CASE ~Point[i]
        <4>1. F = W - last
          BY <3>2, <3>6
        <4>2. 10 * F > 7 * W
          BY ONLY <3>6, <4>1
        <4> QED BY <1>15, <3>2, <3>4, <4>2
      <3> QED BY <3>1, <3>2
    <2> QED BY <1>2, <2>1, <2>2, <2>3
  <1>17. verdict' = IF \A i \in Conditions : Fails(Kept, i) THEN "fail" ELSE "pass"
    <2>1. ~(\E i \in Conditions : ~Fails(Kept, i) /\ ~Passes(Kept, i))
      BY <1>16
    <2>2. CheckTimed(Kept) = IF \A i \in Conditions : Fails(Kept, i) THEN "fail" ELSE "pass"
      BY <2>1 DEF CheckTimed
    <2> QED BY <2>2 DEF Judges
  <1>18. (\A i \in Conditions : Fails(Kept, i)) <=> (\A i \in Conditions : ~Point[i])
    BY <1>16
  <1> HIDE DEF L, m, last
  <1> QED BY <1>17, <1>18

LEMMA JudgesKeeps ==
  ASSUME AlertInv, Judges, OnTime(case)
  PROVE  AlertInv'
  <1>1. AlertTypeOK' /\ RunInv' /\ (same'.looks > 0 => InTime /\ same'.values = Point)
    BY RunGrows
  <1>2. /\ UNCHANGED case /\ samples' = Kept /\ due' = FALSE
        /\ runtime' = [runtime EXCEPT !.fresh = @ /\ ~IsMetricRule]
    BY DEF Judges, Tick
  <1>3. Conditions' = Conditions /\ IsMetricRule' = IsMetricRule
    BY <1>2 DEF Conditions, IsMetricRule
  <1>4. runtime'.age = runtime.age /\ runtime'.fresh = (runtime.fresh /\ ~IsMetricRule)
    BY <1>2 DEF AlertInv, AlertTypeOK
  <1>5. LooksInv'
    BY <1>2, <1>3, <1>4 DEF LooksInv
  <1>6. OrderInv'
    <2>1. InOrder(Kept) /\ Nth2(Kept, 0) = Sampled
      BY KeptIs
    <2>2. Kept[Len(Kept)] = Sampled
      BY <2>1 DEF Nth2, InOrder
    <2>3. IsMetricRule => Sampled.age = runtime.age
      BY DEF Sampled
    <2>4. runtime.age \in Nat
      BY CaseTypes, AlertNumbers DEF AlertInv
    <2> QED BY <1>2, <1>3, <1>4, <2>1, <2>2, <2>3, <2>4 DEF OrderInv, InOrder
  <1>7. LastingDecided'
    <2> SUFFICES ASSUME same'.looks > Duration
                 PROVE  (verdict' = "fail") = (\A i \in Conditions' : ~same'.values[i])
      BY DEF LastingDecided
    <2>1. same'.values = Point
      <3>1. same'.looks \in 0 .. Duration + 1
        BY <1>1 DEF AlertTypeOK
      <3> QED BY <1>1, <3>1, AlertNumbers
    <2> QED BY <1>3, <2>1, RunDecides
  <1> QED BY <1>1, <1>5, <1>6, <1>7 DEF AlertInv

LEMMA AlertStep ==
  ASSUME \A c \in Cases : OnTime(c), AlertInv, [AlertNext]_alertVars
  PROVE  AlertInv'
  <1> DEFINE Runtimes == [age : 0 .. Silent, measures : {<<>>} \cup UNION {c.reports : c \in Cases},
                          attached : BOOLEAN, fresh : BOOLEAN]
  <1>1. case \in Cases /\ runtime \in Runtimes /\ OnTime(case)
    BY DEF AlertInv, AlertTypeOK
  <1>2. CASE Second
    BY <1>2, SecondKeeps
  <1>3. CASE Report
    <2>1. PICK q \in case.reports : runtime' = [age |-> 0, measures |-> q, attached |-> TRUE, fresh |-> TRUE]
      BY <1>3 DEF Report
    <2>2. runtime' \in Runtimes /\ runtime'.age = 0
      BY <1>1, <2>1, AlertNumbers
    <2> QED BY <1>3, <2>2, RunStays DEF Report
  <1>4. CASE Disconnect
    <2>1. runtime' \in Runtimes /\ runtime'.age = runtime.age /\ runtime'.fresh = runtime.fresh
      BY <1>1, <1>4 DEF Disconnect
    <2> QED BY <1>4, <2>1, RunStays DEF Disconnect
  <1>5. CASE OnRefreshOrAddAlert
    <2>1. runtime' \in Runtimes /\ runtime'.age = runtime.age
      BY <1>1, <1>5 DEF OnRefreshOrAddAlert
    <2> QED BY <1>5, <2>1, RunEnds DEF OnRefreshOrAddAlert
  <1>6. CASE LooksAtNothing \/ LooksAgain \/ SeesUnknown
    <2>1. runtime' \in Runtimes /\ runtime'.age = runtime.age
      BY <1>1, <1>6 DEF LooksAtNothing, LooksAgain, SeesUnknown
    <2>2. /\ UNCHANGED <<case, phase, samples>> \/ (UNCHANGED <<case, phase>> /\ samples' = <<>>)
          /\ same' = NoRun /\ due' = FALSE
      BY <1>6 DEF LooksAtNothing, LooksAgain, SeesUnknown, Tick
    <2> QED BY <2>1, <2>2, RunEnds
  <1>7. CASE Judges
    BY <1>1, <1>7, JudgesKeeps
  <1>8. CASE UNCHANGED alertVars
    BY <1>1, <1>8, RunStays DEF alertVars
  <1> QED BY <1>2, <1>3, <1>4, <1>5, <1>6, <1>7, <1>8 DEF AlertNext, CheckStatus

LEMMA AlertStarts == AlertInit => AlertInv
  <1> SUFFICES ASSUME AlertInit PROVE AlertInv
    OBVIOUS
  <1>1. AlertTypeOK
    <2>1. runtime \in [age : 0 .. Silent, measures : {<<>>} \cup UNION {c.reports : c \in Cases},
                       attached : BOOLEAN, fresh : BOOLEAN]
      BY AlertNumbers DEF AlertInit
    <2>2. samples \in Seq(Points) /\ same.looks = 0
      BY EmptySeq DEF AlertInit, NoRun
    <2> QED BY <2>1, <2>2, AlertNumbers DEF AlertInit, AlertTypeOK
  <1>2. LooksInv /\ LastingDecided
    <2>1. case.late \in 0 .. 2
      BY <1>1, CaseTypes
    <2>2. same.looks = 0
      BY DEF AlertInit, NoRun
    <2>3. LooksInv
      BY <2>1, AlertNumbers DEF AlertInit, LooksInv
    <2>4. LastingDecided
      BY <2>2, AlertNumbers DEF LastingDecided
    <2> QED BY <2>3, <2>4
  <1>3. OrderInv /\ RunInv
    BY DEF AlertInit, OrderInv, RunInv, NoRun
  <1> QED BY <1>1, <1>2, <1>3 DEF AlertInv

(* Who is judged the same by every look of a window is known to be so by the *)
(* next look (checkTimed in model/alertrule.go): an incident is raised or    *)
(* resolved and the decision is never put off, when the looks come on time   *)
(* or the window is short enough for their delay.                            *)
THEOREM LastingIsDecided ==
  ASSUME \A c \in Cases : OnTime(c)
  PROVE  AlertSpec => []LastingDecided
  <1>1. AlertInv /\ [AlertNext]_alertVars => AlertInv'
    BY AlertStep
  <1>2. AlertInv => LastingDecided
    BY DEF AlertInv
  <1> QED BY <1>1, <1>2, AlertStarts, PTL DEF AlertSpec
=============================================================================
