---------------------------- MODULE FinancesProofs ----------------------------
(***************************************************************************)
(* Proofs about Finances: the reports agree with each other and with the   *)
(* search, plans reach their goal, and years that are over keep their net  *)
(* worth, whatever is entered and in whatever order.                       *)
(*                                                                         *)
(* The reports are sums over the rows of the ledger, and what is proved    *)
(* of sums rests on one fact of finite sets, SubsetInduction.  The         *)
(* calendar is arithmetic: a month is a number, and the days of different  *)
(* months do not mix.                                                      *)
(***************************************************************************)
EXTENDS Finances, FiniteSetTheorems, WellFoundedInduction, TLAPS

-----------------------------------------------------------------------------
(* Induction, for sets of numbers and sets of sets.                        *)

LEMMA NatMin ==
  ASSUME NEW T \in SUBSET Nat, T # {}
  PROVE  \E n \in T : \A m \in T : n <= m
<1> DEFINE R == OpToRel(<, Nat)
<1>1. ASSUME NEW n \in Nat, NEW m \in Nat, n < m
      PROVE  <<n, m>> \in R
  BY <1>1 DEF OpToRel
<1>2. IsWellFoundedOn(R, Nat)
  BY NatLessThanWellFounded
<1> HIDE DEF R
<1>3. PICK n \in T : \A m \in T : ~(<<m, n>> \in R)
  BY <1>2, WFMin
<1>4. ASSUME NEW m \in T
      PROVE  n <= m
  <2>1. n \in Nat /\ m \in Nat
    OBVIOUS
  <2>2. ~(m < n)
    BY <1>1, <1>3, <2>1
  <2> QED
    BY <2>1, <2>2
<1> QED
  BY <1>4

\* Sets of which every set is one when it is without any of its elements.
LEMMA SubsetInduction ==
  ASSUME NEW S, IsFiniteSet(S), NEW G,
         \A s \in SUBSET S : (\A x \in s : s \ {x} \in G) => s \in G
  PROVE  SUBSET S \subseteq G
<1> DEFINE T == {Cardinality(s) : s \in (SUBSET S) \ G}
<1> SUFFICES ASSUME T # {}
             PROVE  FALSE
  OBVIOUS
<1>1. \A s \in SUBSET S : IsFiniteSet(s) /\ Cardinality(s) \in Nat
  BY FS_Subset, FS_CardinalityType
<1>2. T \in SUBSET Nat
  BY <1>1
<1>3. PICK n \in T : \A m \in T : n <= m
  BY <1>2, NatMin
<1>4. PICK s \in (SUBSET S) \ G : n = Cardinality(s)
  OBVIOUS
<1>5. ASSUME NEW x \in s
      PROVE  s \ {x} \in G
  <2>1. Cardinality(s \ {x}) = Cardinality(s) - 1
    BY <1>1, FS_RemoveElement
  <2>2. s \ {x} \in SUBSET S
    OBVIOUS
  <2>3. Cardinality(s \ {x}) < n
    BY <1>1, <1>4, <2>1
  <2>4. Cardinality(s \ {x}) \in Nat /\ n \in Nat
    BY <1>1, <1>4, <2>2
  <2>5. Cardinality(s \ {x}) \notin T
    <3> HIDE DEF T
    <3> QED
      BY <1>3, <2>3, <2>4
  <2> QED
    BY <2>2, <2>5
<1> QED
  BY <1>4, <1>5

-----------------------------------------------------------------------------
(* Sums.                                                                   *)

Pick(s) == CHOOSE x \in s : TRUE

IsSum(f, v, S) ==
  f = [s \in SUBSET S |-> IF s = {} THEN 0 ELSE v[Pick(s)] + f[s \ {Pick(s)}]]

LEMMA PickIn ==
  ASSUME NEW s, s # {}
  PROVE  Pick(s) \in s
BY DEF Pick

LEMMA SumUnfolds ==
  ASSUME NEW S, NEW v
  PROVE  SumFunctionOnSet(v, S) = (CHOOSE f : IsSum(f, v, S))[S]
BY DEF SumFunctionOnSet, FoldFunctionOnSet, MapThenFoldSet, IsSum, Pick

\* The recursion has a solution.
LEMMA SumExists ==
  ASSUME NEW S, IsFiniteSet(S), NEW v
  PROVE  \E f : IsSum(f, v, S)
<1> DEFINE Small(n) == {s \in SUBSET S : Cardinality(s) <= n}
           Solves(f, n) ==
             f = [s \in Small(n) |-> IF s = {} THEN 0 ELSE v[Pick(s)] + f[s \ {Pick(s)}]]
           T == {n \in Nat : ~ \E f : Solves(f, n)}
<1>1. \A s \in SUBSET S : /\ IsFiniteSet(s) /\ Cardinality(s) \in Nat
                          /\ Cardinality(s) <= Cardinality(S)
                          /\ Cardinality(s) = 0 <=> s = {}
  BY FS_Subset, FS_CardinalityType, FS_EmptySet
<1>2. ASSUME NEW n \in Nat, NEW s \in Small(n), s # {}
      PROVE  s \ {Pick(s)} \in Small(n) /\ (n # 0 => s \ {Pick(s)} \in Small(n - 1))
  <2>1. Pick(s) \in s
    BY <1>2, PickIn
  <2>2. Cardinality(s \ {Pick(s)}) = Cardinality(s) - 1
    BY <1>1, <2>1, FS_RemoveElement
  <2> QED
    BY <1>1, <2>2
<1>3. T = {}
  <2> SUFFICES ASSUME T # {}
               PROVE  FALSE
    OBVIOUS
  <2>1. PICK n \in T : \A m \in T : n <= m
    BY NatMin
  <2>2. CASE n = 0
    <3> DEFINE f == [s \in Small(0) |-> 0]
    <3>1. \A s \in Small(0) : s = {}
      BY <1>1
    <3>2. Solves(f, 0)
      BY <3>1
    <3> QED
      BY <2>2, <3>2
  <2>3. CASE n # 0
    <3>1. n - 1 \in Nat /\ n - 1 \notin T
      <4>1. n \in Nat
        OBVIOUS
      <4> HIDE DEF T
      <4> QED
        BY <2>1, <2>3, <4>1
    <3>2. PICK f : Solves(f, n - 1)
      BY <3>1
    <3> DEFINE g == [s \in Small(n) |-> IF s = {} THEN 0 ELSE v[Pick(s)] + f[s \ {Pick(s)}]]
    <3>3. ASSUME NEW s \in Small(n - 1)
          PROVE  f[s] = g[s]
      <4>1. s \in Small(n)
        BY <1>1, <3>1
      <4>2. g[s] = IF s = {} THEN 0 ELSE v[Pick(s)] + f[s \ {Pick(s)}]
        BY <4>1
      <4>3. f[s] = IF s = {} THEN 0 ELSE v[Pick(s)] + f[s \ {Pick(s)}]
        BY <3>2
      <4> QED
        BY <4>2, <4>3
    <3>4. \A s \in Small(n) : s # {} => f[s \ {Pick(s)}] = g[s \ {Pick(s)}]
      BY <1>2, <2>3, <3>3
    <3>5. Solves(g, n)
      <4> HIDE DEF Small
      <4> DEFINE h == [s \in Small(n) |-> IF s = {} THEN 0 ELSE v[Pick(s)] + g[s \ {Pick(s)}]]
      <4>1. \A s \in Small(n) : g[s] = h[s]
        BY <3>4
      <4>2. g = h
        <5> HIDE DEF g
        <5>1. g = [s \in Small(n) |-> g[s]]
          BY DEF g
        <5>2. h = [s \in Small(n) |-> h[s]]
          OBVIOUS
        <5> QED
          BY <4>1, <5>1, <5>2
      <4> QED
        BY <4>2
    <3> QED
      BY <3>5
  <2> QED
    BY <2>2, <2>3
<1>4. Cardinality(S) \in Nat
  BY FS_CardinalityType
<1>5. PICK f : Solves(f, Cardinality(S))
  BY <1>3, <1>4
<1>6. Small(Cardinality(S)) = SUBSET S
  BY <1>1
<1>7. IsSum(f, v, S)
  BY <1>5, <1>6 DEF IsSum
<1> QED
  BY <1>7

\* Two solutions agree on the sets that both are defined for.
LEMMA SumUnique ==
  ASSUME NEW S, IsFiniteSet(S), NEW U \in SUBSET S, NEW v,
         NEW f, IsSum(f, v, S), NEW g, IsSum(g, v, U)
  PROVE  \A s \in SUBSET U : f[s] = g[s]
<1> DEFINE G == {s \in SUBSET U : f[s] = g[s]}
<1>1. IsFiniteSet(U)
  BY FS_Subset
<1>2. ASSUME NEW s \in SUBSET U, \A x \in s : s \ {x} \in G
      PROVE  s \in G
  <2>1. /\ f[s] = IF s = {} THEN 0 ELSE v[Pick(s)] + f[s \ {Pick(s)}]
        /\ g[s] = IF s = {} THEN 0 ELSE v[Pick(s)] + g[s \ {Pick(s)}]
    BY DEF IsSum
  <2>2. s # {} => f[s \ {Pick(s)}] = g[s \ {Pick(s)}]
    BY <1>2, PickIn
  <2> QED
    BY <2>1, <2>2
<1>3. SUBSET U \subseteq G
  <2> HIDE DEF G
  <2> QED
    BY <1>1, <1>2, SubsetInduction
<1> QED
  BY <1>3

LEMMA SumStep ==
  ASSUME NEW S, IsFiniteSet(S), NEW v
  PROVE  SumFunctionOnSet(v, S) =
           IF S = {} THEN 0 ELSE v[Pick(S)] + SumFunctionOnSet(v, S \ {Pick(S)})
<1> DEFINE f == CHOOSE h : IsSum(h, v, S)
           U == S \ {Pick(S)}
           g == CHOOSE h : IsSum(h, v, U)
<1>1. IsSum(f, v, S)
  BY SumExists
<1>2. IsFiniteSet(U)
  BY FS_Subset
<1>3. IsSum(g, v, U)
  BY <1>2, SumExists
<1>4. SumFunctionOnSet(v, S) = f[S] /\ SumFunctionOnSet(v, U) = g[U]
  BY SumUnfolds
<1> HIDE DEF f, g
<1>5. f[S] = IF S = {} THEN 0 ELSE v[Pick(S)] + f[U]
  BY <1>1 DEF IsSum
<1>6. f[U] = g[U]
  <2>1. U \in SUBSET S /\ U \in SUBSET U
    OBVIOUS
  <2> HIDE DEF U
  <2> QED
    BY <1>1, <1>3, <2>1, SumUnique
<1> QED
  BY <1>4, <1>5, <1>6

LEMMA SumEmpty ==
  ASSUME NEW v
  PROVE  SumFunctionOnSet(v, {}) = 0
BY SumStep, FS_EmptySet

LEMMA SumType ==
  ASSUME NEW S, IsFiniteSet(S), NEW v, \A x \in S : v[x] \in Int
  PROVE  SumFunctionOnSet(v, S) \in Int
<1> DEFINE G == {s \in SUBSET S : SumFunctionOnSet(v, s) \in Int}
<1>1. ASSUME NEW s \in SUBSET S, \A x \in s : s \ {x} \in G
      PROVE  s \in G
  <2>1. IsFiniteSet(s)
    BY FS_Subset
  <2>2. CASE s = {}
    BY <2>2, SumEmpty
  <2>3. CASE s # {}
    <3>1. Pick(s) \in s
      BY <2>3, PickIn
    <3>2. SumFunctionOnSet(v, s \ {Pick(s)}) \in Int /\ v[Pick(s)] \in Int
      BY <1>1, <3>1
    <3>3. SumFunctionOnSet(v, s) = v[Pick(s)] + SumFunctionOnSet(v, s \ {Pick(s)})
      BY <2>1, <2>3, SumStep
    <3> QED
      BY <3>2, <3>3
  <2> QED
    BY <2>2, <2>3
<1>2. SUBSET S \subseteq G
  <2> HIDE DEF G
  <2> QED
    BY <1>1, SubsetInduction
<1> QED
  BY <1>2

\* The sum does not depend on which element is taken first.
LEMMA SumAny ==
  ASSUME NEW S, IsFiniteSet(S), NEW v, \A x \in S : v[x] \in Int
  PROVE  \A y \in S : SumFunctionOnSet(v, S) = v[y] + SumFunctionOnSet(v, S \ {y})
<1> DEFINE Sum(s) == SumFunctionOnSet(v, s)
           G == {s \in SUBSET S : \A y \in s : Sum(s) = v[y] + Sum(s \ {y})}
<1>1. \A s \in SUBSET S : IsFiniteSet(s) /\ Sum(s) \in Int
  BY FS_Subset, SumType
<1>2. \A s \in SUBSET S : s # {} => Pick(s) \in s /\ Sum(s) = v[Pick(s)] + Sum(s \ {Pick(s)})
  BY <1>1, SumStep, PickIn
<1> HIDE DEF Sum
<1>3. ASSUME NEW s \in SUBSET S, \A x \in s : s \ {x} \in G
      PROVE  s \in G
  <2> SUFFICES ASSUME NEW y \in s
               PROVE  Sum(s) = v[y] + Sum(s \ {y})
    OBVIOUS
  <2> DEFINE x == Pick(s)
  <2>1. x \in s /\ Sum(s) = v[x] + Sum(s \ {x})
    BY <1>2
  <2> HIDE DEF x
  <2>2. CASE x = y
    BY <2>1, <2>2
  <2>3. CASE x # y
    <3>1. Sum(s \ {x}) = v[y] + Sum((s \ {x}) \ {y})
      BY <1>3, <2>1, <2>3
    <3>2. Sum(s \ {y}) = v[x] + Sum((s \ {y}) \ {x})
      BY <1>3, <2>1, <2>3
    <3>3. (s \ {x}) \ {y} = (s \ {y}) \ {x}
      OBVIOUS
    <3>4. PICK r \in Int : r = Sum((s \ {x}) \ {y})
      BY <1>1
    <3>5. v[x] \in Int /\ v[y] \in Int
      BY <2>1
    <3>6. Sum(s \ {x}) = v[y] + r
      BY <3>1, <3>4
    <3>7. Sum(s \ {y}) = v[x] + r
      BY <3>2, <3>3, <3>4
    <3>8. v[x] + (v[y] + r) = v[y] + (v[x] + r)
      BY <3>5
    <3> QED
      BY <2>1, <3>6, <3>7, <3>8
  <2> QED
    BY <2>2, <2>3
<1>4. SUBSET S \subseteq G
  <2> HIDE DEF G
  <2> QED
    BY <1>3, SubsetInduction
<1> QED
  BY <1>4 DEF Sum

LEMMA SumAdd ==
  ASSUME NEW S, IsFiniteSet(S), NEW v, NEW y, y \notin S, \A x \in S \cup {y} : v[x] \in Int
  PROVE  SumFunctionOnSet(v, S \cup {y}) = v[y] + SumFunctionOnSet(v, S)
<1>1. IsFiniteSet(S \cup {y}) /\ (S \cup {y}) \ {y} = S
  BY FS_AddElement
<1> QED
  BY <1>1, SumAny

\* Sums of the same values are the same.
LEMMA SumSame ==
  ASSUME NEW S, IsFiniteSet(S), NEW v, NEW w, \A x \in S : v[x] = w[x]
  PROVE  SumFunctionOnSet(v, S) = SumFunctionOnSet(w, S)
<1> DEFINE G == {s \in SUBSET S : SumFunctionOnSet(v, s) = SumFunctionOnSet(w, s)}
<1>1. ASSUME NEW s \in SUBSET S, \A x \in s : s \ {x} \in G
      PROVE  s \in G
  <2>1. IsFiniteSet(s)
    BY FS_Subset
  <2>2. /\ SumFunctionOnSet(v, s) =
             IF s = {} THEN 0 ELSE v[Pick(s)] + SumFunctionOnSet(v, s \ {Pick(s)})
        /\ SumFunctionOnSet(w, s) =
             IF s = {} THEN 0 ELSE w[Pick(s)] + SumFunctionOnSet(w, s \ {Pick(s)})
    BY <2>1, SumStep
  <2>3. s # {} => Pick(s) \in s /\ s \ {Pick(s)} \in G
    BY <1>1, PickIn
  <2> QED
    BY <2>2, <2>3
<1>2. SUBSET S \subseteq G
  <2> HIDE DEF G
  <2> QED
    BY <1>1, SubsetInduction
<1> QED
  BY <1>2

LEMMA SumDisjoint ==
  ASSUME NEW S, IsFiniteSet(S), NEW T, IsFiniteSet(T), S \cap T = {},
         NEW v, \A x \in S \cup T : v[x] \in Int
  PROVE  SumFunctionOnSet(v, S \cup T) = SumFunctionOnSet(v, S) + SumFunctionOnSet(v, T)
<1> DEFINE Sum(s) == SumFunctionOnSet(v, s)
           G == {s \in SUBSET T : Sum(S \cup s) = Sum(S) + Sum(s)}
<1>1. \A s \in SUBSET (S \cup T) : IsFiniteSet(s) /\ Sum(s) \in Int
  BY FS_Union, FS_Subset, SumType
<1>2. Sum({}) = 0
  BY SumEmpty
<1>3. \A s \in SUBSET (S \cup T) : \A x \in s : Sum(s) = v[x] + Sum(s \ {x})
  BY <1>1, SumAny
<1> HIDE DEF Sum
<1>4. ASSUME NEW s \in SUBSET T, \A x \in s : s \ {x} \in G
      PROVE  s \in G
  <2>1. CASE s = {}
    BY <1>1, <1>2, <2>1
  <2>2. CASE s # {}
    <3>1. PICK x \in s : TRUE
      BY <2>2
    <3>2. Sum(S \cup (s \ {x})) = Sum(S) + Sum(s \ {x})
      BY <1>4, <3>1
    <3>3. (S \cup s) \ {x} = S \cup (s \ {x}) /\ x \in S \cup s /\ S \cup s \in SUBSET (S \cup T)
      OBVIOUS
    <3>4. Sum(S \cup s) = v[x] + Sum(S \cup (s \ {x}))
      BY <1>3, <3>3
    <3>5. Sum(s) = v[x] + Sum(s \ {x})
      BY <1>3
    <3>6. v[x] \in Int /\ Sum(S) \in Int /\ Sum(s \ {x}) \in Int
      BY <1>1
    <3> QED
      BY <3>2, <3>4, <3>5, <3>6
  <2> QED
    BY <2>1, <2>2
<1>5. SUBSET T \subseteq G
  <2> HIDE DEF G
  <2> QED
    BY <1>4, SubsetInduction
<1> QED
  BY <1>5 DEF Sum

\* What is added up part by part is what is added up at once.
LEMMA SumParts ==
  ASSUME NEW K, IsFiniteSet(K), NEW S, IsFiniteSet(S), NEW part,
         \A k \in K : part[k] \subseteq S,
         \A k, l \in K : k # l => part[k] \cap part[l] = {},
         NEW v, \A x \in S : v[x] \in Int,
         NEW w, \A k \in K : w[k] = SumFunctionOnSet(v, part[k])
  PROVE  SumFunctionOnSet(v, UNION {part[k] : k \in K}) = SumFunctionOnSet(w, K)
<1> DEFINE All(s) == UNION {part[k] : k \in s}
           G == {s \in SUBSET K : SumFunctionOnSet(v, All(s)) = SumFunctionOnSet(w, s)}
<1>1. \A s \in SUBSET K : All(s) \subseteq S /\ IsFiniteSet(All(s)) /\ IsFiniteSet(s)
  BY FS_Subset
<1>2. \A k \in K : IsFiniteSet(part[k]) /\ w[k] \in Int
  BY FS_Subset, SumType
<1>3. ASSUME NEW s \in SUBSET K, \A x \in s : s \ {x} \in G
      PROVE  s \in G
  <2>1. CASE s = {}
    <3>1. All(s) = {}
      BY <2>1
    <3> QED
      BY <2>1, <3>1, SumEmpty
  <2>2. CASE s # {}
    <3>1. PICK k \in s : TRUE
      BY <2>2
    <3>2. SumFunctionOnSet(v, All(s \ {k})) = SumFunctionOnSet(w, s \ {k})
      BY <1>3
    <3>3. All(s) = All(s \ {k}) \cup part[k]
      OBVIOUS
    <3>4. All(s \ {k}) \cap part[k] = {}
      OBVIOUS
    <3>5. /\ IsFiniteSet(All(s \ {k})) /\ IsFiniteSet(part[k])
          /\ \A x \in All(s \ {k}) \cup part[k] : v[x] \in Int
      BY <1>1, <1>2
    <3>6. SumFunctionOnSet(v, All(s)) =
            SumFunctionOnSet(v, All(s \ {k})) + SumFunctionOnSet(v, part[k])
      <4>1. PICK A : A = All(s \ {k})
        OBVIOUS
      <4>2. PICK B : B = part[k]
        OBVIOUS
      <4>3. PICK C : C = All(s)
        OBVIOUS
      <4>4. /\ IsFiniteSet(A) /\ IsFiniteSet(B) /\ A \cap B = {} /\ C = A \cup B
            /\ \A x \in A \cup B : v[x] \in Int
        BY <3>3, <3>4, <3>5, <4>1, <4>2, <4>3
      <4>5. SumFunctionOnSet(v, C) = SumFunctionOnSet(v, A) + SumFunctionOnSet(v, B)
        BY <4>4, SumDisjoint
      <4> QED
        BY <4>1, <4>2, <4>3, <4>5
    <3>7. SumFunctionOnSet(w, s) = w[k] + SumFunctionOnSet(w, s \ {k})
      BY <1>1, <1>2, SumAny
    <3>8. SumFunctionOnSet(w, s \ {k}) \in Int /\ w[k] \in Int
      BY <1>1, <1>2, SumType
    <3>9. w[k] = SumFunctionOnSet(v, part[k])
      OBVIOUS
    <3> HIDE DEF All
    <3>10. SumFunctionOnSet(v, All(s)) = SumFunctionOnSet(w, s)
      BY <3>2, <3>6, <3>7, <3>8, <3>9
    <3> QED
      BY <3>10
  <2> QED
    BY <2>1, <2>2
<1>4. SUBSET K \subseteq G
  <2> HIDE DEF G
  <2> QED
    BY <1>3, SubsetInduction
<1> QED
  BY <1>4

\* Counting is adding ones.
LEMMA SumOfOnes ==
  ASSUME NEW S, IsFiniteSet(S), NEW v, \A x \in S : v[x] = 1
  PROVE  SumFunctionOnSet(v, S) = Cardinality(S)
<1> DEFINE G == {s \in SUBSET S : SumFunctionOnSet(v, s) = Cardinality(s)}
<1>1. ASSUME NEW s \in SUBSET S, \A x \in s : s \ {x} \in G
      PROVE  s \in G
  <2>1. IsFiniteSet(s) /\ Cardinality(s) \in Nat
    BY FS_Subset, FS_CardinalityType
  <2>2. CASE s = {}
    BY <2>2, SumEmpty, FS_EmptySet
  <2>3. CASE s # {}
    <3>1. Pick(s) \in s
      BY <2>3, PickIn
    <3>2. Cardinality(s \ {Pick(s)}) = Cardinality(s) - 1
      BY <2>1, <3>1, FS_RemoveElement
    <3>3. SumFunctionOnSet(v, s) = 1 + SumFunctionOnSet(v, s \ {Pick(s)})
      BY <2>1, <2>3, <3>1, SumStep
    <3>4. SumFunctionOnSet(v, s \ {Pick(s)}) = Cardinality(s \ {Pick(s)})
      BY <1>1, <3>1
    <3> QED
      BY <2>1, <3>2, <3>3, <3>4
  <2> QED
    BY <2>2, <2>3
<1>2. SUBSET S \subseteq G
  <2> HIDE DEF G
  <2> QED
    BY <1>1, SubsetInduction
<1> QED
  BY <1>2

-----------------------------------------------------------------------------
(* The calendar.                                                           *)

\* A day of a proleptic calendar without a last year.
IsDay(d) ==
  /\ d \in Nat /\ YearOf(d) \in Nat \ {0} /\ MonthOf(d) \in 1..12
  /\ DayOf(d) \in 1..DaysIn(YearOf(d), MonthOf(d))

LEMMA DateIsDay ==
  ASSUME NEW d, IsDate(d)
  PROVE  IsDay(d)
BY DEF IsDate, IsDay, YearOf, MonthOf, DayOf, MaxYear

LEMMA MonthLength ==
  ASSUME NEW y, NEW m
  PROVE  DaysIn(y, m) \in 28..31
BY DEF DaysIn

\* A date is made of its parts, and they are found in it.
LEMMA DateParts ==
  ASSUME NEW y \in Nat, NEW m \in 1..12, NEW d \in 1..31
  PROVE  /\ Date(y, m, d) \in Nat
         /\ YearOf(Date(y, m, d)) = y
         /\ MonthOf(Date(y, m, d)) = m
         /\ DayOf(Date(y, m, d)) = d
<1>1. PICK n \in Nat : n = y * 10000 + m * 100 + d
  OBVIOUS
<1>2. n \div 10000 = y /\ n \div 100 = y * 100 + m /\ n % 100 = d
  BY <1>1
<1>3. (y * 100 + m) % 100 = m
  OBVIOUS
<1> QED
  BY <1>1, <1>2, <1>3 DEF Date, YearOf, MonthOf, DayOf

LEMMA PartsOf ==
  ASSUME NEW d, IsDay(d)
  PROVE  /\ YearOf(d) \in Nat \ {0} /\ MonthOf(d) \in 1..12 /\ DayOf(d) \in 1..31
         /\ d = Date(YearOf(d), MonthOf(d), DayOf(d))
<1>1. /\ YearOf(d) \in Nat \ {0} /\ MonthOf(d) \in 1..12 /\ DayOf(d) \in 1..31
  BY MonthLength DEF IsDay
<1>2. d \in Nat
  BY DEF IsDay
<1>3. d = 100 * (d \div 100) + (d % 100) /\ d \div 100 \in Nat
  BY <1>2
<1>4. d \div 100 = 100 * ((d \div 100) \div 100) + ((d \div 100) % 100)
  BY <1>3
<1>5. (d \div 100) \div 100 = d \div 10000
  BY <1>2
<1> QED
  BY <1>1, <1>3, <1>4, <1>5 DEF Date, YearOf, MonthOf, DayOf

\* The month of a day, from its first to its last.
LEMMA MonthOfDay ==
  ASSUME NEW d, IsDay(d)
  PROVE  /\ MonthStart(d) = Date(YearOf(d), MonthOf(d), 1)
         /\ MonthEnd(d) = Date(YearOf(d), MonthOf(d), DaysIn(YearOf(d), MonthOf(d)))
         /\ MonthStart(d) <= d /\ d <= MonthEnd(d)
<1>1. /\ YearOf(d) \in Nat \ {0} /\ MonthOf(d) \in 1..12 /\ DayOf(d) \in 1..31
      /\ d = Date(YearOf(d), MonthOf(d), DayOf(d))
  BY PartsOf
<1>2. /\ DaysIn(YearOf(d), MonthOf(d)) \in 28..31
      /\ DayOf(d) <= DaysIn(YearOf(d), MonthOf(d))
  BY MonthLength DEF IsDay
<1>3. d \in Nat
  BY DEF IsDay
<1>4. PICK y \in Nat, m \in 1..12, e \in 1..31, n \in 28..31 :
        /\ y = YearOf(d) /\ m = MonthOf(d) /\ e = DayOf(d) /\ n = DaysIn(YearOf(d), MonthOf(d))
  BY <1>1, <1>2
<1>5. d = y * 10000 + m * 100 + e
  BY <1>1, <1>4 DEF Date
<1>6. MonthStart(d) = d - e + 1 /\ MonthEnd(d) = d - e + n /\ e <= n
  BY <1>2, <1>4 DEF MonthStart, MonthEnd
<1> QED
  BY <1>4, <1>5, <1>6 DEF Date

LEMMA MonthIndexIs ==
  ASSUME NEW d, IsDay(d)
  PROVE  /\ MonthIndex(d) \in Nat
         /\ MonthIndex(d) = (YearOf(d) - 1) * 12 + (MonthOf(d) - 1)
         /\ YearOf(d) = (MonthIndex(d) \div 12) + 1
         /\ MonthOf(d) = (MonthIndex(d) % 12) + 1
         /\ FirstOf(MonthIndex(d)) = MonthStart(d)
<1>1. PICK y \in Nat \ {0}, m \in 1..12 : y = YearOf(d) /\ m = MonthOf(d)
  BY PartsOf
<1>2. MonthIndex(d) = (y - 1) * 12 + (m - 1)
  BY <1>1 DEF MonthIndex
<1>3. PICK i \in Nat : i = (y - 1) * 12 + (m - 1)
  OBVIOUS
<1>4. i \div 12 = y - 1 /\ i % 12 = m - 1
  BY <1>3
<1>5. FirstOf(i) = Date(y, m, 1)
  <2>1. (i \div 12) + 1 = y /\ (i % 12) + 1 = m
    BY <1>4
  <2> QED
    BY <2>1 DEF FirstOf
<1>6. MonthIndex(d) = i
  BY <1>2, <1>3
<1>7. MonthStart(d) = Date(y, m, 1)
  BY <1>1, MonthOfDay
<1>8. y = (i \div 12) + 1 /\ m = (i % 12) + 1
  BY <1>4
<1> QED
  BY <1>1, <1>3, <1>5, <1>6, <1>7, <1>8

\* The first day of each month, by the number of the month.
LEMMA FirstOfIs ==
  ASSUME NEW i \in Nat
  PROVE  /\ IsDay(FirstOf(i)) /\ MonthIndex(FirstOf(i)) = i
         /\ MonthStart(FirstOf(i)) = FirstOf(i)
         /\ FirstOf(i) = ((i \div 12) + 1) * 10000 + ((i % 12) + 1) * 100 + 1
         /\ YearOf(FirstOf(i)) = (i \div 12) + 1
         /\ MonthOf(FirstOf(i)) = (i % 12) + 1
         /\ MonthEnd(FirstOf(i)) \in (FirstOf(i) + 27)..(FirstOf(i) + 30)
<1>1. PICK y \in Nat \ {0}, m \in 1..12 : y = (i \div 12) + 1 /\ m = (i % 12) + 1
  OBVIOUS
<1>2. FirstOf(i) = Date(y, m, 1)
  BY <1>1 DEF FirstOf
<1>3. /\ Date(y, m, 1) \in Nat /\ YearOf(Date(y, m, 1)) = y
      /\ MonthOf(Date(y, m, 1)) = m /\ DayOf(Date(y, m, 1)) = 1
  <2>1. y \in Nat /\ 1 \in 1..31
    OBVIOUS
  <2> QED
    BY <2>1, DateParts
<1>4. i = (y - 1) * 12 + (m - 1)
  BY <1>1
<1>5. DaysIn(y, m) \in 28..31
  BY MonthLength
<1>6. IsDay(FirstOf(i))
  BY <1>2, <1>3, <1>5 DEF IsDay
<1>7. MonthIndex(FirstOf(i)) = i
  BY <1>2, <1>3, <1>4 DEF MonthIndex
<1>8. MonthStart(FirstOf(i)) = FirstOf(i)
  BY <1>2, <1>3 DEF MonthStart
<1>9. MonthEnd(FirstOf(i)) = FirstOf(i) - 1 + DaysIn(y, m)
  BY <1>2, <1>3 DEF MonthEnd
<1>10. FirstOf(i) = y * 10000 + m * 100 + 1
  BY <1>2 DEF Date
<1>11. MonthEnd(FirstOf(i)) \in (FirstOf(i) + 27)..(FirstOf(i) + 30)
  <2>1. PICK n \in 28..31 : n = DaysIn(y, m)
    BY <1>5
  <2>2. PICK f \in Nat : f = FirstOf(i)
    BY <1>6 DEF IsDay
  <2> QED
    BY <1>9, <2>1, <2>2
<1> QED
  BY <1>1, <1>2, <1>3, <1>6, <1>7, <1>8, <1>10, <1>11

\* Months do not overlap.
LEMMA FirstOfGrows ==
  ASSUME NEW i \in Nat, NEW j \in Nat, i < j
  PROVE  FirstOf(i) + 100 <= FirstOf(j)
<1>1. PICK a \in Nat, b \in Nat, r \in 0..11, s \in 0..11 :
        a = i \div 12 /\ r = i % 12 /\ b = j \div 12 /\ s = j % 12
  OBVIOUS
<1>2. i = a * 12 + r /\ j = b * 12 + s
  BY <1>1
<1>3. /\ FirstOf(i) = (a + 1) * 10000 + (r + 1) * 100 + 1
      /\ FirstOf(j) = (b + 1) * 10000 + (s + 1) * 100 + 1
  BY <1>1 DEF FirstOf, Date
<1>4. a < b \/ (a = b /\ r < s)
  BY <1>2
<1> QED
  BY <1>3, <1>4

\* A day lies between the first and the last of its month.
LEMMA DayInMonth ==
  ASSUME NEW d, IsDay(d)
  PROVE  /\ FirstOf(MonthIndex(d)) <= d /\ d <= MonthEnd(FirstOf(MonthIndex(d)))
         /\ MonthEnd(d) = MonthEnd(FirstOf(MonthIndex(d)))
<1>1. /\ FirstOf(MonthIndex(d)) = MonthStart(d) /\ MonthIndex(d) \in Nat
  BY MonthIndexIs
<1>2. YearOf(d) \in Nat /\ MonthOf(d) \in 1..12 /\ DaysIn(YearOf(d), MonthOf(d)) \in 28..31
  BY PartsOf, MonthLength
<1>3. MonthStart(d) = Date(YearOf(d), MonthOf(d), 1)
  BY MonthOfDay
<1>4. /\ YearOf(MonthStart(d)) = YearOf(d) /\ MonthOf(MonthStart(d)) = MonthOf(d)
      /\ DayOf(MonthStart(d)) = 1
  <2>1. PICK y \in Nat, m \in 1..12 : y = YearOf(d) /\ m = MonthOf(d)
    BY <1>2
  <2>2. 1 \in 1..31
    OBVIOUS
  <2>3. /\ YearOf(Date(y, m, 1)) = y /\ MonthOf(Date(y, m, 1)) = m
        /\ DayOf(Date(y, m, 1)) = 1
    BY <2>2, DateParts
  <2> QED
    BY <1>3, <2>1, <2>3
<1>5. MonthEnd(MonthStart(d)) = MonthStart(d) - 1 + DaysIn(YearOf(d), MonthOf(d))
  BY <1>4 DEF MonthEnd
<1>6. MonthEnd(MonthStart(d)) = MonthEnd(d)
  BY <1>2, <1>3, <1>5, MonthOfDay DEF Date
<1> QED
  BY <1>1, <1>6, MonthOfDay

LEMMA MonthsInOrder ==
  ASSUME NEW c, IsDay(c), NEW d, IsDay(d)
  PROVE  /\ c <= d => MonthIndex(c) <= MonthIndex(d)
         /\ MonthIndex(c) < MonthIndex(d) => MonthEnd(c) < MonthStart(d)
         /\ MonthIndex(c) <= MonthIndex(d) => c <= MonthEnd(d) /\ MonthStart(c) <= d
         /\ MonthStart(c) = MonthStart(d) <=> MonthIndex(c) = MonthIndex(d)
<1>1. PICK i \in Nat, j \in Nat : i = MonthIndex(c) /\ j = MonthIndex(d)
  BY MonthIndexIs
<1>2. PICK f \in Nat, g \in Nat : f = FirstOf(i) /\ g = FirstOf(j)
  <2>1. IsDay(FirstOf(i)) /\ IsDay(FirstOf(j))
    BY FirstOfIs
  <2> QED
    BY <2>1 DEF IsDay
<1>3. /\ MonthStart(c) = f /\ MonthStart(d) = g
      /\ f <= c /\ c <= MonthEnd(c) /\ g <= d /\ d <= MonthEnd(d)
  BY <1>1, <1>2, MonthIndexIs, DayInMonth
<1>4. MonthEnd(c) \in (f + 27)..(f + 30) /\ MonthEnd(d) \in (g + 27)..(g + 30)
  BY <1>1, <1>2, FirstOfIs, DayInMonth
<1>5. (i < j => f + 100 <= g) /\ (j < i => g + 100 <= f) /\ (i = j => f = g)
  BY <1>2, FirstOfGrows
<1>6. c \in Nat /\ d \in Nat
  BY DEF IsDay
<1>7. PICK e \in Nat, h \in Nat : e = MonthEnd(c) /\ h = MonthEnd(d)
  BY <1>4
<1>8. /\ c <= d => i <= j
      /\ i < j => e < g
      /\ i <= j => c <= h /\ f <= d
      /\ f = g <=> i = j
  <2>1. f <= c /\ c <= e /\ g <= d /\ d <= h
    BY <1>3, <1>7
  <2>2. e \in (f + 27)..(f + 30) /\ h \in (g + 27)..(g + 30)
    BY <1>4, <1>7
  <2>3. CASE i < j
    BY <1>5, <1>6, <2>1, <2>2, <2>3
  <2>4. CASE j < i
    BY <1>5, <1>6, <2>1, <2>2, <2>4
  <2>5. CASE i = j
    <3>1. f = g /\ e = h
      BY <1>1, <1>2, <1>5, <1>7, <2>5, DayInMonth
    <3> QED
      BY <1>6, <2>1, <2>2, <2>5, <3>1
  <2> QED
    BY <2>3, <2>4, <2>5
<1> QED
  BY <1>1, <1>3, <1>7, <1>8

LEMMA EndOfMonth ==
  ASSUME NEW d, IsDay(d)
  PROVE  /\ IsDay(MonthEnd(d)) /\ MonthIndex(MonthEnd(d)) = MonthIndex(d)
         /\ YearOf(MonthEnd(d)) = YearOf(d)
<1>1. PICK y \in Nat \ {0}, m \in 1..12 : y = YearOf(d) /\ m = MonthOf(d)
  BY PartsOf
<1>2. PICK n \in 28..31 : n = DaysIn(y, m)
  BY MonthLength
<1>3. MonthEnd(d) = Date(y, m, n)
  BY <1>1, <1>2, MonthOfDay
<1>4. /\ Date(y, m, n) \in Nat /\ YearOf(Date(y, m, n)) = y
      /\ MonthOf(Date(y, m, n)) = m /\ DayOf(Date(y, m, n)) = n
  <2>1. y \in Nat /\ n \in 1..31
    OBVIOUS
  <2> QED
    BY <2>1, DateParts
<1> QED
  BY <1>1, <1>2, <1>3, <1>4 DEF IsDay, MonthIndex

-----------------------------------------------------------------------------
(* What holds of every state.                                              *)

\* A transaction and a balance as they are kept.
Row == [date : Days, amount : Int \ {0}, category : DOMAIN Kind \cup {NoCategory},
        merchant : Merchants \cup {NoMerchant},
        description : Descriptions \cup Merchants]
Entry == [account : Accounts, cents : Balances, date : Days]

\* What the planning page has checked of the goals; today is a date.
GoalsInv ==
  /\ today \in Days
  /\ goals \in [Goals -> GoalInputs \cup {NoGoal}]
  /\ \A id \in Planned : goals[id] \in GoalInputs /\ ValidGoal(goals[id])

\* What the reports are computed from.
FactsInv ==
  /\ ledger \in Seq(Row)
  /\ balances \in Seq(Entry)
  /\ \A k \in DOMAIN budgets : budgets[k] \in Limits

LEMMA FirstDayOfDays ==
  Min(Days) \in Days
<1>1. Days \in SUBSET Nat /\ Days # {}
  BY FinancesAssumption, DateIsDay DEF IsDay
<1>2. PICK n \in Days : \A m \in Days : n <= m
  BY <1>1, NatMin
<1> QED
  BY <1>2 DEF Min

LEMMA GoalsInit ==
  Init => GoalsInv
BY FirstDayOfDays DEF Init, GoalsInv, Planned

LEMMA GoalsStep ==
  GoalsInv /\ [Next]_vars => GoalsInv'
<1> SUFFICES ASSUME GoalsInv, [Next]_vars
             PROVE  GoalsInv'
  OBVIOUS
<1> USE DEF GoalsInv
<1>1. CASE UNCHANGED <<today, goals>>
  BY <1>1 DEF Planned
<1>2. ASSUME NEW id \in Goals, NEW g \in GoalInputs, EditGoal(id, g)
      PROVE  GoalsInv'
  <2>1. ValidGoal(g) /\ goals' = [goals EXCEPT ![id] = g] /\ today' = today
    BY <1>2 DEF EditGoal, CreateGoal, UpdateGoal
  <2> QED
    BY <2>1 DEF Planned
<1>3. CASE PassTime
  BY <1>3 DEF PassTime, Planned
<1>4. ASSUME NEW c \in DOMAIN Kind, NEW month \in Months, NEW cents \in Limits,
             Budget(c, month, cents)
      PROVE  UNCHANGED <<today, goals>>
  BY <1>4 DEF Budget, SaveBudget
<1>5. ASSUME NEW a \in Accounts, NEW cents \in Balances, NEW d \in Days,
             EnterBalance(a, cents, d)
      PROVE  UNCHANGED <<today, goals>>
  BY <1>5 DEF EnterBalance
<1>6. ASSUME NEW a \in Accounts, NEW type \in AccountTypes, NEW l \in BOOLEAN,
             EditAccount(a, type, l)
      PROVE  UNCHANGED <<today, goals>>
  BY <1>6 DEF EditAccount
<1>7. ASSUME NEW t \in Rows, NEW c \in DOMAIN Kind, NEW m \in Merchants,
             Recategorize(t, c, m)
      PROVE  UNCHANGED <<today, goals>>
  BY <1>7 DEF Recategorize
<1>8. ASSUME NEW d \in Days, NEW amount \in Amounts, NEW c \in DOMAIN Kind,
             NEW m \in Merchants, NEW x \in Descriptions,
             ImportTransaction(d, amount, c, m, x)
      PROVE  UNCHANGED <<today, goals>>
  BY <1>8 DEF ImportTransaction
<1> QED
  BY <1>1, <1>2, <1>3, <1>4, <1>5, <1>6, <1>7, <1>8 DEF Next, vars

LEMMA FactsInit ==
  Init => FactsInv
<1>1. OldRow \subseteq Row
  BY DEF OldRow, Row
<1>2. ASSUME NEW old \in Legacy
      PROVE  old \in Seq(Row)
  <2>1. old \in Seq(OldRow)
    BY FinancesAssumption
  <2> QED
    BY <1>1, <2>1
<1> QED
  BY <1>2 DEF Init, FactsInv

LEMMA FactsStep ==
  FactsInv /\ [Next]_vars => FactsInv'
<1> SUFFICES ASSUME FactsInv, [Next]_vars
             PROVE  FactsInv'
  OBVIOUS
<1> USE DEF FactsInv
<1>1. CASE UNCHANGED <<ledger, balances, budgets>>
  BY <1>1
<1>2. ASSUME NEW d \in Days, NEW amount \in Amounts, NEW c \in DOMAIN Kind,
             NEW m \in Merchants, NEW x \in Descriptions,
             ImportTransaction(d, amount, c, m, x)
      PROVE  FactsInv'
  <2>1. [date |-> d, amount |-> amount, category |-> c, merchant |-> m,
         description |-> x] \in Row
    BY FinancesAssumption DEF Row
  <2>2. ledger' \in Seq(Row)
    BY <1>2, <2>1 DEF ImportTransaction
  <2> QED
    BY <1>2, <2>2 DEF ImportTransaction
<1>3. ASSUME NEW t \in Rows, NEW c \in DOMAIN Kind, NEW m \in Merchants,
             Recategorize(t, c, m)
      PROVE  FactsInv'
  <2>1. t \in 1..Len(ledger) /\ ledger[t] \in Row
    BY DEF Rows
  <2>2. [ledger[t] EXCEPT !.category = c, !.merchant = m] \in Row
    BY <2>1 DEF Row
  <2>3. ledger' = [ledger EXCEPT ![t] = [ledger[t] EXCEPT !.category = c, !.merchant = m]]
    BY <1>3, <2>1 DEF Recategorize
  <2>4. ledger' \in Seq(Row)
    BY <2>1, <2>2, <2>3
  <2> QED
    BY <1>3, <2>4 DEF Recategorize
<1>4. ASSUME NEW a \in Accounts, NEW cents \in Balances, NEW d \in Days,
             EnterBalance(a, cents, d)
      PROVE  FactsInv'
  <2>1. [account |-> a, cents |-> cents, date |-> d] \in Entry
    BY DEF Entry
  <2>2. balances' \in Seq(Entry)
    BY <1>4, <2>1 DEF EnterBalance, AddBalance
  <2> QED
    BY <1>4, <2>2 DEF EnterBalance
<1>5. ASSUME NEW c \in DOMAIN Kind, NEW month \in Months, NEW cents \in Limits,
             Budget(c, month, cents)
      PROVE  FactsInv'
  <2>1. budgets' = [k \in DOMAIN budgets \cup {<<c, month>>} |->
                      IF k = <<c, month>> THEN cents ELSE budgets[k]]
    BY <1>5 DEF Budget, SaveBudget
  <2>2. \A k \in DOMAIN budgets' : budgets'[k] \in Limits
    BY <2>1
  <2> QED
    BY <1>5, <2>2 DEF Budget
<1>6. ASSUME NEW id \in Goals, NEW g \in GoalInputs, EditGoal(id, g)
      PROVE  UNCHANGED <<ledger, balances, budgets>>
  BY <1>6 DEF EditGoal, CreateGoal, UpdateGoal
<1>7. ASSUME NEW a \in Accounts, NEW type \in AccountTypes, NEW l \in BOOLEAN,
             EditAccount(a, type, l)
      PROVE  UNCHANGED <<ledger, balances, budgets>>
  BY <1>7 DEF EditAccount, CreateAccount, UpdateAccount, SetAccount
<1>8. CASE PassTime
  BY <1>8 DEF PassTime
<1> QED
  BY <1>1, <1>2, <1>3, <1>4, <1>5, <1>6, <1>7, <1>8 DEF Next, vars

-----------------------------------------------------------------------------
(* Goals.                                                                  *)

\* Rounding up gives the least number of payments that is enough.
LEMMA CeilDivIs ==
  ASSUME NEW n \in Nat \ {0}, NEW d \in Nat \ {0}
  PROVE  /\ CeilDiv(n, d) \in Nat \ {0}
         /\ d * CeilDiv(n, d) >= n
         /\ d * (CeilDiv(n, d) - 1) < n
         /\ \A x \in Nat : d * x >= n => CeilDiv(n, d) <= x
<1>1. PICK a \in Nat : a = n + d - 1
  OBVIOUS
<1>2. PICK q \in Int, r \in Int : q = a \div d /\ r = a % d
  OBVIOUS
<1>3. a = d * q + r /\ 0 <= r /\ r < d
  BY <1>2
<1>4. CeilDiv(n, d) = q
  BY <1>1, <1>2 DEF CeilDiv
<1>5. q >= 1
  <2>1. SUFFICES ASSUME q <= 0
                 PROVE  FALSE
    OBVIOUS
  <2>2. d * q <= 0
    BY <2>1
  <2> QED
    BY <1>1, <1>3, <2>2
<1>6. d * (q - 1) = d * q - d
  OBVIOUS
<1>7. d * q >= n /\ d * (q - 1) < n
  BY <1>1, <1>3, <1>6
<1>8. ASSUME NEW x \in Nat, d * x >= n
      PROVE  q <= x
  <2>1. SUFFICES ASSUME x <= q - 1
                 PROVE  FALSE
    OBVIOUS
  <2>2. d * x <= d * (q - 1)
    BY <2>1
  <2>3. d * x \in Int /\ d * (q - 1) \in Int
    OBVIOUS
  <2> QED
    BY <1>7, <1>8, <2>2, <2>3
<1> QED
  BY <1>4, <1>5, <1>7, <1>8

\* Of one goal.
LEMMA PlanReaches ==
  ASSUME GoalsInv, NEW id \in Planned
  PROVE  LET g == goals[id]
             p == Projection(g, today)
         IN p.status = "on_track" =>
              /\ p.date >= today
              /\ p.months = MonthsThrough(today, p.date)
              /\ g.current + p.monthly * p.months >= g.target
              /\ IF g.date = None
                 THEN /\ g.current + p.monthly * (p.months - 1) < g.target
                      /\ Need(g, MonthsThrough(today, p.date)) <= g.monthly
                 ELSE g.current + (p.monthly - 1) * p.months < g.target
<1>1. PICK g : g = goals[id]
  OBVIOUS
<1>2. /\ g \in GoalInputs /\ ValidGoal(g)
      /\ g.target \in Int /\ g.current \in Int /\ g.monthly \in Int
      /\ g.date = None \/ IsDate(g.date)
  BY <1>1, FinancesAssumption DEF GoalsInv
<1>3. IsDay(today)
  BY FinancesAssumption, DateIsDay DEF GoalsInv
<1>4. PICK r \in Nat : r = Remaining(g)
  BY <1>2 DEF Remaining
<1>5. r > 0 => r \in Nat \ {0} /\ g.target = g.current + r
  BY <1>2, <1>4 DEF Remaining
<1>6. PICK p : p = Projection(g, today)
  OBVIOUS
<1> SUFFICES ASSUME p.status = "on_track"
             PROVE  /\ p.date >= today
                    /\ p.months = MonthsThrough(today, p.date)
                    /\ g.current + p.monthly * p.months >= g.target
                    /\ IF g.date = None
                       THEN /\ g.current + p.monthly * (p.months - 1) < g.target
                            /\ Need(g, MonthsThrough(today, p.date)) <= g.monthly
                       ELSE g.current + (p.monthly - 1) * p.months < g.target
  BY <1>1, <1>6
<1>7. /\ r > 0
      /\ \/ g.date = None /\ InCalendar(ShiftMonth(today, CeilDiv(Remaining(g), g.monthly) - 1))
         \/ g.date # None /\ g.date >= today
  <2>1. None \in Int /\ today \in Int
    BY <1>3 DEF IsDay, None
  <2> QED
    BY <1>2, <1>4, <1>6, <2>1 DEF Projection, IsDate
<1>8. CASE g.date = None
  <2>1. g.monthly \in Nat \ {0}
    BY <1>2, <1>8 DEF ValidGoal, None
  <2>2. PICK n \in Nat \ {0} : n = CeilDiv(r, g.monthly)
    BY <1>5, <1>7, <2>1, CeilDivIs
  <2>3. PICK i \in Nat : i = MonthIndex(today)
    BY <1>3, MonthIndexIs
  <2>4. PICK e : e = MonthEnd(FirstOf(i + (n - 1)))
    OBVIOUS
  <2>5. p.months = n /\ p.monthly = g.monthly /\ p.date = e
    BY <1>4, <1>6, <1>7, <1>8, <2>2, <2>3, <2>4 DEF Projection, ShiftMonth
  <2>6. i + (n - 1) \in Nat
    OBVIOUS
  <2>7. IsDay(FirstOf(i + (n - 1))) /\ MonthIndex(FirstOf(i + (n - 1))) = i + (n - 1)
    BY <2>6, FirstOfIs
  <2>8. MonthIndex(e) = i + (n - 1)
    BY <2>4, <2>7, EndOfMonth
  <2>9. today <= e
    BY <1>3, <2>3, <2>4, <2>7, MonthsInOrder
  <2>10. MonthsThrough(today, e) = n
    BY <2>3, <2>8 DEF MonthsThrough
  <2>11. g.monthly * n >= r /\ g.monthly * (n - 1) < r
    BY <1>5, <1>7, <2>1, <2>2, CeilDivIs
  <2>12. n * g.monthly = g.monthly * n
    BY <2>1
  <2>13. Need(g, n) <= g.monthly
    <3>1. n * g.monthly >= r /\ g.monthly \in Nat
      BY <2>1, <2>11, <2>12
    <3>2. CeilDiv(r, n) <= g.monthly
      BY <1>5, <1>7, <3>1, CeilDivIs
    <3> QED
      BY <1>4, <3>2 DEF Need
  <2>14. today \in Nat /\ IsDay(e)
    BY <1>3, <2>4, <2>7, EndOfMonth DEF IsDay
  <2>15. e >= today
    BY <2>9, <2>14 DEF IsDay
  <2>16. g.current + g.monthly * n >= g.target /\ g.current + g.monthly * (n - 1) < g.target
    BY <1>2, <1>5, <1>7, <2>1, <2>11
  <2> QED
    BY <1>8, <2>5, <2>10, <2>13, <2>15, <2>16
<1>9. CASE g.date # None /\ g.date >= today
  <2>1. IsDay(g.date)
    BY <1>2, <1>9, DateIsDay
  <2>2. PICK n : n = MonthsThrough(today, g.date)
    OBVIOUS
  <2>3. p.months = n /\ p.date = g.date /\ p.monthly = CeilDiv(r, n)
    BY <1>4, <1>6, <1>7, <1>9, <2>2 DEF Projection, Need
  <2>4. n \in Nat \ {0}
    <3>1. MonthIndex(today) \in Nat /\ MonthIndex(g.date) \in Nat
      BY <1>3, <2>1, MonthIndexIs
    <3>2. today <= g.date
      BY <1>3, <1>9, <2>1 DEF IsDay
    <3>3. MonthIndex(today) <= MonthIndex(g.date)
      BY <1>3, <2>1, <3>2, MonthsInOrder
    <3> QED
      BY <2>2, <3>1, <3>3 DEF MonthsThrough
  <2>5. PICK q \in Nat \ {0} : q = CeilDiv(r, n)
    BY <1>5, <1>7, <2>4, CeilDivIs
  <2>6. n * q >= r /\ n * (q - 1) < r
    BY <1>5, <1>7, <2>4, <2>5, CeilDivIs
  <2>7. q * n = n * q /\ (q - 1) * n = n * (q - 1)
    BY <2>4
  <2>8. g.current + q * n >= g.target /\ g.current + (q - 1) * n < g.target
    BY <1>2, <1>5, <1>7, <2>4, <2>6, <2>7
  <2> QED
    BY <1>9, <2>2, <2>3, <2>5, <2>8
<1> QED
  BY <1>7, <1>8, <1>9

\* A plan that the page shows on track reaches its goal on its date and not a
\* payment or a cent before (project_goal, rounded up in whole cents and whole
\* months).  Nothing is said of a plan that has no last month in the calendar,
\* for which there is no page.
THEOREM SavingsReachGoal ==
  Spec => []PlansReachGoal
<1>1. GoalsInv => PlansReachGoal
  BY PlanReaches DEF PlansReachGoal
<1> QED
  BY <1>1, GoalsInit, GoalsStep, PTL DEF Spec

-----------------------------------------------------------------------------
(* Sums over the ledger.                                                   *)

LEMMA ImageIsFinite ==
  ASSUME NEW S, IsFiniteSet(S), NEW f
  PROVE  IsFiniteSet({f[x] : x \in S})
<1>1. [x \in S |-> f[x]] \in Surjection(S, {f[x] : x \in S})
  BY DEF Surjection
<1> QED
  BY <1>1, FS_Surjection

\* What the rows cost and bring, as functions to be added up.
Costs == [t \in Rows |-> -Amount(t)]
Gains == [t \in Rows |-> Amount(t)]

LEMMA RowsTyped ==
  ASSUME FactsInv
  PROVE  /\ IsFiniteSet(Rows)
         /\ \A t \in Rows :
              /\ IsDay(ledger[t].date) /\ ledger[t].date \in Days
              /\ Amount(t) \in Int \ {0} /\ Costs[t] \in Int /\ Gains[t] \in Int
              /\ ledger[t].category \in DOMAIN Kind \cup {NoCategory}
              /\ ledger[t].merchant \in Merchants \cup {NoMerchant}
              /\ ledger[t].description \in Descriptions \cup Merchants
<1>1. Len(ledger) \in Nat /\ Rows = 1..Len(ledger)
  BY DEF FactsInv, Rows
<1>2. IsFiniteSet(Rows)
  BY <1>1, FS_Interval
<1>3. ASSUME NEW t \in Rows
      PROVE  /\ IsDay(ledger[t].date) /\ ledger[t].date \in Days
             /\ Amount(t) \in Int \ {0} /\ Costs[t] \in Int /\ Gains[t] \in Int
             /\ ledger[t].category \in DOMAIN Kind \cup {NoCategory}
             /\ ledger[t].merchant \in Merchants \cup {NoMerchant}
             /\ ledger[t].description \in Descriptions \cup Merchants
  <2>1. ledger[t] \in Row
    BY <1>1 DEF FactsInv
  <2>2. /\ ledger[t].date \in Days /\ ledger[t].amount \in Int \ {0}
        /\ ledger[t].category \in DOMAIN Kind \cup {NoCategory}
        /\ ledger[t].merchant \in Merchants \cup {NoMerchant}
        /\ ledger[t].description \in Descriptions \cup Merchants
    BY <2>1 DEF Row
  <2>3. IsDay(ledger[t].date)
    BY <2>2, FinancesAssumption, DateIsDay
  <2>4. Amount(t) \in Int \ {0}
    BY <2>2, FinancesAssumption DEF Amount
  <2> QED
    BY <2>2, <2>3, <2>4 DEF Costs, Gains
<1> QED
  BY <1>2, <1>3

LEMMA SpentIs ==
  ASSUME FactsInv, NEW s \in SUBSET Rows
  PROVE  /\ IsFiniteSet(s)
         /\ Spent(s) = SumFunctionOnSet(Costs, s) /\ Spent(s) \in Int
         /\ Earned(s) = SumFunctionOnSet(Gains, s) /\ Earned(s) \in Int
<1>1. IsFiniteSet(s)
  BY RowsTyped, FS_Subset
<1>2. PICK v : v = [t \in s |-> -Amount(t)]
  OBVIOUS
<1>3. PICK w : w = [t \in s |-> Amount(t)]
  OBVIOUS
<1>4. Spent(s) = SumFunctionOnSet(v, s) /\ Earned(s) = SumFunctionOnSet(w, s)
  BY <1>2, <1>3 DEF Spent, Earned, SumOf, SumFunction
<1>5. \A t \in s : v[t] = Costs[t] /\ w[t] = Gains[t] /\ Costs[t] \in Int /\ Gains[t] \in Int
  BY <1>2, <1>3, RowsTyped DEF Costs, Gains
<1>6. /\ SumFunctionOnSet(v, s) = SumFunctionOnSet(Costs, s)
      /\ SumFunctionOnSet(w, s) = SumFunctionOnSet(Gains, s)
  BY <1>1, <1>5, SumSame
<1>7. SumFunctionOnSet(Costs, s) \in Int /\ SumFunctionOnSet(Gains, s) \in Int
  BY <1>1, <1>5, SumType
<1> QED
  BY <1>1, <1>4, <1>6, <1>7

\* What is spent in all, part by part; so of what is earned, and of the number of rows.
LEMMA SpentParts ==
  ASSUME FactsInv, NEW K, IsFiniteSet(K), NEW part,
         \A k \in K : part[k] \subseteq Rows,
         \A k, l \in K : k # l => part[k] \cap part[l] = {},
         NEW w, \A k \in K : w[k] = Spent(part[k])
  PROVE  Spent(UNION {part[k] : k \in K}) = SumFunctionOnSet(w, K)
<1>1. PICK u : u = UNION {part[k] : k \in K}
  OBVIOUS
<1>2. Spent(u) = SumFunctionOnSet(Costs, u)
  BY <1>1, SpentIs
<1>3. \A k \in K : w[k] = SumFunctionOnSet(Costs, part[k])
  BY SpentIs
<1>4. IsFiniteSet(Rows) /\ \A t \in Rows : Costs[t] \in Int
  BY RowsTyped
<1>5. SumFunctionOnSet(Costs, UNION {part[k] : k \in K}) = SumFunctionOnSet(w, K)
  BY <1>3, <1>4, SumParts
<1> QED
  BY <1>1, <1>2, <1>5

LEMMA EarnedParts ==
  ASSUME FactsInv, NEW K, IsFiniteSet(K), NEW part,
         \A k \in K : part[k] \subseteq Rows,
         \A k, l \in K : k # l => part[k] \cap part[l] = {},
         NEW w, \A k \in K : w[k] = Earned(part[k])
  PROVE  Earned(UNION {part[k] : k \in K}) = SumFunctionOnSet(w, K)
<1>1. PICK u : u = UNION {part[k] : k \in K}
  OBVIOUS
<1>2. Earned(u) = SumFunctionOnSet(Gains, u)
  BY <1>1, SpentIs
<1>3. \A k \in K : w[k] = SumFunctionOnSet(Gains, part[k])
  BY SpentIs
<1>4. IsFiniteSet(Rows) /\ \A t \in Rows : Gains[t] \in Int
  BY RowsTyped
<1>5. SumFunctionOnSet(Gains, UNION {part[k] : k \in K}) = SumFunctionOnSet(w, K)
  BY <1>3, <1>4, SumParts
<1> QED
  BY <1>1, <1>2, <1>5

LEMMA CountParts ==
  ASSUME FactsInv, NEW K, IsFiniteSet(K), NEW part,
         \A k \in K : part[k] \subseteq Rows,
         \A k, l \in K : k # l => part[k] \cap part[l] = {},
         NEW w, \A k \in K : w[k] = Cardinality(part[k])
  PROVE  Cardinality(UNION {part[k] : k \in K}) = SumFunctionOnSet(w, K)
<1>1. PICK u : u = UNION {part[k] : k \in K}
  OBVIOUS
<1>2. PICK one : one = [t \in Rows |-> 1]
  OBVIOUS
<1>3. IsFiniteSet(Rows) /\ \A t \in Rows : one[t] = 1 /\ one[t] \in Int
  BY <1>2, RowsTyped
<1>4. \A s \in SUBSET Rows : Cardinality(s) = SumFunctionOnSet(one, s)
  BY <1>3, SumOfOnes, FS_Subset
<1>5. Cardinality(u) = SumFunctionOnSet(one, u)
  BY <1>1, <1>4
<1>6. \A k \in K : w[k] = SumFunctionOnSet(one, part[k])
  BY <1>4
<1>7. SumFunctionOnSet(one, UNION {part[k] : k \in K}) = SumFunctionOnSet(w, K)
  BY <1>3, <1>6, SumParts
<1> QED
  BY <1>1, <1>5, <1>7

\* Rows that cost something cost something together.
LEMMA SpentIsPositive ==
  ASSUME FactsInv, NEW s \in SUBSET Rows, s # {}, \A t \in s : Amount(t) < 0
  PROVE  Spent(s) > 0
<1> DEFINE Sum(r) == SumFunctionOnSet(Costs, r)
           G == {r \in SUBSET s : Sum(r) >= 0}
<1>1. IsFiniteSet(s) /\ Spent(s) = Sum(s)
  BY SpentIs
<1>2. \A t \in s : Costs[t] \in Int /\ Costs[t] > 0
  BY RowsTyped DEF Costs
<1>3. \A r \in SUBSET s : IsFiniteSet(r) /\ Sum(r) \in Int
  BY <1>1, <1>2, FS_Subset, SumType
<1>4. Sum({}) = 0
  BY SumEmpty
<1>5. \A r \in SUBSET s : \A x \in r : Sum(r) = Costs[x] + Sum(r \ {x})
  BY <1>2, <1>3, SumAny
<1> HIDE DEF Sum
<1>6. ASSUME NEW r \in SUBSET s, \A x \in r : r \ {x} \in G
      PROVE  r \in G
  <2>1. CASE r = {}
    BY <1>4, <2>1
  <2>2. CASE r # {}
    <3>1. PICK x \in r : TRUE
      BY <2>2
    <3>2. Sum(r) = Costs[x] + Sum(r \ {x}) /\ Sum(r \ {x}) >= 0
      BY <1>5, <1>6
    <3>3. Sum(r \ {x}) \in Int /\ Costs[x] \in Int /\ Costs[x] > 0
      BY <1>2, <1>3
    <3> QED
      BY <3>2, <3>3
  <2> QED
    BY <2>1, <2>2
<1>7. SUBSET s \subseteq G
  <2> HIDE DEF G
  <2> QED
    BY <1>1, <1>6, SubsetInduction
<1>8. PICK x \in s : TRUE
  OBVIOUS
<1>9. Sum(s) = Costs[x] + Sum(s \ {x}) /\ Sum(s \ {x}) >= 0 /\ Sum(s \ {x}) \in Int
  BY <1>3, <1>5, <1>7
<1> QED
  BY <1>1, <1>2, <1>9

LEMMA NothingSpent ==
  Spent({}) = 0 /\ Earned({}) = 0
<1>1. DOMAIN [t \in {} |-> -Amount(t)] = {} /\ DOMAIN [t \in {} |-> Amount(t)] = {}
  OBVIOUS
<1> QED
  BY <1>1, SumEmpty DEF Spent, Earned, SumOf, SumFunction

-----------------------------------------------------------------------------
(* The spending breakdown.                                                 *)

\* The reports' windows are worked out by clamping to the first day there is, in
\* two ways that differ there; no bank statement goes back to the year 1.
AfterFirstYear == \A d \in Days : YearOf(d) > 1

LEMMA LaterDays ==
  ASSUME AfterFirstYear, NEW d \in Days
  PROVE  IsDay(d) /\ YearOf(d) > 1 /\ MonthIndex(d) \in Nat /\ MonthIndex(d) >= 12
<1>1. IsDay(d) /\ YearOf(d) > 1
  BY FinancesAssumption, DateIsDay DEF AfterFirstYear
<1>2. PICK y \in Nat, m \in 1..12 : y = YearOf(d) /\ m = MonthOf(d)
  BY <1>1, PartsOf
<1>3. MonthIndex(d) = (y - 1) * 12 + (m - 1)
  BY <1>1, <1>2, MonthIndexIs
<1> QED
  BY <1>1, <1>2, <1>3

\* The day after one of an earlier month is not after the day.
LEMMA DayAfter ==
  ASSUME NEW c, IsDay(c), NEW d, IsDay(d), MonthIndex(c) < MonthIndex(d)
  PROVE  NextDay(c) <= d /\ NextDay(c) \in Nat
<1>1. PICK i \in Nat, j \in Nat : i = MonthIndex(c) /\ j = MonthIndex(d)
  BY MonthIndexIs
<1>2. PICK y \in Nat \ {0}, m \in 1..12, x \in 1..31 :
        /\ y = YearOf(c) /\ m = MonthOf(c) /\ x = DayOf(c)
        /\ c = Date(y, m, x) /\ MonthStart(c) = Date(y, m, 1)
  <2>1. MonthStart(c) = Date(YearOf(c), MonthOf(c), 1)
    BY MonthOfDay
  <2> QED
    BY <2>1, PartsOf
<1>3. PICK a \in Nat, b \in 1..12, z \in 1..31 :
        /\ a = YearOf(d) /\ b = MonthOf(d) /\ z = DayOf(d) /\ d = Date(a, b, z)
  BY PartsOf
<1>4. i = (y - 1) * 12 + (m - 1) /\ j = (a - 1) * 12 + (b - 1)
  BY <1>1, <1>2, <1>3, MonthIndexIs
<1>5. a > y \/ (a = y /\ b > m)
  BY <1>1, <1>4
<1>6. PICK n \in Nat, k \in Nat : n = c /\ k = MonthEnd(c) /\ n <= k
  <2>1. c <= MonthEnd(c) /\ IsDay(MonthEnd(c))
    BY MonthOfDay, EndOfMonth
  <2> QED
    BY <2>1 DEF IsDay
<1>7. k < d
  <2>1. MonthEnd(c) < MonthStart(d) /\ MonthStart(d) <= d
    BY MonthsInOrder, MonthOfDay
  <2>2. IsDay(MonthStart(d)) /\ d \in Nat
    <3>1. IsDay(FirstOf(j))
      BY FirstOfIs
    <3> QED
      BY <1>1, <3>1, MonthIndexIs DEF IsDay
  <2> QED
    BY <1>6, <2>1, <2>2 DEF IsDay
<1>8. CASE n < k
  <2>1. NextDay(c) = n + 1
    BY <1>6, <1>8 DEF NextDay
  <2>2. d \in Nat
    BY DEF IsDay
  <2> QED
    BY <1>7, <1>8, <2>1, <2>2
<1>9. CASE n = k /\ m = 12
  <2>1. NextDay(c) = Date(y + 1, 1, 1)
    BY <1>2, <1>6, <1>9 DEF NextDay
  <2>2. a >= y + 1
    BY <1>5, <1>9
  <2> QED
    BY <1>3, <2>1, <2>2 DEF Date
<1>10. CASE n = k /\ m < 12
  <2>1. NextDay(c) = Date(y, m, 1) + 100
    <3>1. ~(c < MonthEnd(c))
      <4>1. c = MonthEnd(c) /\ c \in Nat
        BY <1>6, <1>10
      <4> QED
        BY <4>1
    <3>2. MonthOf(c) # 12
      BY <1>2, <1>10
    <3> QED
      BY <1>2, <3>1, <3>2 DEF NextDay
  <2>2. Date(y, m, 1) + 100 = y * 10000 + m * 100 + 101 /\ d = a * 10000 + b * 100 + z
    BY <1>3 DEF Date
  <2> QED
    BY <1>5, <2>1, <2>2
<1> QED
  BY <1>6, <1>8, <1>9, <1>10

\* There is no day between one and the day after it.
LEMMA ThroughDay ==
  ASSUME NEW c, IsDay(c), NEW d, IsDay(d)
  PROVE  d < NextDay(c) <=> d <= c
<1>1. PICK y \in Nat \ {0}, m \in 1..12, x \in 1..31 :
        /\ y = YearOf(c) /\ m = MonthOf(c)
        /\ c = Date(y, m, x) /\ MonthStart(c) = Date(y, m, 1)
  <2>1. MonthStart(c) = Date(YearOf(c), MonthOf(c), 1)
    BY MonthOfDay
  <2> QED
    BY <2>1, PartsOf
<1>2. PICK n \in Nat, e \in Nat, k \in Nat, s \in Nat :
        n = c /\ e = d /\ k = MonthEnd(c) /\ s = MonthStart(d) /\ n <= k /\ s <= e
  <2>1. c <= MonthEnd(c) /\ IsDay(MonthEnd(c)) /\ MonthStart(d) <= d
    BY MonthOfDay, EndOfMonth
  <2>2. IsDay(MonthStart(d))
    BY MonthIndexIs, FirstOfIs
  <2> QED
    BY <2>1, <2>2 DEF IsDay
<1>3. PICK i \in Nat, j \in Nat : i = MonthIndex(c) /\ j = MonthIndex(d)
  BY MonthIndexIs
<1>4. CASE i < j
  <2>1. NextDay(c) <= d /\ NextDay(c) \in Nat
    BY <1>3, <1>4, DayAfter
  <2>2. k < s
    BY <1>2, <1>3, <1>4, MonthsInOrder
  <2> QED
    BY <1>2, <2>1, <2>2
<1>5. CASE j <= i
  <2>1. e <= k
    BY <1>2, <1>3, <1>5, MonthsInOrder
  <2>2. CASE n < k
    <3>1. NextDay(c) = n + 1
      BY <1>2, <2>2 DEF NextDay
    <3> QED
      BY <1>2, <3>1
  <2>3. CASE n = k
    <3>1. NextDay(c) \in Nat /\ NextDay(c) > n
      <4>1. ~(c < MonthEnd(c))
        <5>1. c = MonthEnd(c) /\ c \in Nat
          BY <1>2, <2>3
        <5> QED
          BY <5>1
      <4>2. NextDay(c) = IF m = 12 THEN Date(y + 1, 1, 1) ELSE Date(y, m, 1) + 100
        BY <1>1, <4>1 DEF NextDay
      <4> QED
        BY <1>1, <1>2, <4>2 DEF Date
    <3>2. PICK q \in Nat : q = NextDay(c) /\ q > n
      BY <3>1
    <3>3. e < q /\ e <= n
      BY <2>1, <2>3, <3>2
    <3> QED
      BY <1>2, <3>2, <3>3
  <2> QED
    BY <1>2, <2>2, <2>3
<1> QED
  BY <1>4, <1>5

\* The same day in another month, or the last day of that month.
LEMMA ClampedDay ==
  ASSUME NEW i \in Nat, NEW x \in 1..31,
         NEW s, s = Earlier(FirstOf(i) + x - 1, MonthEnd(FirstOf(i)))
  PROVE  /\ IsDay(s) /\ MonthIndex(s) = i
         /\ DayOf(MonthEnd(s)) \in 28..31
         /\ DayOf(s) = Earlier(x, DayOf(MonthEnd(s)))
<1>1. PICK f : f = FirstOf(i)
  OBVIOUS
<1>2. /\ IsDay(f) /\ MonthIndex(f) = i /\ MonthStart(f) = f /\ YearOf(f) \in Nat \ {0}
      /\ MonthOf(f) \in 1..12
  BY <1>1, FirstOfIs DEF IsDay
<1>3. PICK y \in Nat \ {0}, m \in 1..12 : y = YearOf(f) /\ m = MonthOf(f) /\ f = Date(y, m, 1)
  BY <1>2, MonthOfDay
<1>4. PICK e \in 28..31 : e = DaysIn(y, m) /\ MonthEnd(f) = Date(y, m, e)
  BY <1>2, <1>3, MonthLength, MonthOfDay
<1>5. PICK z \in 1..31 : z = Earlier(x, e) /\ z <= e /\ s = Date(y, m, z)
  <2>1. CASE x <= e
    BY <1>1, <1>3, <1>4, <2>1 DEF Earlier, Date
  <2>2. CASE x > e
    <3>1. s = Date(y, m, e) /\ e = Earlier(x, e)
      BY <1>1, <1>3, <1>4, <2>2 DEF Earlier, Date
    <3>2. e \in 1..31
      OBVIOUS
    <3> QED
      BY <3>1, <3>2
  <2> QED
    BY <2>1, <2>2
<1>6. /\ s \in Nat /\ YearOf(s) = y /\ MonthOf(s) = m /\ DayOf(s) = z
      /\ DayOf(MonthEnd(f)) = e
  <2>1. y \in Nat /\ e \in 1..31
    OBVIOUS
  <2>2. /\ Date(y, m, z) \in Nat /\ YearOf(Date(y, m, z)) = y
        /\ MonthOf(Date(y, m, z)) = m /\ DayOf(Date(y, m, z)) = z
    BY <2>1, DateParts
  <2>3. DayOf(Date(y, m, e)) = e
    BY <2>1, DateParts
  <2> QED
    BY <1>4, <1>5, <2>2, <2>3
<1>7. IsDay(s) /\ MonthIndex(s) = i
  <2>1. MonthIndex(f) = (y - 1) * 12 + m - 1
    BY <1>3 DEF MonthIndex
  <2> QED
    BY <1>2, <1>4, <1>5, <1>6, <2>1 DEF IsDay, MonthIndex
<1>8. MonthEnd(s) = MonthEnd(f)
  BY <1>1, <1>7, DayInMonth
<1> QED
  BY <1>4, <1>5, <1>6, <1>7, <1>8

LEMMA RollingStartIs ==
  ASSUME AfterFirstYear, NEW d \in Days, NEW n \in 1..60
  PROVE  RollingStart(d, n) <= d /\ RollingStart(d, n) \in Nat
<1>1. IsDay(d) /\ YearOf(d) > 1 /\ MonthIndex(d) \in Nat /\ MonthIndex(d) >= 12 /\ d \in Nat
  BY LaterDays DEF IsDay
<1>2. PICK i \in Nat : i = IF MonthIndex(d) + (-n) < 0 THEN 0 ELSE MonthIndex(d) + (-n)
  BY <1>1
<1>3. i < MonthIndex(d)
  BY <1>1, <1>2
<1>4. PICK s : s = ShiftClamped(d, -n)
  OBVIOUS
<1>5. s = Earlier(FirstOf(i) + DayOf(d) - 1, MonthEnd(FirstOf(i)))
  BY <1>2, <1>4 DEF ShiftClamped
<1>6. DayOf(d) \in 1..31
  BY <1>1, PartsOf
<1>7. IsDay(s) /\ MonthIndex(s) = i
  BY <1>5, <1>6, ClampedDay
<1>8. NextDay(s) <= d /\ NextDay(s) \in Nat
  BY <1>1, <1>3, <1>7, DayAfter
<1>9. FirstDay <= d
  BY <1>1, PartsOf DEF FirstDay, Date
<1> QED
  BY <1>4, <1>8, <1>9 DEF RollingStart, FirstDay

LEMMA PeriodIsOrdered ==
  ASSUME AfterFirstYear, NEW reference \in Days, NEW key \in PeriodKeys, NEW month,
         month \in IF key = "month" THEN {m \in Months : m <= reference}
                   ELSE {MonthStart(reference)}
  PROVE  Period(key, month, reference).start <= Period(key, month, reference).end
<1>1. IsDay(reference) /\ reference \in Nat /\ MonthStart(reference) <= reference
  BY LaterDays, MonthOfDay DEF IsDay
<1>2. CASE key = "month"
  <2>1. PICK d \in Days : month = MonthStart(d) /\ month <= reference
    BY <1>2 DEF Months
  <2>2. PICK i \in Nat : i = MonthIndex(d) /\ month = FirstOf(i)
    BY <2>1, LaterDays, MonthIndexIs
  <2>3. month \in Nat /\ MonthEnd(month) \in (month + 27)..(month + 30)
    BY <2>2, FirstOfIs DEF IsDay
  <2>4. month <= Earlier(MonthEnd(month), reference)
    BY <2>1, <2>3 DEF Earlier
  <2> QED
    BY <1>2, <2>4 DEF Period, PeriodStart, PeriodEnd
<1>3. CASE key = "year_to_date"
  <2>1. Date(YearOf(reference), 1, 1) <= reference
    BY <1>1, PartsOf DEF Date
  <2> QED
    BY <1>3, <2>1 DEF Period, PeriodStart, PeriodEnd
<1>4. CASE key \notin {"month", "year_to_date"}
  <2>1. \A n \in {6, 12, 36, 60} : RollingStart(reference, n) <= reference
    BY RollingStartIs
  <2> QED
    BY <1>4, <2>1 DEF Period, PeriodStart, PeriodEnd, PeriodKeys
<1> QED
  BY <1>2, <1>3, <1>4

LEMMA PeriodEnds ==
  ASSUME NEW reference \in Days, NEW key \in PeriodKeys, NEW month,
         month \in IF key = "month" THEN {m \in Months : m <= reference}
                   ELSE {MonthStart(reference)}
  PROVE  IsDay(Period(key, month, reference).end)
<1>1. \A d \in Days : IsDay(d) /\ IsDay(MonthStart(d)) /\ IsDay(MonthEnd(MonthStart(d)))
  <2> SUFFICES ASSUME NEW d \in Days
               PROVE  IsDay(d) /\ IsDay(MonthStart(d)) /\ IsDay(MonthEnd(MonthStart(d)))
    OBVIOUS
  <2>1. IsDay(d)
    BY FinancesAssumption, DateIsDay
  <2>2. IsDay(MonthStart(d))
    BY <2>1, MonthIndexIs, FirstOfIs
  <2> QED
    BY <2>1, <2>2, EndOfMonth
<1>2. key = "month" => IsDay(MonthEnd(month))
  BY <1>1 DEF Months
<1> QED
  BY <1>1, <1>2 DEF Period, PeriodEnd, Earlier

Counted(period) ==
  {t \in Within(period.start, period.end) : Amount(t) < 0 /\ IsSpending(t)}

LEMMA CountedRows ==
  ASSUME NEW period
  PROVE  Counted(period) \in SUBSET Rows
BY DEF Counted, Within

\* The search asks of a row's category with two conditions what the breakdown
\* decides in one pass, and of its label with two columns.
LEMMA ConditionsAgree ==
  ASSUME FactsInv, NEW t \in Rows
  PROVE  /\ HasSpendingCategory(t) <=> IsSpending(t)
         /\ HasTransferCategory(t) <=> KindOf(t) = "transfer"
         /\ \A name : IsNamed(t, name) <=> Label(t) = name
<1>1. ledger[t].category \in DOMAIN Kind \cup {NoCategory} /\ NoCategory \notin DOMAIN Kind
  BY RowsTyped, FinancesAssumption
<1>2. CASE ledger[t].category = NoCategory
  <2>1. KindOf(t) = "unknown"
    BY <1>2 DEF KindOf, NoKind
  <2> QED
    BY <1>1, <1>2, <2>1
       DEF HasSpendingCategory, HasTransferCategory, IsSpending, IsNamed, Label
<1>3. CASE ledger[t].category \in DOMAIN Kind
  <2>1. KindOf(t) = Kind[ledger[t].category]
    BY <1>1, <1>3 DEF KindOf
  <2> QED
    BY <1>3, <2>1
       DEF HasSpendingCategory, HasTransferCategory, IsSpending, IsNamed, Label
<1> QED
  BY <1>1, <1>2, <1>3

LEMMA SpendingIs ==
  ASSUME FactsInv, NEW t \in Rows
  PROVE  IsSpending(t) <=> ledger[t].category \in Budgetable
BY ConditionsAgree DEF HasSpendingCategory, Budgetable

LEMMA CountedIs ==
  ASSUME FactsInv, NEW period
  PROVE  LET outgoing == {t \in Within(period.start, period.end) :
                            Amount(t) < 0 /\ KindOf(t) # "transfer"}
             counted == {t \in outgoing : IsSpending(t)}
         IN /\ counted = Counted(period)
            /\ outgoing \ counted =
                 {t \in Within(period.start, period.end) : NeedsReview(t)}
<1>1. \A t \in Within(period.start, period.end) :
        /\ IsSpending(t) => KindOf(t) # "transfer"
        /\ NeedsReview(t) <=> Amount(t) < 0 /\ ~IsSpending(t) /\ KindOf(t) # "transfer"
  BY ConditionsAgree DEF NeedsReview, IsSpending, Within
<1> QED
  BY <1>1 DEF Counted

LEMMA ReportTotal ==
  ASSUME FactsInv, NEW period
  PROVE  /\ Report(period).total.cents = Spent(Counted(period))
         /\ Report(period).total.count = Cardinality(Counted(period))
BY CountedIs DEF Report

LEMMA ReportReview ==
  ASSUME FactsInv, NEW period
  PROVE  Report(period).review =
           Cardinality({t \in Within(period.start, period.end) : NeedsReview(t)})
BY CountedIs DEF Report

LEMMA ReportCategories ==
  ASSUME FactsInv, NEW period
  PROVE  Report(period).categories =
           [c \in {ledger[t].category : t \in Counted(period)} |->
              LET rows == {t \in Counted(period) : ledger[t].category = c}
              IN [cents |-> Spent(rows), count |-> Cardinality(rows)]]
BY CountedIs DEF Report

LEMMA ReportMerchants ==
  ASSUME FactsInv, NEW period
  PROVE  Report(period).merchants =
           [m \in {Label(t) : t \in Counted(period)} |->
              LET rows == {t \in Counted(period) : Label(t) = m}
              IN [cents |-> Spent(rows), count |-> Cardinality(rows)]]
BY CountedIs DEF Report

\* What the links of the breakdown open, when the search answers.
LEMMA SearchDates ==
  ASSUME FactsInv, NEW period, IsDay(period.end), NEW t \in Rows
  PROVE  t \in Within(period.start, period.end) <=>
           period.start <= ledger[t].date /\ ledger[t].date < NextDay(period.end)
BY RowsTyped, ThroughDay DEF Within

LEMMA SearchAll ==
  ASSUME FactsInv, NEW period, IsDay(period.end)
  PROVE  Search(period, NoFilter, NoFilter, FALSE).rows = Counted(period)
<1>1. Within(period.start, period.end) \subseteq Rows
  BY DEF Within
<1> QED
  BY <1>1, SearchDates, ConditionsAgree DEF Search, Counted

LEMMA SearchReview ==
  ASSUME FactsInv, NEW period, IsDay(period.end)
  PROVE  Search(period, NoFilter, NoFilter, TRUE).rows =
           {t \in Within(period.start, period.end) : NeedsReview(t)}
<1>1. Within(period.start, period.end) \subseteq Rows
  BY DEF Within
<1> QED
  BY <1>1, SearchDates DEF Search

LEMMA SearchCategory ==
  ASSUME FactsInv, NEW period, IsDay(period.end), NEW c, c # NoFilter
  PROVE  Search(period, c, NoFilter, FALSE).rows =
           {t \in Counted(period) : ledger[t].category = c}
<1>1. Within(period.start, period.end) \subseteq Rows
  BY DEF Within
<1> QED
  BY <1>1, SearchDates, ConditionsAgree DEF Search, Counted

LEMMA SearchMerchant ==
  ASSUME FactsInv, NEW period, IsDay(period.end), NEW m, m # NoFilter
  PROVE  Search(period, NoFilter, m, FALSE).rows =
           {t \in Counted(period) : Label(t) = m}
<1>1. Within(period.start, period.end) \subseteq Rows
  BY DEF Within
<1> QED
  BY <1>1, SearchDates, ConditionsAgree DEF Search, Counted

LEMMA NamesAreNoFilter ==
  ASSUME FactsInv, NEW t \in Rows
  PROVE  ledger[t].category # NoFilter /\ Label(t) # NoFilter
<1>1. NoFilter # NoCategory
  BY DEF NoFilter, NoCategory
<1> QED
  BY <1>1, RowsTyped, FinancesAssumption DEF Label

\* The lines of the categories add up to the total.
LEMMA CategoriesAddUp ==
  ASSUME FactsInv, NEW period
  PROVE  Report(period).total.cents =
           SumFunction([c \in DOMAIN Report(period).categories |->
                          Report(period).categories[c].cents])
<1>1. PICK K : K = {ledger[t].category : t \in Counted(period)}
  OBVIOUS
<1>2. PICK part : part = [c \in K |-> {t \in Counted(period) : ledger[t].category = c}]
  OBVIOUS
<1>3. PICK w : w = [c \in K |-> Report(period).categories[c].cents]
  OBVIOUS
<1>4. Counted(period) \in SUBSET Rows
  BY CountedRows
<1>5. IsFiniteSet(K)
  <2>1. PICK f : f = [t \in Counted(period) |-> ledger[t].category]
    OBVIOUS
  <2>2. K = {f[t] : t \in Counted(period)}
    BY <1>1, <2>1
  <2>3. IsFiniteSet(Counted(period))
    BY <1>4, SpentIs
  <2> QED
    BY <2>2, <2>3, ImageIsFinite
<1>6. /\ DOMAIN Report(period).categories = K
      /\ \A c \in K : w[c] = Spent(part[c])
  <2>1. Report(period).categories =
          [c \in K |->
             LET rows == {t \in Counted(period) : ledger[t].category = c}
             IN [cents |-> Spent(rows), count |-> Cardinality(rows)]]
    BY <1>1, ReportCategories
  <2> QED
    BY <1>2, <1>3, <2>1
<1>7. /\ \A c \in K : part[c] \subseteq Rows
      /\ \A c, e \in K : c # e => part[c] \cap part[e] = {}
  BY <1>2, <1>4
<1>8. Spent(UNION {part[c] : c \in K}) = SumFunctionOnSet(w, K)
  <2>1. \A c \in K : w[c] = Spent(part[c])
    BY <1>6
  <2> QED
    BY <1>5, <1>7, <2>1, SpentParts
<1>9. UNION {part[c] : c \in K} = Counted(period)
  <2>1. \A c \in K : part[c] = {t \in Counted(period) : ledger[t].category = c}
    BY <1>2
  <2>2. \A t \in Counted(period) : ledger[t].category \in K /\ t \in part[ledger[t].category]
    BY <1>1, <2>1
  <2> QED
    BY <2>1, <2>2
<1>10. Report(period).total.cents = Spent(Counted(period))
  BY ReportTotal
<1>11. /\ w = [c \in DOMAIN Report(period).categories |-> Report(period).categories[c].cents]
       /\ DOMAIN w = K
  BY <1>3, <1>6
<1> QED
  BY <1>8, <1>9, <1>10, <1>11 DEF SumFunction

LEMMA LinksAgree ==
  ASSUME FactsInv, AfterFirstYear
  PROVE  DrillDownAgrees
<1> SUFFICES ASSUME NEW reference \in Days, NEW key \in PeriodKeys,
                    NEW month \in IF key = "month" THEN {m \in Months : m <= reference}
                                  ELSE {MonthStart(reference)}
             PROVE  LET period == Period(key, month, reference)
                        report == Report(period)
                        Agrees(line, found) ==
                          found.answered =>
                            line.count = Cardinality(found.rows) /\ line.cents = Spent(found.rows)
                        review == Search(period, NoFilter, NoFilter, TRUE)
                    IN /\ period.start <= period.end
                       /\ Agrees(report.total, Search(period, NoFilter, NoFilter, FALSE))
                       /\ \A c \in DOMAIN report.categories :
                            Agrees(report.categories[c], Search(period, c, NoFilter, FALSE))
                       /\ \A m \in DOMAIN report.merchants :
                            Agrees(report.merchants[m], Search(period, NoFilter, m, FALSE))
                       /\ review.answered => report.review = Cardinality(review.rows)
                       /\ report.total.cents =
                            SumOf(DOMAIN report.categories, LAMBDA c : report.categories[c].cents)
  BY DEF DrillDownAgrees
<1> DEFINE p == Period(key, month, reference)
<1>2. p.start <= p.end /\ IsDay(p.end)
  BY PeriodIsOrdered, PeriodEnds
<1> HIDE DEF p
<1>3. Counted(p) \in SUBSET Rows
  BY CountedRows
<1>4. /\ Report(p).total.count = Cardinality(Search(p, NoFilter, NoFilter, FALSE).rows)
      /\ Report(p).total.cents = Spent(Search(p, NoFilter, NoFilter, FALSE).rows)
      /\ Report(p).review = Cardinality(Search(p, NoFilter, NoFilter, TRUE).rows)
  BY <1>2, SearchAll, SearchReview, ReportTotal, ReportReview
<1>5. ASSUME NEW c \in DOMAIN Report(p).categories
      PROVE  /\ Report(p).categories[c].count = Cardinality(Search(p, c, NoFilter, FALSE).rows)
             /\ Report(p).categories[c].cents = Spent(Search(p, c, NoFilter, FALSE).rows)
  <2>1. PICK s : s = {t \in Counted(p) : ledger[t].category = c}
    OBVIOUS
  <2>2. /\ c \in {ledger[t].category : t \in Counted(p)}
        /\ Report(p).categories[c] = [cents |-> Spent(s), count |-> Cardinality(s)]
    <3>1. Report(p).categories =
            [k \in {ledger[t].category : t \in Counted(p)} |->
               LET rows == {t \in Counted(p) : ledger[t].category = k}
               IN [cents |-> Spent(rows), count |-> Cardinality(rows)]]
      BY ReportCategories
    <3> QED
      BY <2>1, <3>1
  <2>3. c # NoFilter
    BY <1>3, <2>2, NamesAreNoFilter
  <2>4. Search(p, c, NoFilter, FALSE).rows = s
    <3>1. Search(p, c, NoFilter, FALSE).rows = {t \in Counted(p) : ledger[t].category = c}
      BY <1>2, <2>3, SearchCategory
    <3> QED
      BY <2>1, <3>1
  <2>5. /\ Report(p).categories[c].count = Cardinality(s)
        /\ Report(p).categories[c].cents = Spent(s)
    BY <2>2
  <2> QED
    BY <2>4, <2>5, Zenon
<1>6. ASSUME NEW m \in DOMAIN Report(p).merchants
      PROVE  /\ Report(p).merchants[m].count = Cardinality(Search(p, NoFilter, m, FALSE).rows)
             /\ Report(p).merchants[m].cents = Spent(Search(p, NoFilter, m, FALSE).rows)
  <2>1. PICK s : s = {t \in Counted(p) : Label(t) = m}
    OBVIOUS
  <2>2. /\ m \in {Label(t) : t \in Counted(p)}
        /\ Report(p).merchants[m] = [cents |-> Spent(s), count |-> Cardinality(s)]
    <3>1. Report(p).merchants =
            [k \in {Label(t) : t \in Counted(p)} |->
               LET rows == {t \in Counted(p) : Label(t) = k}
               IN [cents |-> Spent(rows), count |-> Cardinality(rows)]]
      BY ReportMerchants
    <3> QED
      BY <2>1, <3>1
  <2>3. m # NoFilter
    BY <1>3, <2>2, NamesAreNoFilter
  <2>4. Search(p, NoFilter, m, FALSE).rows = s
    <3>1. Search(p, NoFilter, m, FALSE).rows = {t \in Counted(p) : Label(t) = m}
      BY <1>2, <2>3, SearchMerchant
    <3> QED
      BY <2>1, <3>1
  <2>5. /\ Report(p).merchants[m].count = Cardinality(s)
        /\ Report(p).merchants[m].cents = Spent(s)
    BY <2>2
  <2> QED
    BY <2>4, <2>5, Zenon
<1>7. Report(p).total.cents =
        SumOf(DOMAIN Report(p).categories, LAMBDA c : Report(p).categories[c].cents)
  BY CategoriesAddUp DEF SumOf
<1> QED
  BY <1>2, <1>4, <1>5, <1>6, <1>7, Zenon DEF p

\* Where the search answers, every number of the breakdown is that of the
\* transactions its link opens (build_spending_report and list_transactions,
\* whose conditions are written differently): for every period of the page that
\* begins after the first year, and for rows with and without a category or a
\* merchant.  Nothing is said of a period that ends with the calendar.
THEOREM LinksOpenWhatIsShown ==
  ASSUME AfterFirstYear
  PROVE  Spec => []DrillDownAgrees
<1>1. FactsInv => DrillDownAgrees
  BY LinksAgree
<1> QED
  BY <1>1, FactsInit, FactsStep, PTL DEF Spec

-----------------------------------------------------------------------------
(* Budgets.                                                                *)

\* The rows of a month are those between its first and its last day.
LEMMA MonthRows ==
  ASSUME FactsInv, NEW i \in Nat, NEW t \in Rows
  PROVE  t \in Within(FirstOf(i), MonthEnd(FirstOf(i))) <=> MonthStart(ledger[t].date) = FirstOf(i)
<1>1. PICK d \in Nat : d = ledger[t].date /\ IsDay(d)
  <2>1. IsDay(ledger[t].date)
    BY RowsTyped
  <2> QED
    BY <2>1 DEF IsDay
<1>2. PICK f \in Nat : f = FirstOf(i) /\ IsDay(f) /\ MonthIndex(f) = i /\ MonthStart(f) = f
  <2>1. IsDay(FirstOf(i)) /\ MonthIndex(FirstOf(i)) = i /\ MonthStart(FirstOf(i)) = FirstOf(i)
    BY FirstOfIs
  <2> QED
    BY <2>1 DEF IsDay
<1>3. PICK j \in Nat : j = MonthIndex(d)
  BY <1>1, MonthIndexIs
<1>4. PICK s \in Nat, e \in Nat, z \in Nat : s = MonthStart(d) /\ e = MonthEnd(d) /\ z = MonthEnd(f)
  <2>1. IsDay(MonthEnd(d)) /\ IsDay(MonthEnd(f)) /\ IsDay(FirstOf(j)) /\ FirstOf(j) = MonthStart(d)
    BY <1>1, <1>2, <1>3, EndOfMonth, FirstOfIs, MonthIndexIs
  <2> QED
    BY <2>1 DEF IsDay
<1>5. s <= d /\ d <= e
  BY <1>1, <1>4, MonthOfDay
<1>6. j < i => e < f
  BY <1>1, <1>2, <1>3, <1>4, MonthsInOrder
<1>7. i < j => z < s
  BY <1>1, <1>2, <1>3, <1>4, MonthsInOrder
<1>8. i = j => s = f /\ e = z
  BY <1>1, <1>2, <1>3, <1>4, DayInMonth, MonthIndexIs
<1>9. (f <= d /\ d <= z) <=> s = f
  <2>1. CASE i = j
    BY <1>5, <1>8, <2>1
  <2>2. CASE j < i
    BY <1>5, <1>6, <2>2
  <2>3. CASE i < j
    <3>1. f <= z
      BY <1>2, <1>4, MonthOfDay
    <3> QED
      BY <1>5, <1>7, <2>3, <3>1
  <2> QED
    BY <2>1, <2>2, <2>3
<1> QED
  BY <1>1, <1>2, <1>4, <1>9 DEF Within

CategoryRows(c, m) ==
  {t \in Rows : /\ ledger[t].category = c /\ Amount(t) < 0
                /\ MonthStart(ledger[t].date) = m}

MonthPeriod(m) == Period("month", m, MonthEnd(m))

LEMMA MonthPeriodIs ==
  ASSUME NEW i \in Nat
  PROVE  /\ MonthPeriod(FirstOf(i)).start = FirstOf(i)
         /\ MonthPeriod(FirstOf(i)).end = MonthEnd(FirstOf(i))
BY DEF MonthPeriod, Period, PeriodStart, PeriodEnd, Earlier

LEMMA MonthCounted ==
  ASSUME FactsInv, NEW i \in Nat, NEW c \in Budgetable
  PROVE  {t \in Counted(MonthPeriod(FirstOf(i))) : ledger[t].category = c}
           = CategoryRows(c, FirstOf(i))
<1>1. PICK p : p = MonthPeriod(FirstOf(i))
  OBVIOUS
<1>2. p.start = FirstOf(i) /\ p.end = MonthEnd(FirstOf(i))
  BY <1>1, MonthPeriodIs
<1>4. Within(p.start, p.end) \subseteq Rows
  BY DEF Within
<1>5. \A t \in Rows : t \in Within(p.start, p.end) <=> MonthStart(ledger[t].date) = FirstOf(i)
  BY <1>2, MonthRows
<1>6. {t \in Counted(p) : ledger[t].category = c} = CategoryRows(c, FirstOf(i))
  BY <1>4, <1>5, SpendingIs DEF Counted, CategoryRows
<1> QED
  BY <1>1, <1>6

LEMMA ShownIs ==
  ASSUME FactsInv, NEW i \in Nat
  PROVE  LET shown == Report(MonthPeriod(FirstOf(i))).categories
         IN /\ DOMAIN shown \subseteq Budgetable
            /\ \A c \in Budgetable :
                 /\ SpentIn(c, FirstOf(i)) \in Int
                 /\ c \in DOMAIN shown <=> SpentIn(c, FirstOf(i)) > 0
                 /\ (IF c \in DOMAIN shown THEN shown[c].cents ELSE 0) = SpentIn(c, FirstOf(i))
<1>1. PICK p : p = MonthPeriod(FirstOf(i))
  OBVIOUS
<1>2. PICK K : K = {ledger[t].category : t \in Counted(p)}
  OBVIOUS
<1>3. DOMAIN Report(p).categories = K
  BY <1>2, ReportCategories
<1>4. K \subseteq Budgetable
  <2>1. Counted(p) \in SUBSET Rows /\ \A t \in Counted(p) : IsSpending(t)
    BY CountedRows DEF Counted
  <2>2. \A t \in Counted(p) : ledger[t].category \in Budgetable
    BY <2>1, SpendingIs
  <2> QED
    BY <1>2, <2>2
<1>5. ASSUME NEW c \in Budgetable
      PROVE  /\ SpentIn(c, FirstOf(i)) \in Int
             /\ c \in K <=> SpentIn(c, FirstOf(i)) > 0
             /\ (IF c \in K THEN Report(p).categories[c].cents ELSE 0) = SpentIn(c, FirstOf(i))
  <2>1. PICK s : s = CategoryRows(c, FirstOf(i))
    OBVIOUS
  <2>2. {t \in Counted(p) : ledger[t].category = c} = s
    BY <1>1, <2>1, MonthCounted
  <2>3. s \in SUBSET Rows /\ \A t \in s : Amount(t) < 0
    BY <2>1 DEF CategoryRows
  <2>4. SpentIn(c, FirstOf(i)) = Spent(s)
    BY <2>1 DEF SpentIn, CategoryRows
  <2>5. c \in K <=> s # {}
    BY <1>2, <2>2
  <2>6. Spent(s) \in Int /\ (s # {} => Spent(s) > 0)
    BY <2>3, SpentIs, SpentIsPositive
  <2>7. s = {} => Spent(s) = 0
    BY NothingSpent
  <2>8. c \in K => Report(p).categories[c].cents = Spent(s)
    <3>1. Report(p).categories =
            [k \in K |->
               LET rows == {t \in Counted(p) : ledger[t].category = k}
               IN [cents |-> Spent(rows), count |-> Cardinality(rows)]]
      BY <1>2, ReportCategories
    <3> QED
      BY <2>2, <3>1
  <2> QED
    BY <2>4, <2>5, <2>6, <2>7, <2>8
<1> QED
  BY <1>1, <1>3, <1>4, <1>5

LEMMA MonthIs ==
  ASSUME AfterFirstYear, NEW month \in Months
  PROVE  \E i \in Nat : i >= 12 /\ month = FirstOf(i) /\ MonthIndex(month) = i
<1>1. PICK d \in Days : month = MonthStart(d)
  BY DEF Months
<1>2. PICK i \in Nat : i = MonthIndex(d) /\ i >= 12
  BY LaterDays
<1>3. month = FirstOf(i)
  BY <1>1, <1>2, LaterDays, MonthIndexIs
<1> QED
  BY <1>2, <1>3, FirstOfIs

Before(month) ==
  {m \in {MonthStart(ledger[t].date) : t \in Rows} : MonthsThrough(m, month) \in 2..4}

\* The months before are months of the page.
LEMMA BeforeIs ==
  ASSUME FactsInv, NEW i \in Nat, i >= 12
  PROVE  /\ SourceMonths(FirstOf(i)) = <<FirstOf(i - 3), FirstOf(i - 2), FirstOf(i - 1)>>
         /\ Before(FirstOf(i)) = {m \in {MonthStart(ledger[t].date) : t \in Rows} :
                                     m \in {FirstOf(i - k) : k \in 1..3}}
<1>1. MonthIndex(FirstOf(i)) = i
  BY FirstOfIs
<1>2. SourceMonths(FirstOf(i)) = <<FirstOf(i - 3), FirstOf(i - 2), FirstOf(i - 1)>>
  <2>1. i + (-3) = i - 3 /\ i + (-2) = i - 2 /\ i + (-1) = i - 1
    OBVIOUS
  <2> QED
    BY <1>1, <2>1 DEF SourceMonths, ShiftMonth
<1>3. ASSUME NEW t \in Rows
      PROVE  MonthsThrough(MonthStart(ledger[t].date), FirstOf(i)) \in 2..4
               <=> MonthStart(ledger[t].date) \in {FirstOf(i - k) : k \in 1..3}
  <2>1. IsDay(ledger[t].date)
    BY RowsTyped
  <2>2. PICK j \in Nat : j = MonthIndex(ledger[t].date) /\ FirstOf(j) = MonthStart(ledger[t].date)
    BY <2>1, MonthIndexIs
  <2>3. MonthIndex(FirstOf(j)) = j
    BY FirstOfIs
  <2>4. MonthsThrough(FirstOf(j), FirstOf(i)) = i - j + 1
    BY <1>1, <2>3 DEF MonthsThrough
  <2>5. ASSUME NEW k \in 1..3, FirstOf(j) = FirstOf(i - k)
        PROVE  j = i - k
    <3>1. i - k \in Nat
      OBVIOUS
    <3>2. MonthIndex(FirstOf(i - k)) = i - k
      BY <3>1, FirstOfIs
    <3> QED
      BY <2>3, <2>5, <3>2
  <2>6. i - j + 1 \in 2..4 => j = i - (i - j) /\ (i - j) \in 1..3
    OBVIOUS
  <2>7. ASSUME i - j + 1 \in 2..4
        PROVE  \E k \in 1..3 : FirstOf(j) = FirstOf(i - k)
    <3>1. PICK k \in 1..3 : k = i - j
      BY <2>7
    <3>2. i - k = j
      BY <3>1
    <3> QED
      BY <3>2
  <2> QED
    BY <2>2, <2>4, <2>5, <2>7
<1> QED
  BY <1>2, <1>3 DEF Before

LEMMA MonthsAddUp ==
  ASSUME FactsInv, NEW i \in Nat, i >= 12, NEW c \in Budgetable,
         NEW v, \A k \in 1..3 : v[k] = SpentIn(c, SourceMonths(FirstOf(i))[k]),
         NEW w, \A m \in Before(FirstOf(i)) : w[m] = SpentIn(c, m)
  PROVE  SumFunctionOnSet(v, 1..3) = SumFunctionOnSet(w, Before(FirstOf(i)))
<1>1. PICK M : M = SourceMonths(FirstOf(i))
  OBVIOUS
<1>2. M[1] = FirstOf(i - 3) /\ M[2] = FirstOf(i - 2) /\ M[3] = FirstOf(i - 1)
  BY <1>1, BeforeIs
<1>3. \A k, l \in 1..3 : k # l => M[k] # M[l]
  <2>1. i - 3 \in Nat /\ i - 2 \in Nat /\ i - 1 \in Nat
    OBVIOUS
  <2>2. /\ MonthIndex(FirstOf(i - 3)) = i - 3 /\ MonthIndex(FirstOf(i - 2)) = i - 2
        /\ MonthIndex(FirstOf(i - 1)) = i - 1
    <3>1. \A j \in Nat : MonthIndex(FirstOf(j)) = j
      BY FirstOfIs
    <3> QED
      BY <2>1, <3>1
  <2>3. M[1] # M[2] /\ M[1] # M[3] /\ M[2] # M[3]
    BY <1>2, <2>2
  <2> QED
    BY <2>3
<1>4. PICK B : B = Before(FirstOf(i))
  OBVIOUS
<1>5. PICK D : D = {MonthStart(ledger[t].date) : t \in Rows}
  OBVIOUS
<1>6. IsFiniteSet(B) /\ B = {m \in D : m \in {M[1], M[2], M[3]}}
  <2>1. PICK f : f = [t \in Rows |-> MonthStart(ledger[t].date)]
    OBVIOUS
  <2>2. D = {f[t] : t \in Rows}
    BY <1>5, <2>1
  <2>3. IsFiniteSet(D)
    BY <2>2, RowsTyped, ImageIsFinite
  <2>4. {FirstOf(i - k) : k \in 1..3} = {M[1], M[2], M[3]}
    BY <1>2
  <2>5. B = {m \in D : m \in {M[1], M[2], M[3]}}
    BY <1>4, <1>5, <2>4, BeforeIs
  <2> QED
    BY <2>3, <2>5, FS_Subset
<1>7. PICK part : part = [k \in 1..3 |-> CategoryRows(c, M[k])]
  OBVIOUS
<1>8. PICK pile : pile = [m \in B |-> CategoryRows(c, m)]
  OBVIOUS
<1>9. Spent(UNION {part[k] : k \in 1..3}) = SumFunctionOnSet(v, 1..3)
  <2>1. \A k \in 1..3 : v[k] = Spent(part[k])
    BY <1>1, <1>7 DEF SpentIn, CategoryRows
  <2>2. \A k \in 1..3 : part[k] \subseteq Rows
    BY <1>7 DEF CategoryRows
  <2>3. \A k, l \in 1..3 : k # l => part[k] \cap part[l] = {}
    BY <1>3, <1>7 DEF CategoryRows
  <2>4. IsFiniteSet(1..3)
    BY FS_Interval, 1 \in Int, 3 \in Int
  <2> QED
    BY <2>1, <2>2, <2>3, <2>4, SpentParts
<1>10. Spent(UNION {pile[m] : m \in B}) = SumFunctionOnSet(w, B)
  <2>1. \A m \in B : w[m] = Spent(pile[m])
    BY <1>4, <1>8 DEF SpentIn, CategoryRows
  <2>2. \A m \in B : pile[m] \subseteq Rows
    BY <1>8 DEF CategoryRows
  <2>3. \A m, n \in B : m # n => pile[m] \cap pile[n] = {}
    BY <1>8 DEF CategoryRows
  <2> QED
    BY <1>6, <2>1, <2>2, <2>3, SpentParts
<1>11. UNION {part[k] : k \in 1..3} = UNION {pile[m] : m \in B}
  <2>1. ASSUME NEW t, t \in UNION {part[k] : k \in 1..3}
        PROVE  t \in UNION {pile[m] : m \in B}
    <3>1. PICK k \in 1..3 : t \in part[k]
      BY <2>1
    <3>2. t \in CategoryRows(c, M[k])
      BY <1>7, <3>1
    <3>3. M[k] \in B
      BY <1>5, <1>6, <3>2 DEF CategoryRows
    <3> QED
      BY <1>8, <3>2, <3>3
  <2>2. ASSUME NEW t, t \in UNION {pile[m] : m \in B}
        PROVE  t \in UNION {part[k] : k \in 1..3}
    <3>1. PICK m \in B : t \in pile[m]
      BY <2>2
    <3>2. PICK k \in 1..3 : m = M[k]
      BY <1>6
    <3> QED
      BY <1>7, <1>8, <3>1, <3>2
  <2> QED
    BY <2>1, <2>2
<1> QED
  BY <1>4, <1>9, <1>10, <1>11

ShownIn(m) == Report(Period("month", m, MonthEnd(m))).categories
CentsIn(c, m) == IF c \in DOMAIN ShownIn(m) THEN ShownIn(m)[c].cents ELSE 0

LEMMA PageAgrees ==
  ASSUME FactsInv, AfterFirstYear, NEW month \in Months
  PROVE  /\ UNION {DOMAIN ShownIn(m) : m \in Before(month)} \subseteq DOMAIN BudgetReport(month).lines
         /\ \A c \in DOMAIN BudgetReport(month).lines :
              /\ BudgetReport(month).lines[c].spent = CentsIn(c, month)
              /\ SumFunction([k \in 1..3 |-> BudgetReport(month).lines[c].monthly[k]])
                   = SumFunction([m \in Before(month) |-> CentsIn(c, m)])
              /\ BudgetReport(month).lines[c].limited =>
                   (BudgetReport(month).lines[c].remaining < 0
                      <=> CentsIn(c, month) > budgets[<<c, month>>])
<1>1. PICK i \in Nat : i >= 12 /\ month = FirstOf(i)
  BY MonthIs
<1>2. PICK M : M = SourceMonths(month) /\ M = <<FirstOf(i - 3), FirstOf(i - 2), FirstOf(i - 1)>>
  BY <1>1, BeforeIs
<1>3. PICK before : before = Before(month)
  OBVIOUS
<1>10. PICK lines : lines = BudgetReport(month).lines
  OBVIOUS
<1>4. \A m \in before : m \in {M[1], M[2], M[3]}
  <2>1. Before(month) = {m \in {MonthStart(ledger[t].date) : t \in Rows} :
                           m \in {FirstOf(i - k) : k \in 1..3}}
    BY <1>1, BeforeIs
  <2> QED
    BY <1>2, <1>3, <2>1
<1>5. \A m \in before \cup {month} : \E j \in Nat : m = FirstOf(j)
  <2>1. i - 3 \in Nat /\ i - 2 \in Nat /\ i - 1 \in Nat
    BY <1>1
  <2> QED
    BY <1>1, <1>2, <1>4, <2>1
<1>6. ASSUME NEW m \in before \cup {month}
      PROVE  /\ DOMAIN ShownIn(m) \subseteq Budgetable
             /\ \A c \in Budgetable :
                  /\ SpentIn(c, m) \in Int
                  /\ c \in DOMAIN ShownIn(m) <=> SpentIn(c, m) > 0
                  /\ CentsIn(c, m) = SpentIn(c, m)
  <2>1. PICK j \in Nat : m = FirstOf(j)
    BY <1>5
  <2>2. ShownIn(m) = Report(MonthPeriod(FirstOf(j))).categories
    BY <2>1 DEF MonthPeriod, ShownIn
  <2> QED
    BY <2>1, <2>2, ShownIs DEF CentsIn
<1>7. /\ DOMAIN lines \subseteq Budgetable
      /\ \A c \in Budgetable : (\E k \in 1..3 : SpentIn(c, M[k]) > 0) => c \in DOMAIN lines
      /\ \A c \in DOMAIN lines :
           /\ lines[c].spent = SpentIn(c, month)
           /\ lines[c].monthly = [k \in 1..3 |-> SpentIn(c, M[k])]
           /\ lines[c].limited => /\ <<c, month>> \in DOMAIN budgets
                                  /\ lines[c].remaining = budgets[<<c, month>>] - SpentIn(c, month)
  BY <1>2, <1>10 DEF BudgetReport
<1>8. UNION {DOMAIN ShownIn(m) : m \in before} \subseteq DOMAIN lines
  <2> SUFFICES ASSUME NEW m \in before, NEW c \in DOMAIN ShownIn(m)
               PROVE  c \in DOMAIN lines
    OBVIOUS
  <2>1. c \in Budgetable /\ SpentIn(c, m) > 0
    <3>1. m \in before \cup {month}
      OBVIOUS
    <3>2. c \in Budgetable
      BY <1>6, <3>1
    <3> QED
      BY <1>6, <3>1, <3>2
  <2>2. \E k \in 1..3 : m = M[k]
    BY <1>4
  <2> QED
    BY <1>7, <2>1, <2>2
<1>9. ASSUME NEW c \in DOMAIN lines
      PROVE  /\ lines[c].spent = CentsIn(c, month)
             /\ SumFunction([k \in 1..3 |-> lines[c].monthly[k]])
                  = SumFunction([m \in before |-> CentsIn(c, m)])
             /\ lines[c].limited =>
                  (lines[c].remaining < 0 <=> CentsIn(c, month) > budgets[<<c, month>>])
  <2>1. c \in Budgetable /\ CentsIn(c, month) = SpentIn(c, month) /\ SpentIn(c, month) \in Int
    <3>1. month \in before \cup {month} /\ c \in Budgetable
      BY <1>7
    <3> QED
      BY <1>6, <3>1
  <2>2. lines[c].spent = CentsIn(c, month)
    BY <1>7, <2>1
  <2>3. SumFunction([k \in 1..3 |-> lines[c].monthly[k]])
          = SumFunction([m \in before |-> CentsIn(c, m)])
    <3>1. PICK v : v = [k \in 1..3 |-> lines[c].monthly[k]]
      OBVIOUS
    <3>2. PICK w : w = [m \in before |-> CentsIn(c, m)]
      OBVIOUS
    <3>3. \A k \in 1..3 : v[k] = SpentIn(c, SourceMonths(FirstOf(i))[k])
      BY <1>1, <1>2, <1>7, <3>1
    <3>4. \A m \in Before(FirstOf(i)) : w[m] = SpentIn(c, m)
      <4>1. \A m \in before : m \in before \cup {month}
        OBVIOUS
      <4>2. \A m \in before : CentsIn(c, m) = SpentIn(c, m)
        BY <1>6, <2>1, <4>1
      <4> QED
        BY <1>1, <1>3, <3>2, <4>2
    <3>5. SumFunctionOnSet(v, 1..3) = SumFunctionOnSet(w, Before(FirstOf(i)))
      BY <1>1, <2>1, <3>3, <3>4, MonthsAddUp
    <3>6. DOMAIN v = 1..3 /\ DOMAIN w = Before(FirstOf(i))
      BY <1>1, <1>3, <3>1, <3>2
    <3> QED
      BY <3>1, <3>2, <3>5, <3>6 DEF SumFunction
  <2>4. ASSUME lines[c].limited
        PROVE  lines[c].remaining < 0 <=> CentsIn(c, month) > budgets[<<c, month>>]
    <3>1. <<c, month>> \in DOMAIN budgets
      BY <1>7, <2>4
    <3>2. PICK b \in Int : b = budgets[<<c, month>>]
      <4>1. budgets[<<c, month>>] \in Limits
        BY <3>1 DEF FactsInv
      <4>2. Limits \subseteq Nat
        BY FinancesAssumption
      <4>3. budgets[<<c, month>>] \in Int
        BY <4>1, <4>2, Nat \subseteq Int, Zenon
      <4> QED
        BY <4>3
    <3>3. lines[c].remaining = b - SpentIn(c, month)
      BY <1>7, <2>4, <3>2
    <3> QED
      BY <2>1, <3>2, <3>3
  <2> QED
    BY <2>2, <2>3, <2>4
<1> QED
  BY <1>3, <1>8, <1>9, <1>10

LEMMA PagesAgree ==
  ASSUME FactsInv, AfterFirstYear
  PROVE  BudgetsMatchSpending
<1> SUFFICES ASSUME NEW month \in Months
             PROVE  LET page == BudgetReport(month)
                        lines == page.lines
                        Shown(m) == Report(Period("month", m, MonthEnd(m))).categories
                        Cents(c, m) == IF c \in DOMAIN Shown(m) THEN Shown(m)[c].cents ELSE 0
                        before == {m \in {MonthStart(ledger[t].date) : t \in Rows} :
                                     MonthsThrough(m, month) \in 2..4}
                    IN page.shown =>
                       /\ UNION {DOMAIN Shown(m) : m \in before} \subseteq DOMAIN lines
                       /\ \A c \in DOMAIN lines :
                            /\ lines[c].spent = Cents(c, month)
                            /\ SumOf(1..3, LAMBDA i : lines[c].monthly[i])
                                 = SumOf(before, LAMBDA m : Cents(c, m))
                            /\ lines[c].limited =>
                                 (lines[c].remaining < 0
                                    <=> Cents(c, month) > budgets[<<c, month>>])
  BY DEF BudgetsMatchSpending
<1> QED
  BY PageAgrees, Zenon DEF SumOf, ShownIn, CentsIn, Before

\* The months of a planning page that is shown are those of the breakdown
\* (build_budget_month_report and build_spending_report), in every state; a
\* month without the one after it in the calendar has no page.
THEOREM BudgetsShowWhatIsSpent ==
  ASSUME AfterFirstYear
  PROVE  Spec => []BudgetsMatchSpending
<1>1. FactsInv => BudgetsMatchSpending
  BY PagesAgree
<1> QED
  BY <1>1, FactsInit, FactsStep, PTL DEF Spec

-----------------------------------------------------------------------------
(* Cash flow.                                                              *)

Income(rows) == {t \in rows : KindOf(t) # "transfer" /\ KindOf(t) = "income" /\ Amount(t) > 0}
Outgo(rows) == {t \in rows : KindOf(t) # "transfer" /\ KindOf(t) = "expense" /\ Amount(t) < 0}
Unclear(rows) ==
  {t \in rows : KindOf(t) # "transfer" /\ t \notin Income(rows) /\ t \notin Outgo(rows)}

LEMMA FlowIs ==
  ASSUME NEW rows
  PROVE  /\ Flow(rows).income = Earned(Income(rows))
         /\ Flow(rows).spending = Spent(Outgo(rows))
         /\ Flow(rows).review = Cardinality(Unclear(rows))
<1> DEFINE kept == {t \in rows : KindOf(t) # "transfer"}
           income == {t \in kept : KindOf(t) = "income" /\ Amount(t) > 0}
           spending == {t \in kept : KindOf(t) = "expense" /\ Amount(t) < 0}
<1>1. income = Income(rows) /\ spending = Outgo(rows)
  BY DEF Income, Outgo
<1>2. kept \ (income \cup spending) = Unclear(rows)
  BY <1>1 DEF Unclear
<1>3. /\ Flow(rows).income = Earned(income) /\ Flow(rows).spending = Spent(spending)
      /\ Flow(rows).review = Cardinality(kept \ (income \cup spending))
  BY DEF Flow
<1> HIDE DEF kept, income, spending
<1> QED
  BY <1>1, <1>2, <1>3

LEMMA FlowParts ==
  ASSUME FactsInv, NEW K, IsFiniteSet(K), NEW part,
         \A k \in K : part[k] \subseteq Rows,
         \A k, l \in K : k # l => part[k] \cap part[l] = {},
         NEW whole, whole = UNION {part[k] : k \in K}
  PROVE  /\ Flow(whole).income = SumFunctionOnSet([k \in K |-> Flow(part[k]).income], K)
         /\ Flow(whole).spending = SumFunctionOnSet([k \in K |-> Flow(part[k]).spending], K)
         /\ Flow(whole).review = SumFunctionOnSet([k \in K |-> Flow(part[k]).review], K)
<1>1. PICK w : w = [k \in K |-> Flow(part[k]).income]
  OBVIOUS
<1>2. PICK x : x = [k \in K |-> Flow(part[k]).spending]
  OBVIOUS
<1>3. PICK y : y = [k \in K |-> Flow(part[k]).review]
  OBVIOUS
<1>4. PICK a : a = [k \in K |-> Income(part[k])]
  OBVIOUS
<1>5. PICK b : b = [k \in K |-> Outgo(part[k])]
  OBVIOUS
<1>6. PICK c : c = [k \in K |-> Unclear(part[k])]
  OBVIOUS
<1>7. \A k \in K : w[k] = Earned(a[k]) /\ x[k] = Spent(b[k]) /\ y[k] = Cardinality(c[k])
  BY <1>1, <1>2, <1>3, <1>4, <1>5, <1>6, FlowIs
<1>8. \A k \in K : a[k] \subseteq part[k] /\ b[k] \subseteq part[k] /\ c[k] \subseteq part[k]
  BY <1>4, <1>5, <1>6 DEF Income, Outgo, Unclear
<1>9. /\ \A k \in K : a[k] \subseteq Rows /\ b[k] \subseteq Rows /\ c[k] \subseteq Rows
      /\ \A k, l \in K : k # l =>
           a[k] \cap a[l] = {} /\ b[k] \cap b[l] = {} /\ c[k] \cap c[l] = {}
  BY <1>8
<1>10. UNION {a[k] : k \in K} = Income(whole)
  BY <1>4 DEF Income
<1>11. UNION {b[k] : k \in K} = Outgo(whole)
  BY <1>5 DEF Outgo
<1>12. UNION {c[k] : k \in K} = Unclear(whole)
  <2>1. \A k \in K : Income(part[k]) = Income(whole) \cap part[k]
    BY DEF Income
  <2>2. \A k \in K : Outgo(part[k]) = Outgo(whole) \cap part[k]
    BY DEF Outgo
  <2> QED
    BY <1>6, <2>1, <2>2 DEF Unclear
<1>13. Earned(UNION {a[k] : k \in K}) = SumFunctionOnSet(w, K)
  <2>1. \A k \in K : w[k] = Earned(a[k])
    BY <1>7
  <2>2. \A k \in K : a[k] \subseteq Rows
    BY <1>9
  <2>3. \A k, l \in K : k # l => a[k] \cap a[l] = {}
    BY <1>9
  <2> QED
    BY <2>1, <2>2, <2>3, EarnedParts
<1>14. Spent(UNION {b[k] : k \in K}) = SumFunctionOnSet(x, K)
  <2>1. \A k \in K : x[k] = Spent(b[k])
    BY <1>7
  <2>2. \A k \in K : b[k] \subseteq Rows
    BY <1>9
  <2>3. \A k, l \in K : k # l => b[k] \cap b[l] = {}
    BY <1>9
  <2> QED
    BY <2>1, <2>2, <2>3, SpentParts
<1>15. Cardinality(UNION {c[k] : k \in K}) = SumFunctionOnSet(y, K)
  <2>1. \A k \in K : y[k] = Cardinality(c[k])
    BY <1>7
  <2>2. \A k \in K : c[k] \subseteq Rows
    BY <1>9
  <2>3. \A k, l \in K : k # l => c[k] \cap c[l] = {}
    BY <1>9
  <2> QED
    BY <2>1, <2>2, <2>3, CountParts
<1>16. /\ Flow(whole).income = SumFunctionOnSet(w, K)
       /\ Flow(whole).spending = SumFunctionOnSet(x, K)
       /\ Flow(whole).review = SumFunctionOnSet(y, K)
  BY <1>10, <1>11, <1>12, <1>13, <1>14, <1>15, FlowIs
<1> QED
  BY <1>1, <1>2, <1>3, <1>16

\* The rows of the year so far, and those of a month of it.
YearRows(cutoff) ==
  {t \in Rows : ledger[t].date <= cutoff /\ YearOf(ledger[t].date) = YearOf(cutoff)}

LEMMA YearIsRange ==
  ASSUME FactsInv, NEW cutoff \in Days
  PROVE  /\ YearlyFlow(cutoff)[YearOf(cutoff)] = Flow(YearRows(cutoff))
         /\ YearRows(cutoff) = Within(Date(YearOf(cutoff), 1, 1), cutoff)
<1>1. IsDay(cutoff)
  BY FinancesAssumption, DateIsDay
<1>2. PICK y \in Nat \ {0}, m \in 1..12, x \in 1..31 :
        y = YearOf(cutoff) /\ cutoff = Date(y, m, x)
  BY <1>1, PartsOf
<1>3. YearOf(cutoff) \in Years(cutoff, 5)
  BY <1>2 DEF Years
<1>4. YearlyFlow(cutoff)[YearOf(cutoff)] = Flow(YearRows(cutoff))
  BY <1>3 DEF YearlyFlow, YearRows
<1>5. ASSUME NEW t \in Rows, ledger[t].date <= cutoff
      PROVE  YearOf(ledger[t].date) = y <=> Date(y, 1, 1) <= ledger[t].date
  <2>1. IsDay(ledger[t].date)
    BY RowsTyped
  <2>2. PICK a \in Nat \ {0}, b \in 1..12, c \in 1..31 :
          a = YearOf(ledger[t].date) /\ ledger[t].date = Date(a, b, c)
    BY <2>1, PartsOf
  <2>3. a * 10000 + b * 100 + c <= y * 10000 + m * 100 + x
    BY <1>2, <1>5, <2>2 DEF Date
  <2>4. a = y <=> y * 10000 + 101 <= a * 10000 + b * 100 + c
    BY <2>3
  <2> QED
    BY <2>2, <2>4 DEF Date
<1>6. YearRows(cutoff) = Within(Date(YearOf(cutoff), 1, 1), cutoff)
  BY <1>2, <1>5 DEF YearRows, Within
<1> QED
  BY <1>4, <1>6

LEMMA MonthStartsAre ==
  ASSUME AfterFirstYear, NEW cutoff \in Days
  PROVE  MonthStarts(cutoff, 12) = {FirstOf(MonthIndex(cutoff) - k) : k \in 0..11}
<1>1. PICK i \in Nat : i = MonthIndex(cutoff) /\ i >= 12
  BY LaterDays
<1>2. MonthStart(cutoff) = FirstOf(i) /\ IsDay(cutoff)
  BY <1>1, LaterDays, MonthIndexIs
<1>3. MonthIndex(FirstOf(i)) = i /\ DayOf(FirstOf(i)) = 1
  <2>1. MonthStart(FirstOf(i)) = FirstOf(i) /\ MonthIndex(FirstOf(i)) = i /\ IsDay(FirstOf(i))
    BY FirstOfIs
  <2>2. PICK f \in Nat, x \in 1..31 : f = FirstOf(i) /\ x = DayOf(f)
    BY <2>1, PartsOf DEF IsDay
  <2>3. f - x + 1 = f
    BY <2>1, <2>2 DEF MonthStart
  <2> QED
    BY <2>1, <2>2, <2>3
<1>4. ASSUME NEW k \in 0..11
      PROVE  ShiftClamped(MonthStart(cutoff), -k) = FirstOf(i - k)
  <2>1. i - k \in Nat /\ i + (-k) = i - k
    BY <1>1
  <2>2. PICK f \in Nat : f = FirstOf(i - k) /\ MonthEnd(f) \in (f + 27)..(f + 30)
    <3>1. \A j \in Nat : /\ IsDay(FirstOf(j))
                         /\ MonthEnd(FirstOf(j)) \in (FirstOf(j) + 27)..(FirstOf(j) + 30)
      BY FirstOfIs
    <3> QED
      BY <2>1, <3>1 DEF IsDay
  <2>3. Earlier(f + 1 - 1, MonthEnd(f)) = f
    BY <2>2 DEF Earlier
  <2> QED
    BY <1>2, <1>3, <2>1, <2>2, <2>3 DEF ShiftClamped
<1> QED
  BY <1>1, <1>4 DEF MonthStarts

MonthRowsOf(cutoff, m) ==
  {t \in Rows : ledger[t].date <= cutoff /\ MonthStart(ledger[t].date) = m}

LEMMA FirstOfYear ==
  ASSUME NEW i \in Nat
  PROVE  YearOf(FirstOf(i)) = (i \div 12) + 1
<1>1. PICK y \in Nat, m \in 1..12 : y = (i \div 12) + 1 /\ m = (i % 12) + 1
  OBVIOUS
<1>2. YearOf(Date(y, m, 1)) = y
  BY DateParts, 1 \in 1..31
<1> QED
  BY <1>1, <1>2 DEF FirstOf

LEMMA MonthsOfYear ==
  ASSUME FactsInv, AfterFirstYear, NEW cutoff \in Days
  PROVE  YearRows(cutoff) =
           UNION {MonthRowsOf(cutoff, m) :
                    m \in {n \in MonthStarts(cutoff, 12) : YearOf(n) = YearOf(cutoff)}}
<1>1. PICK i \in Nat : i = MonthIndex(cutoff) /\ i >= 12
  BY LaterDays
<1>2. IsDay(cutoff)
  BY LaterDays
<1>3. PICK y \in Nat, m \in 1..12 : y = YearOf(cutoff) /\ i = (y - 1) * 12 + (m - 1)
  <2>1. PICK y \in Nat, m \in 1..12 : y = YearOf(cutoff) /\ m = MonthOf(cutoff)
    BY <1>2, PartsOf
  <2>2. i = (y - 1) * 12 + (m - 1)
    BY <1>1, <1>2, <2>1, MonthIndexIs
  <2> QED
    BY <2>1, <2>2
<1>4. ASSUME NEW j \in Nat
      PROVE  YearOf(FirstOf(j)) = (j \div 12) + 1
  BY FirstOfYear
<1>5. ASSUME NEW t \in Rows
      PROVE  YearOf(MonthStart(ledger[t].date)) = YearOf(ledger[t].date)
  <2>1. IsDay(ledger[t].date)
    BY RowsTyped
  <2>2. PICK j \in Nat : /\ j = MonthIndex(ledger[t].date)
                         /\ FirstOf(j) = MonthStart(ledger[t].date)
                         /\ YearOf(ledger[t].date) = (j \div 12) + 1
    BY <2>1, MonthIndexIs
  <2> QED
    BY <1>4, <2>2
<1>6. ASSUME NEW t \in Rows, ledger[t].date <= cutoff, YearOf(ledger[t].date) = y
      PROVE  MonthStart(ledger[t].date) \in MonthStarts(cutoff, 12)
  <2>1. IsDay(ledger[t].date)
    BY RowsTyped
  <2>2. PICK j \in Nat : j = MonthIndex(ledger[t].date) /\ FirstOf(j) = MonthStart(ledger[t].date)
    BY <2>1, MonthIndexIs
  <2>3. PICK b \in 1..12 : j = (y - 1) * 12 + (b - 1)
    BY <1>6, <2>1, <2>2, MonthIndexIs, PartsOf
  <2>4. j <= i
    BY <1>1, <1>2, <1>6, <2>1, <2>2, MonthsInOrder
  <2>5. PICK k \in 0..11 : k = i - j /\ i - k = j
    BY <1>3, <2>3, <2>4
  <2> QED
    BY <1>1, <2>2, <2>5, MonthStartsAre
<1> QED
  BY <1>3, <1>5, <1>6 DEF YearRows, MonthRowsOf

LEMMA YearIsItsMonths ==
  ASSUME FactsInv, AfterFirstYear, NEW cutoff \in Days
  PROVE  LET inYear == {m \in DOMAIN MonthlyFlow(cutoff, 12) : YearOf(m) = YearOf(cutoff)}
         IN /\ Flow(YearRows(cutoff)).income =
                 SumFunction([m \in inYear |-> MonthlyFlow(cutoff, 12)[m].income])
            /\ Flow(YearRows(cutoff)).spending =
                 SumFunction([m \in inYear |-> MonthlyFlow(cutoff, 12)[m].spending])
            /\ Flow(YearRows(cutoff)).review =
                 SumFunction([m \in inYear |-> MonthlyFlow(cutoff, 12)[m].review])
<1>1. DOMAIN MonthlyFlow(cutoff, 12) = MonthStarts(cutoff, 12)
  BY DEF MonthlyFlow
<1>2. PICK K : K = {m \in MonthStarts(cutoff, 12) : YearOf(m) = YearOf(cutoff)}
  OBVIOUS
<1>3. PICK part : part = [m \in K |-> MonthRowsOf(cutoff, m)]
  OBVIOUS
<1>4. \A m \in K : MonthlyFlow(cutoff, 12)[m] = Flow(part[m])
  BY <1>2, <1>3 DEF MonthlyFlow, MonthRowsOf
<1>5. IsFiniteSet(K)
  <2>1. PICK f : f = [k \in 0..11 |-> FirstOf(MonthIndex(cutoff) - k)]
    OBVIOUS
  <2>2. MonthStarts(cutoff, 12) = {f[k] : k \in 0..11}
    BY <2>1, MonthStartsAre
  <2>3. IsFiniteSet(0..11)
    BY FS_Interval, 0 \in Int, 11 \in Int
  <2>4. IsFiniteSet(MonthStarts(cutoff, 12))
    BY <2>2, <2>3, ImageIsFinite
  <2> QED
    BY <1>2, <2>4, FS_Subset
<1>6. \A m \in K : part[m] \subseteq Rows
  BY <1>3 DEF MonthRowsOf
<1>7. \A m, n \in K : m # n => part[m] \cap part[n] = {}
  BY <1>3 DEF MonthRowsOf
<1>8. PICK whole : whole = YearRows(cutoff)
  OBVIOUS
<1>9. whole = UNION {part[m] : m \in K}
  <2>1. whole = UNION {MonthRowsOf(cutoff, m) : m \in K}
    BY <1>2, <1>8, MonthsOfYear
  <2>2. {MonthRowsOf(cutoff, m) : m \in K} = {part[m] : m \in K}
    BY <1>3
  <2> QED
    BY <2>1, <2>2
<1>10. /\ Flow(whole).income = SumFunctionOnSet([m \in K |-> Flow(part[m]).income], K)
       /\ Flow(whole).spending = SumFunctionOnSet([m \in K |-> Flow(part[m]).spending], K)
       /\ Flow(whole).review = SumFunctionOnSet([m \in K |-> Flow(part[m]).review], K)
  BY <1>5, <1>6, <1>7, <1>9, FlowParts
<1>11. /\ [m \in K |-> Flow(part[m]).income] = [m \in K |-> MonthlyFlow(cutoff, 12)[m].income]
       /\ [m \in K |-> Flow(part[m]).spending] = [m \in K |-> MonthlyFlow(cutoff, 12)[m].spending]
       /\ [m \in K |-> Flow(part[m]).review] = [m \in K |-> MonthlyFlow(cutoff, 12)[m].review]
  BY <1>4
<1>12. K = {m \in DOMAIN MonthlyFlow(cutoff, 12) : YearOf(m) = YearOf(cutoff)}
  BY <1>1, <1>2
<1>13. \A v : DOMAIN v = K => SumFunction(v) = SumFunctionOnSet(v, K)
  BY DEF SumFunction
<1>14. /\ Flow(whole).income = SumFunction([m \in K |-> MonthlyFlow(cutoff, 12)[m].income])
       /\ Flow(whole).spending = SumFunction([m \in K |-> MonthlyFlow(cutoff, 12)[m].spending])
       /\ Flow(whole).review = SumFunction([m \in K |-> MonthlyFlow(cutoff, 12)[m].review])
  BY <1>10, <1>11, <1>13
<1> QED
  BY <1>8, <1>12, <1>14

\* The rolling year of the breakdown is that of the income-versus-spending view.
LEMMA WindowsAgree ==
  ASSUME AfterFirstYear, NEW cutoff \in Days
  PROVE  RecentStart(cutoff, 12) = RollingStart(cutoff, 12)
<1>1. PICK i \in Nat : i = MonthIndex(cutoff) /\ i >= 12
  BY LaterDays
<1>2. ~(i - 12 < 0) /\ i + (-12) = i - 12
  BY <1>1
<1> QED
  BY <1>1, <1>2 DEF RecentStart, RollingStart, ShiftClamped

LEMMA RecentIs ==
  ASSUME FactsInv, AfterFirstYear, NEW cutoff \in Days,
         NEW unclear, unclear =
           {t \in Within(PeriodStart("last_1_year", 0, cutoff), cutoff) :
              ledger[t].category = Uncategorized /\ Amount(t) < 0}
  PROVE  RecentFlow(cutoff, 12).spending =
           Report(Period("last_1_year", MonthStart(cutoff), cutoff)).total.cents + Spent(unclear)
<1>1. PICK p : p = Period("last_1_year", MonthStart(cutoff), cutoff)
  OBVIOUS
<1>2. /\ p.start = RollingStart(cutoff, 12) /\ p.end = cutoff
      /\ PeriodStart("last_1_year", 0, cutoff) = RollingStart(cutoff, 12)
  BY <1>1 DEF Period, PeriodStart, PeriodEnd
<1>3. PICK w : w = Within(p.start, p.end)
  OBVIOUS
<1>4. RecentFlow(cutoff, 12).spending = Spent(Outgo(w))
  <2>1. RecentFlow(cutoff, 12) = Flow(w)
    BY <1>2, <1>3, WindowsAgree DEF RecentFlow, RangeFlow
  <2> QED
    BY <2>1, FlowIs
<1>5. w \subseteq Rows
  BY <1>3 DEF Within
<1>6. Counted(p) = {t \in w : Amount(t) < 0 /\ IsSpending(t)}
  BY <1>3 DEF Counted
<1>7. unclear = {t \in w : ledger[t].category = Uncategorized /\ Amount(t) < 0}
  BY <1>2, <1>3
<1>8. \A t : ledger[t].category = Uncategorized => KindOf(t) = "expense"
  <2>1. /\ Uncategorized \in DOMAIN Kind /\ Kind[Uncategorized] = "expense"
        /\ NoCategory \notin DOMAIN Kind
    BY FinancesAssumption
  <2> QED
    BY <2>1 DEF KindOf
<1>9. /\ Outgo(w) = Counted(p) \cup unclear
      /\ Counted(p) \cap unclear = {}
  BY <1>6, <1>7, <1>8 DEF Outgo, IsSpending
<1>10. Counted(p) \in SUBSET Rows /\ unclear \in SUBSET Rows /\ Outgo(w) \in SUBSET Rows
  BY <1>5, <1>6, <1>7, <1>9
<1>11. /\ IsFiniteSet(Counted(p)) /\ IsFiniteSet(unclear)
       /\ \A t \in Counted(p) \cup unclear : Costs[t] \in Int
  BY <1>10, SpentIs, RowsTyped
<1>12. SumFunctionOnSet(Costs, Counted(p) \cup unclear) =
         SumFunctionOnSet(Costs, Counted(p)) + SumFunctionOnSet(Costs, unclear)
  BY <1>9, <1>11, SumDisjoint
<1>13. Spent(Outgo(w)) = Spent(Counted(p)) + Spent(unclear)
  BY <1>9, <1>10, <1>12, SpentIs
<1> QED
  BY <1>1, <1>4, <1>13, ReportTotal

LEMMA ViewsAgree ==
  ASSUME FactsInv, AfterFirstYear
  PROVE  CashFlowsAgree
<1> SUFFICES ASSUME NEW cutoff \in Days
             PROVE  LET year == YearlyFlow(cutoff)[YearOf(cutoff)]
                        monthly == MonthlyFlow(cutoff, 12)
                        inYear == {m \in DOMAIN monthly : YearOf(m) = YearOf(cutoff)}
                        recent == RecentFlow(cutoff, 12)
                        rolling == Report(Period("last_1_year", MonthStart(cutoff), cutoff))
                        uncategorized ==
                          {t \in Within(PeriodStart("last_1_year", 0, cutoff), cutoff) :
                             ledger[t].category = Uncategorized /\ Amount(t) < 0}
                    IN /\ year = RangeFlow(Date(YearOf(cutoff), 1, 1), cutoff)
                       /\ year.income = SumOf(inYear, LAMBDA m : monthly[m].income)
                       /\ year.spending = SumOf(inYear, LAMBDA m : monthly[m].spending)
                       /\ year.review = SumOf(inYear, LAMBDA m : monthly[m].review)
                       /\ recent.spending = rolling.total.cents + Spent(uncategorized)
  BY DEF CashFlowsAgree
<1>1. /\ YearlyFlow(cutoff)[YearOf(cutoff)] = Flow(YearRows(cutoff))
      /\ YearRows(cutoff) = Within(Date(YearOf(cutoff), 1, 1), cutoff)
  BY YearIsRange
<1>2. YearlyFlow(cutoff)[YearOf(cutoff)] = RangeFlow(Date(YearOf(cutoff), 1, 1), cutoff)
  BY <1>1 DEF RangeFlow
<1>3. LET inYear == {m \in DOMAIN MonthlyFlow(cutoff, 12) : YearOf(m) = YearOf(cutoff)}
      IN /\ YearlyFlow(cutoff)[YearOf(cutoff)].income =
              SumFunction([m \in inYear |-> MonthlyFlow(cutoff, 12)[m].income])
         /\ YearlyFlow(cutoff)[YearOf(cutoff)].spending =
              SumFunction([m \in inYear |-> MonthlyFlow(cutoff, 12)[m].spending])
         /\ YearlyFlow(cutoff)[YearOf(cutoff)].review =
              SumFunction([m \in inYear |-> MonthlyFlow(cutoff, 12)[m].review])
  BY <1>1, YearIsItsMonths
<1>4. RecentFlow(cutoff, 12).spending =
        Report(Period("last_1_year", MonthStart(cutoff), cutoff)).total.cents
          + Spent({t \in Within(PeriodStart("last_1_year", 0, cutoff), cutoff) :
                     ledger[t].category = Uncategorized /\ Amount(t) < 0})
  BY RecentIs
<1> QED
  BY <1>2, <1>3, <1>4, Zenon DEF SumOf

\* The year, its months and the range of its days give one income and one
\* spending, and the rolling year of the breakdown leaves out what is
\* uncategorized and no more, in every state.
THEOREM CashFlowViewsAgree ==
  ASSUME AfterFirstYear
  PROVE  Spec => []CashFlowsAgree
<1>1. FactsInv => CashFlowsAgree
  BY ViewsAgree
<1> QED
  BY <1>1, FactsInit, FactsStep, PTL DEF Spec

-----------------------------------------------------------------------------
(* Net worth.                                                              *)

LEMMA NatMax ==
  ASSUME NEW T \in SUBSET Nat, T # {}, NEW b \in Nat, \A n \in T : n <= b
  PROVE  \E n \in T : \A m \in T : m <= n
<1> DEFINE U == {b - n : n \in T}
<1>1. U \in SUBSET Nat /\ U # {}
  <2>1. \A n \in T : n \in Nat /\ b - n \in Nat
    OBVIOUS
  <2> QED
    BY <2>1
<1>2. PICK u \in U : \A m \in U : u <= m
  <2> HIDE DEF U
  <2> QED
    BY <1>1, NatMin
<1>3. PICK n \in T : u = b - n
  OBVIOUS
<1>4. ASSUME NEW m \in T
      PROVE  m <= n
  <2>1. b - m \in U /\ b - n <= b - m
    BY <1>2, <1>3
  <2>2. b \in Nat /\ m \in Nat /\ n \in Nat
    OBVIOUS
  <2> QED
    BY <2>1, <2>2
<1> QED
  BY <1>4

LastDate == Date(MaxYear, 12, 31)

LEMMA DateIsBounded ==
  ASSUME NEW d, IsDate(d)
  PROVE  d \in Nat /\ FirstDay <= d /\ d <= LastDate
<1>1. IsDay(d) /\ YearOf(d) \in 1..MaxYear
  BY DateIsDay DEF IsDate
<1>2. PICK y \in 1..MaxYear, m \in 1..12, x \in 1..31 : d = Date(y, m, x)
  BY <1>1, PartsOf
<1>3. d = y * 10000 + m * 100 + x
  BY <1>2 DEF Date
<1>4. PICK z \in Nat : z = MaxYear /\ LastDate = z * 10000 + 1231
  BY SMT DEF LastDate, MaxYear, Date
<1>5. d \in Nat /\ 10101 <= d /\ d <= z * 10000 + 1231
  BY <1>3, <1>4
<1> QED
  BY <1>4, <1>5 DEF FirstDay

LEMMA LastDateIs ==
  LastDate \in Nat
BY SMT DEF LastDate, MaxYear, Date

\* The dates that the dashboard takes its reference date from.
Dated == {ledger[t].date : t \in Rows} \cup {balances[i].date : i \in DOMAIN balances}

AsOfBounds ==
  /\ AsOf \in Nat /\ FirstDay <= AsOf
  /\ \A d \in Dated : d <= AsOf
  /\ AsOf = FirstDay \/ AsOf \in Dated

LEMMA EntriesTyped ==
  FactsInv => \A i \in DOMAIN balances :
                /\ i \in Nat /\ i <= Len(balances)
                /\ balances[i].date \in Days
                /\ balances[i].date \in Nat
<1> SUFFICES ASSUME FactsInv, NEW i \in DOMAIN balances
             PROVE  /\ i \in Nat /\ i <= Len(balances)
                    /\ balances[i].date \in Days
                    /\ balances[i].date \in Nat
  OBVIOUS
<1>1. Len(balances) \in Nat /\ i \in 1..Len(balances) /\ balances[i] \in Entry
  BY DEF FactsInv
<1>2. balances[i].date \in Days
  BY <1>1 DEF Entry
<1>3. balances[i].date \in Nat
  BY <1>2, FinancesAssumption, DateIsBounded
<1> QED
  BY <1>1, <1>2, <1>3

LEMMA AsOfIs ==
  FactsInv => AsOfBounds
<1> SUFFICES ASSUME FactsInv
             PROVE  AsOfBounds
  OBVIOUS
<1>1. \A d \in Dated : d \in Nat /\ FirstDay <= d /\ d <= LastDate
  <2>1. \A d \in Dated : d \in Days
    BY RowsTyped, EntriesTyped DEF Dated
  <2> QED
    BY <2>1, FinancesAssumption, DateIsBounded
<1>2. AsOf = IF Dated = {} THEN FirstDay ELSE Max(Dated)
  BY DEF AsOf, Dated
<1>3. CASE Dated = {}
  BY <1>2, <1>3 DEF AsOfBounds, FirstDay
<1>4. CASE Dated # {}
  <2>1. \E n \in Dated : \A m \in Dated : m <= n
    BY <1>1, <1>4, LastDateIs, NatMax
  <2>2. PICK n \in Dated : \A m \in Dated : n >= m
    BY <1>1, <2>1
  <2>3. Max(Dated) \in Dated /\ \A m \in Dated : Max(Dated) >= m
    BY <2>2 DEF Max
  <2> QED
    BY <1>1, <1>2, <1>4, <2>3 DEF AsOfBounds
<1> QED
  BY <1>3, <1>4

\* The latest entry of an account is one, and there is no other.
IsLatest(i, a, cutoff) ==
  /\ i \in Eligible(a, cutoff)
  /\ \A j \in Eligible(a, cutoff) :
       \/ balances[j].date < balances[i].date
       \/ balances[j].date = balances[i].date /\ j <= i

LEMMA LatestIs ==
  FactsInv => \A a, cutoff : Eligible(a, cutoff) # {} => IsLatest(Latest(a, cutoff), a, cutoff)
<1> SUFFICES ASSUME FactsInv, NEW a, NEW cutoff, Eligible(a, cutoff) # {}
             PROVE  IsLatest(Latest(a, cutoff), a, cutoff)
  OBVIOUS
<1>1. PICK E : E = Eligible(a, cutoff)
  OBVIOUS
<1>2. \A i \in E : /\ i \in Nat /\ i <= Len(balances)
                   /\ balances[i].date \in Nat /\ balances[i].date <= LastDate
  BY <1>1, EntriesTyped, FinancesAssumption, DateIsBounded DEF Eligible
<1>3. PICK D : D = {balances[i].date : i \in E}
  OBVIOUS
<1>4. PICK d \in D : \A c \in D : c <= d
  <2>1. D \in SUBSET Nat /\ D # {} /\ \A c \in D : c <= LastDate
    BY <1>1, <1>2, <1>3
  <2> QED
    BY <2>1, LastDateIs, NatMax
<1>5. PICK F : F = {i \in E : balances[i].date = d}
  OBVIOUS
<1>6. PICK i \in F : \A j \in F : j <= i
  <2>1. F \in SUBSET Nat /\ F # {} /\ \A j \in F : j <= Len(balances)
    BY <1>2, <1>3, <1>4, <1>5
  <2>2. Len(balances) \in Nat
    BY DEF FactsInv
  <2> QED
    BY <2>1, <2>2, NatMax
<1>7. i \in E /\ \A j \in E : \/ balances[j].date < balances[i].date
                              \/ balances[j].date = balances[i].date /\ j <= i
  <2> SUFFICES ASSUME NEW j \in E
               PROVE  \/ balances[j].date < balances[i].date
                      \/ balances[j].date = balances[i].date /\ j <= i
    BY <1>5
  <2>1. balances[i].date = d /\ balances[j].date <= d /\ balances[j].date \in Nat /\ d \in Nat
    BY <1>2, <1>3, <1>4, <1>5
  <2>2. balances[j].date = d => j <= i
    BY <1>5, <1>6
  <2> QED
    BY <2>1, <2>2
<1>8. \E k \in Eligible(a, cutoff) : \A j \in Eligible(a, cutoff) :
           \/ balances[j].date < balances[k].date
           \/ balances[j].date = balances[k].date /\ j <= k
  BY <1>1, <1>7
<1> QED
  BY <1>8 DEF IsLatest, Latest

WithBalance(cutoff) == {a \in Known : Eligible(a, cutoff) # {}}
ValueOf(cutoff) == [a \in WithBalance(cutoff) |-> balances[Latest(a, cutoff)].cents]

\* A position, from what it is worked out of.
PositionOf(with, value, accounts) ==
  LET assets == {a \in with : ~accounts[a].liability}
      Sum(set) == SumFunction([a \in set |-> value[a]])
  IN [assets |-> Sum(assets),
      liabilities |-> Sum(with \ assets),
      cash |-> Sum({a \in assets : accounts[a].type \in CashTypes}),
      missing |-> Cardinality({a \in Accounts : accounts[a] # NoAccount} \ with)]

PositionsAre ==
  \A cutoff : Position(cutoff) = PositionOf(WithBalance(cutoff), ValueOf(cutoff), account)

\* A position depends on the accounts with a balance, the values and the types.
LEMMA PositionIs ==
  PositionsAre
<1> SUFFICES ASSUME NEW cutoff
             PROVE  Position(cutoff) = PositionOf(WithBalance(cutoff), ValueOf(cutoff), account)
  BY DEF PositionsAre
<1> DEFINE with == {a \in Known : Eligible(a, cutoff) # {}}
           Cents(set) == [a \in set |-> balances[Latest(a, cutoff)].cents]
           assets == {a \in with : ~account[a].liability}
           cash == {a \in assets : account[a].type \in CashTypes}
<1>1. WithBalance(cutoff) = with
  BY DEF WithBalance
<1>2. ASSUME NEW set \in SUBSET with
      PROVE  Cents(set) = [a \in set |-> ValueOf(cutoff)[a]]
  BY DEF ValueOf, WithBalance
<1>3. Position(cutoff) =
        [assets |-> SumFunction(Cents(assets)),
         liabilities |-> SumFunction(Cents(with \ assets)),
         cash |-> SumFunction(Cents(cash)),
         missing |-> Cardinality(Known \ with)]
  BY DEF Position, SumOf
<1>4. PositionOf(with, ValueOf(cutoff), account) =
        [assets |-> SumFunction([a \in assets |-> ValueOf(cutoff)[a]]),
         liabilities |-> SumFunction([a \in with \ assets |-> ValueOf(cutoff)[a]]),
         cash |-> SumFunction([a \in cash |-> ValueOf(cutoff)[a]]),
         missing |-> Cardinality(Known \ with)]
  BY DEF PositionOf, Known
<1>5. /\ Cents(assets) = [a \in assets |-> ValueOf(cutoff)[a]]
      /\ Cents(with \ assets) = [a \in with \ assets |-> ValueOf(cutoff)[a]]
      /\ Cents(cash) = [a \in cash |-> ValueOf(cutoff)[a]]
  <2>1. assets \in SUBSET with /\ with \ assets \in SUBSET with /\ cash \in SUBSET with
    OBVIOUS
  <2> HIDE DEF Cents, with, assets, cash
  <2> QED
    BY <1>2, <2>1
<1> HIDE DEF Cents, with, assets, cash
<1> QED
  BY <1>1, <1>3, <1>4, <1>5

\* What a step does to what the net worth is worked out of.
LEMMA EntriesStay ==
  ASSUME FactsInv, [Next]_vars
  PROVE  /\ \A t \in Rows : t \in Rows' /\ ledger'[t].date = ledger[t].date
         /\ \A i \in DOMAIN balances : i \in DOMAIN balances' /\ balances'[i] = balances[i]
<1>1. ledger \in Seq(Row) /\ balances \in Seq(Entry)
  BY DEF FactsInv
<1>2. CASE UNCHANGED <<ledger, balances>>
  BY <1>2 DEF Rows
<1>3. ASSUME NEW d \in Days, NEW amount \in Amounts, NEW c \in DOMAIN Kind,
             NEW m \in Merchants, NEW x \in Descriptions,
             ImportTransaction(d, amount, c, m, x)
      PROVE  /\ \A t \in Rows : t \in Rows' /\ ledger'[t].date = ledger[t].date
             /\ balances' = balances
  <2>1. PICK r : ledger' = Append(ledger, r)
    BY <1>3 DEF ImportTransaction
  <2>2. \A t \in Rows : t \in DOMAIN ledger' /\ ledger'[t] = ledger[t]
    BY <1>1, <2>1 DEF Rows
  <2> QED
    BY <1>3, <2>2 DEF ImportTransaction, Rows
<1>4. ASSUME NEW u \in Rows, NEW c \in DOMAIN Kind, NEW m \in Merchants,
             Recategorize(u, c, m)
      PROVE  /\ \A t \in Rows : t \in Rows' /\ ledger'[t].date = ledger[t].date
             /\ balances' = balances
  <2>1. ledger' = [ledger EXCEPT ![u] = [ledger[u] EXCEPT !.category = c, !.merchant = m]]
    BY <1>1, <1>4 DEF Recategorize, Rows
  <2>2. Rows' = Rows
    BY <2>1 DEF Rows
  <2>3. ledger[u] \in Row
    BY <1>1 DEF Rows
  <2>4. [ledger[u] EXCEPT !.category = c, !.merchant = m].date = ledger[u].date
    BY <2>3 DEF Row
  <2>5. \A t \in Rows : ledger'[t].date = ledger[t].date
    BY <2>1, <2>4 DEF Rows
  <2> QED
    BY <1>4, <2>2, <2>5 DEF Recategorize
<1>5. ASSUME NEW a \in Accounts, NEW cents \in Balances, NEW d \in Days,
             EnterBalance(a, cents, d)
      PROVE  /\ ledger' = ledger
             /\ \A i \in DOMAIN balances : i \in DOMAIN balances' /\ balances'[i] = balances[i]
  <2>1. PICK e : balances' = Append(balances, e)
    BY <1>5 DEF EnterBalance, AddBalance
  <2>2. \A i \in DOMAIN balances : i \in DOMAIN balances' /\ balances'[i] = balances[i]
    BY <1>1, <2>1
  <2> QED
    BY <1>5, <2>2 DEF EnterBalance
<1>6. ASSUME NEW c \in DOMAIN Kind, NEW month \in Months, NEW cents \in Limits,
             Budget(c, month, cents)
      PROVE  UNCHANGED <<ledger, balances>>
  BY <1>6 DEF Budget
<1>7. ASSUME NEW id \in Goals, NEW g \in GoalInputs, EditGoal(id, g)
      PROVE  UNCHANGED <<ledger, balances>>
  BY <1>7 DEF EditGoal
<1>8. ASSUME NEW a \in Accounts, NEW type \in AccountTypes, NEW l \in BOOLEAN,
             EditAccount(a, type, l)
      PROVE  UNCHANGED <<ledger, balances>>
  BY <1>8 DEF EditAccount, CreateAccount, UpdateAccount, SetAccount
<1>9. ASSUME PassTime
      PROVE  UNCHANGED <<ledger, balances>>
  BY <1>9 DEF PassTime
<1> QED
  BY <1>2, <1>3, <1>4, <1>5, <1>6, <1>7, <1>8, <1>9 DEF Next, vars, Rows

LEMMA AsOfGrows ==
  FactsInv /\ FactsInv' /\ [Next]_vars =>
    /\ AsOf \in Nat /\ AsOf' \in Nat /\ AsOf <= AsOf'
<1>1. FactsInv' => AsOfBounds'
  BY AsOfIs, PTL
<1> SUFFICES ASSUME FactsInv, FactsInv', [Next]_vars
             PROVE  AsOf \in Nat /\ AsOf' \in Nat /\ AsOf <= AsOf'
  OBVIOUS
<1>2. AsOfBounds /\ AsOfBounds'
  BY <1>1, AsOfIs
<1>3. \A d \in Dated : d \in Dated'
  <2>1. \A t \in Rows : t \in Rows' /\ ledger'[t].date = ledger[t].date
    BY EntriesStay
  <2>2. \A i \in DOMAIN balances : i \in DOMAIN balances' /\ balances'[i].date = balances[i].date
    BY EntriesStay
  <2> QED
    BY <2>1, <2>2 DEF Dated
<1> QED
  BY <1>2, <1>3 DEF AsOfBounds, FirstDay

\* The position at a day changes only with an account or an entry of that day or before.
LEMMA PositionStays ==
  FactsInv /\ FactsInv' /\ [Next]_vars /\ account' = account =>
    \A cutoff : (\A i \in DOMAIN balances' \ DOMAIN balances : ~(balances'[i].date <= cutoff))
                  => Position(cutoff)' = Position(cutoff)
<1>1. FactsInv' => (\A a, cutoff : Eligible(a, cutoff) # {}
                                   => IsLatest(Latest(a, cutoff), a, cutoff))'
  BY LatestIs, PTL
<1>2. PositionsAre'
  BY PositionIs, PTL
<1> SUFFICES ASSUME FactsInv, FactsInv', [Next]_vars, account' = account, NEW cutoff,
                    \A i \in DOMAIN balances' \ DOMAIN balances : ~(balances'[i].date <= cutoff)
             PROVE  Position(cutoff)' = Position(cutoff)
  OBVIOUS
<1>3. \A i \in DOMAIN balances : i \in DOMAIN balances' /\ balances'[i] = balances[i]
  BY EntriesStay
<1>4. \A a : Eligible(a, cutoff)' = Eligible(a, cutoff)
  BY <1>3 DEF Eligible
<1>5. ASSUME NEW a, Eligible(a, cutoff) # {}
      PROVE  /\ Latest(a, cutoff)' = Latest(a, cutoff)
             /\ Latest(a, cutoff) \in DOMAIN balances
  <2>1. PICK E : E = Eligible(a, cutoff) /\ E = Eligible(a, cutoff)'
    BY <1>4
  <2>2. PICK i, j : i = Latest(a, cutoff) /\ j = Latest(a, cutoff)'
    OBVIOUS
  <2>3. IsLatest(i, a, cutoff)
    BY <1>5, <2>2, LatestIs
  <2>4. IsLatest(Latest(a, cutoff), a, cutoff)'
    BY <1>1, <1>4, <1>5
  <2>5. \A k \in E : /\ k \in DOMAIN balances /\ balances'[k] = balances[k]
                     /\ k \in Nat /\ balances[k].date \in Nat
    BY <1>3, <2>1, EntriesTyped DEF Eligible
  <2>6. i \in E /\ \A k \in E : \/ balances[k].date < balances[i].date
                                \/ balances[k].date = balances[i].date /\ k <= i
    BY <2>1, <2>3 DEF IsLatest
  <2>7. j \in E /\ \A k \in E : \/ balances'[k].date < balances'[j].date
                                \/ balances'[k].date = balances'[j].date /\ k <= j
    BY <2>1, <2>2, <2>4 DEF IsLatest
  <2>8. i = j
    BY <2>5, <2>6, <2>7
  <2> QED
    BY <2>2, <2>5, <2>6, <2>8
<1>6. WithBalance(cutoff)' = WithBalance(cutoff)
  BY <1>4 DEF WithBalance, Known
<1>7. ValueOf(cutoff)' = ValueOf(cutoff)
  <2>1. \A a \in WithBalance(cutoff) :
          balances'[Latest(a, cutoff)'].cents = balances[Latest(a, cutoff)].cents
    BY <1>3, <1>5 DEF WithBalance
  <2> QED
    BY <1>6, <2>1 DEF ValueOf
<1>8. /\ Position(cutoff)' = PositionOf(WithBalance(cutoff)', ValueOf(cutoff)', account')
      /\ Position(cutoff) = PositionOf(WithBalance(cutoff), ValueOf(cutoff), account)
  BY <1>2, PositionIs DEF PositionsAre
<1> QED
  BY <1>6, <1>7, <1>8

SeriesBefore ==
  \A y : y \in DOMAIN NetWorthSeries(AsOf) /\ y # YearOf(AsOf)
           => NetWorthSeries(AsOf)[y] = Position(Date(y, 12, 31))

LEMMA SeriesIs ==
  SeriesBefore
BY DEF SeriesBefore, NetWorthSeries

\* Later dates are in later years.
LEMMA YearBounds ==
  ASSUME NEW a \in Nat
  PROVE  /\ YearOf(a) \in Nat
         /\ YearOf(a) * 10000 <= a /\ a < YearOf(a) * 10000 + 10000
BY DEF YearOf

LEMMA YearsGrow ==
  ASSUME NEW a \in Nat, NEW b \in Nat, a <= b
  PROVE  YearOf(a) \in Nat /\ YearOf(b) \in Nat /\ YearOf(a) <= YearOf(b)
<1>1. PICK x \in Nat : x = YearOf(a) /\ x * 10000 <= a
  BY YearBounds
<1>2. PICK y \in Nat : y = YearOf(b) /\ b < y * 10000 + 10000
  <2>1. YearOf(b) \in Nat /\ b < YearOf(b) * 10000 + 10000
    BY YearBounds
  <2> QED
    BY <2>1
<1>3. x * 10000 < y * 10000 + 10000
  BY <1>1, <1>2
<1> QED
  BY <1>1, <1>2, <1>3

LEMMA LateIsAfter ==
  ASSUME NEW d \in Days, NEW y \in Nat, YearOf(d) > y
  PROVE  ~(d <= Date(y, 12, 31))
<1>1. PICK a \in Nat, m \in 1..12, x \in 1..31 : a = YearOf(d) /\ d = Date(a, m, x)
  BY FinancesAssumption, DateIsDay, PartsOf
<1>2. a * 10000 + m * 100 + x > y * 10000 + 1231
  BY <1>1
<1> QED
  BY <1>1, <1>2 DEF Date

LEMMA YearStands ==
  FactsInv /\ FactsInv' /\ [Next]_vars =>
    \A y \in {YearOf(d) : d \in Days} :
      LET late == {i \in DOMAIN balances' \ DOMAIN balances : YearOf(balances'[i].date) <= y}
      IN (/\ account' = account
          /\ late = {}
          /\ y \in DOMAIN NetWorthSeries(AsOf) /\ y < YearOf(AsOf)
          /\ y \in DOMAIN NetWorthSeries(AsOf)')
           => NetWorthSeries(AsOf)[y] = (NetWorthSeries(AsOf)[y])'
<1>1. SeriesBefore'
  BY SeriesIs, PTL
<1>2. FactsInv' => (\A i \in DOMAIN balances : /\ i \in Nat /\ i <= Len(balances)
                                               /\ balances[i].date \in Days
                                               /\ balances[i].date \in Nat)'
  BY EntriesTyped, PTL
<1> SUFFICES ASSUME FactsInv, FactsInv', [Next]_vars, NEW y \in {YearOf(d) : d \in Days},
                    account' = account,
                    {i \in DOMAIN balances' \ DOMAIN balances :
                       YearOf(balances'[i].date) <= y} = {},
                    y \in DOMAIN NetWorthSeries(AsOf), y < YearOf(AsOf),
                    y \in DOMAIN NetWorthSeries(AsOf)'
             PROVE  NetWorthSeries(AsOf)[y] = (NetWorthSeries(AsOf)[y])'
  OBVIOUS
<1>3. y \in Nat
  BY FinancesAssumption, DateIsDay DEF IsDay
<1>4. AsOf \in Nat /\ AsOf' \in Nat /\ AsOf <= AsOf'
  BY AsOfGrows
<1>5. y # YearOf(AsOf) /\ y # YearOf(AsOf)'
  <2>1. YearOf(AsOf) \in Nat /\ YearOf(AsOf') \in Nat /\ YearOf(AsOf) <= YearOf(AsOf')
    BY <1>4, YearsGrow
  <2> QED
    BY <1>3, <2>1
<1>6. NetWorthSeries(AsOf)[y] = Position(Date(y, 12, 31))
  BY <1>5, SeriesIs DEF SeriesBefore
<1>7. (NetWorthSeries(AsOf)[y])' = Position(Date(y, 12, 31))'
  BY <1>1, <1>5 DEF SeriesBefore
<1>8. ASSUME NEW i \in DOMAIN balances' \ DOMAIN balances
      PROVE  ~(balances'[i].date <= Date(y, 12, 31))
  <2>1. balances'[i].date \in Days /\ balances'[i].date \in Nat
    BY <1>2
  <2>2. YearOf(balances'[i].date) > y
    <3>1. YearOf(balances'[i].date) \in Nat
      BY <2>1, YearsGrow
    <3> QED
      BY <1>3, <3>1
  <2> QED
    BY <1>3, <2>1, <2>2, LateIsAfter
<1>9. Position(Date(y, 12, 31))' = Position(Date(y, 12, 31))
  BY <1>8, PositionStays
<1> QED
  BY <1>6, <1>7, <1>9

\* No step changes the net worth of a year before that of the dashboard, but one
\* that changes an account or enters a balance of that year or an earlier one.
THEOREM ClosedYearsKeepNetWorth ==
  Spec => ClosedYearsStand
<1>1. FactsInv /\ FactsInv' /\ [Next]_vars =>
        [ \A y \in {YearOf(d) : d \in Days} :
            LET late == {i \in DOMAIN balances' \ DOMAIN balances :
                           YearOf(balances'[i].date) <= y}
            IN (/\ account' = account
                /\ late = {}
                /\ y \in DOMAIN NetWorthSeries(AsOf) /\ y < YearOf(AsOf)
                /\ y \in DOMAIN NetWorthSeries(AsOf)')
                 => NetWorthSeries(AsOf)[y] = (NetWorthSeries(AsOf)[y])' ]_vars
  BY YearStands
<1> QED
  BY <1>1, FactsInit, FactsStep, PTL DEF Spec, ClosedYearsStand

\* As many dates as there are places, when their order is known.
LEMMA GrowingCount ==
  ASSUME NEW n \in Nat, NEW d \in [0..n -> Nat],
         \A k, l \in 0..n : k < l => d[k] < d[l]
  PROVE  Cardinality({d[k] : k \in 0..n}) = n + 1
<1> DEFINE S == {d[k] : k \in 0..n}
<1>1. \A k, l \in 0..n : d[k] = d[l] => k = l
  <2> SUFFICES ASSUME NEW k \in 0..n, NEW l \in 0..n, d[k] = d[l], k # l
               PROVE  FALSE
    OBVIOUS
  <2>1. d[k] \in Nat /\ d[l] \in Nat /\ (k < l \/ l < k)
    OBVIOUS
  <2> QED
    BY <2>1
<1>2. d \in Bijection(0..n, S)
  <2>1. d \in [0..n -> S] /\ \A x \in S : \E k \in 0..n : d[k] = x
    OBVIOUS
  <2> HIDE DEF S
  <2> QED
    BY <1>1, <2>1 DEF Bijection, Injection, Surjection, IsInjective
<1>3. IsFiniteSet(0..n) /\ Cardinality(0..n) = n + 1
  <2>1. 0 \in Int /\ n \in Int /\ n - 0 + 1 = n + 1 /\ ~ (0 > n)
    OBVIOUS
  <2> QED
    BY <2>1, FS_Interval
<1>4. ExistsBijection(0..n, S)
  BY <1>2 DEF ExistsBijection
<1> HIDE DEF S
<1>5. Cardinality(S) = n + 1
  BY <1>3, <1>4, FS_Bijection
<1> QED
  BY <1>5 DEF S

\* Before the date at a place there are as many as the place says.
LEMMA GrowingRank ==
  ASSUME NEW n \in Nat, NEW d \in [0..n -> Nat],
         \A k, l \in 0..n : k < l => d[k] < d[l],
         NEW k \in 0..n
  PROVE  Cardinality({e \in {d[l] : l \in 0..n} : e < d[k]}) = k
<1> DEFINE B == {e \in {d[l] : l \in 0..n} : e < d[k]}
<1>1. \A l \in 0..n : d[l] < d[k] <=> l < k
  <2> SUFFICES ASSUME NEW l \in 0..n
               PROVE  d[l] < d[k] <=> l < k
    OBVIOUS
  <2>1. d[l] \in Nat /\ d[k] \in Nat /\ (l < k \/ l = k \/ k < l)
    OBVIOUS
  <2> QED
    BY <2>1
<1>2. CASE k = 0
  <2>1. B = {}
    BY <1>1, <1>2
  <2> QED
    BY <1>2, <2>1, FS_EmptySet
<1>3. CASE k # 0
  <2>1. PICK m \in Nat : m + 1 = k
    <3>1. k - 1 \in Nat /\ (k - 1) + 1 = k
      BY <1>3
    <3> QED
      BY <3>1
  <2> DEFINE f == [l \in 0..m |-> d[l]]
  <2>2. \A l \in 0..m : l \in 0..n /\ l < k /\ f[l] = d[l]
    BY <2>1
  <2>3. \A l \in 0..n : l < k => l \in 0..m
    BY <2>1
  <2>4. f \in [0..m -> Nat] /\ \A x, y \in 0..m : x < y => f[x] < f[y]
    BY <2>2
  <2>5. B = {f[l] : l \in 0..m}
    BY <1>1, <2>2, <2>3
  <2> HIDE DEF f, B
  <2>6. Cardinality({f[l] : l \in 0..m}) = m + 1
    BY <2>4, GrowingCount
  <2>7. Cardinality(B) = k
    BY <2>1, <2>5, <2>6
  <2> QED
    BY <2>7 DEF B
<1> QED
  BY <1>2, <1>3

\* Sorting dates that are known by their order.
LEMMA SortedIs ==
  ASSUME NEW n \in Nat, NEW d \in [0..n -> Nat],
         \A k, l \in 0..n : k < l => d[k] < d[l]
  PROVE  Sorted({d[k] : k \in 0..n}) = [i \in 1..(n + 1) |-> d[i - 1]]
<1> DEFINE S == {d[k] : k \in 0..n}
           AtPlace(x, i) == Cardinality({e \in S : e < x}) = i - 1
<1>1. Cardinality(S) = n + 1
  BY GrowingCount
<1>2. ASSUME NEW k \in 0..n
      PROVE  Cardinality({e \in S : e < d[k]}) = k
  BY GrowingRank
<1>3. \A x \in S : \E k \in 0..n : x = d[k]
  OBVIOUS
<1>4. \A k \in 0..n : d[k] \in S
  OBVIOUS
<1> HIDE DEF S
<1>5. ASSUME NEW i \in 1..(n + 1)
      PROVE  (CHOOSE x \in S : AtPlace(x, i)) = d[i - 1]
  <2>1. i - 1 \in 0..n
    OBVIOUS
  <2>2. d[i - 1] \in S /\ AtPlace(d[i - 1], i)
    BY <1>2, <1>4, <2>1
  <2>3. ASSUME NEW x \in S, AtPlace(x, i)
        PROVE  x = d[i - 1]
    <3>1. PICK k \in 0..n : x = d[k]
      BY <1>3
    <3>2. k = i - 1
      BY <1>2, <2>3, <3>1
    <3> QED
      BY <3>1, <3>2
  <2> HIDE DEF AtPlace
  <2> QED
    BY <2>2, <2>3
<1>6. Sorted(S) = [i \in 1..(n + 1) |-> CHOOSE x \in S : AtPlace(x, i)]
  BY <1>1 DEF Sorted
<1> HIDE DEF AtPlace
<1>7. Sorted(S) = [i \in 1..(n + 1) |-> d[i - 1]]
  BY <1>5, <1>6
<1> QED
  BY <1>7 DEF S

\* The months of a series, in multiples of its period.
LEMMA Multiples ==
  ASSUME NEW p \in {1, 3, 6, 12}, NEW k \in Nat, NEW l \in Nat
  PROVE  /\ k * p \in Nat
         /\ k < l => k * p < l * p
         /\ l = k + 1 => l * p - k * p = p
<1>1. CASE p = 1
  BY <1>1
<1>2. CASE p = 3
  BY <1>2
<1>3. CASE p = 6
  BY <1>3
<1>4. CASE p = 12
  BY <1>4
<1> QED
  BY <1>1, <1>2, <1>3, <1>4

\* A payment some months after another, on its day or the last of the month.
LEMMA LaterPayment ==
  ASSUME NEW d, IsDay(d), NEW q \in Nat
  PROVE  /\ IsDay(ShiftClamped(d, q))
         /\ MonthIndex(ShiftClamped(d, q)) = MonthIndex(d) + q
         /\ DayOf(MonthEnd(ShiftClamped(d, q))) \in 28..31
         /\ DayOf(ShiftClamped(d, q)) = Earlier(DayOf(d), DayOf(MonthEnd(ShiftClamped(d, q))))
<1>1. DayOf(d) \in 1..31 /\ MonthIndex(d) \in Nat
  BY PartsOf, MonthIndexIs
<1>2. PICK i \in Nat : i = MonthIndex(d) + q
  BY <1>1
<1>3. ShiftClamped(d, q) = Earlier(FirstOf(i) + DayOf(d) - 1, MonthEnd(FirstOf(i)))
  <2>1. (IF MonthIndex(d) + q < 0 THEN 0 ELSE MonthIndex(d) + q) = i
    BY <1>2
  <2> QED
    BY <2>1 DEF ShiftClamped
<1> QED
  BY <1>1, <1>2, <1>3, ClampedDay

\* Its day of the month is one that the service accepts after the other's.
LEMMA DaysMatch ==
  ASSUME NEW d, IsDay(d), NEW q \in Nat, NEW r \in Nat
  PROVE  BillingDayMatches(ShiftClamped(d, q), ShiftClamped(d, r))
<1>1. PICK x \in 1..31, a \in 1..31, b \in 1..31, u \in 28..31, v \in 28..31 :
        /\ x = DayOf(d)
        /\ a = DayOf(ShiftClamped(d, q)) /\ u = DayOf(MonthEnd(ShiftClamped(d, q)))
        /\ b = DayOf(ShiftClamped(d, r)) /\ v = DayOf(MonthEnd(ShiftClamped(d, r)))
  BY PartsOf, LaterPayment
<1>2. a = Earlier(x, u) /\ b = Earlier(x, v)
  BY <1>1, LaterPayment
<1>3. Abs(b - Earlier(a, v)) <= 5
  BY <1>2 DEF Abs, Earlier
<1> QED
  BY <1>1, <1>3 DEF BillingDayMatches

LEMMA ToleranceIs ==
  ASSUME NEW c \in Int
  PROVE  AmountTolerance(c) \in Int /\ AmountTolerance(c) >= 100
<1>1. PICK t \in Int : t = (Abs(c) + 25) \div 50
  <2>1. Abs(c) \in Int
    BY DEF Abs
  <2> QED
    BY <2>1
<1>2. \E x \in {100, t} : \A y \in {100, t} : x >= y
  BY <1>1
<1> HIDE DEF Max
<1>3. Max({100, t}) \in {100, t} /\ \A y \in {100, t} : Max({100, t}) >= y
  BY <1>2 DEF Max
<1> QED
  BY <1>1, <1>3 DEF AmountTolerance

\* What the service takes for payments of one series with the given one.
AlikeIn(payment, observations) ==
  {o \in observations \cup {payment} :
     /\ o.cents < 0
     /\ MerchantKey[o.merchant] = MerchantKey[payment.merchant]
     /\ Abs(Abs(o.cents) - Abs(payment.cents)) <= AmountTolerance(payment.cents)}

AlikeDates(payment, observations) == {o.date : o \in AlikeIn(payment, observations)}

\* One more date than the number given, p months apart.
SeriesDates(d, p, n) == {ShiftClamped(d, k * p) : k \in 0..n}

\* A payment is recognized when the dates of those like it are those of a
\* series of any length from three payments on.
LEMMA SeriesDetected ==
  ASSUME NEW d, IsDay(d), NEW j \in DOMAIN Periods, NEW n \in Nat, n >= 2,
         NEW payment, payment.cents \in Int, payment.cents < 0,
         MerchantKey[payment.merchant] # NoKey, NEW observations,
         AlikeDates(payment, observations) = SeriesDates(d, Periods[j], n)
  PROVE  Detect(payment, observations) = Periods[j]
<1> DEFINE ds == [k \in 0..n |-> ShiftClamped(d, k * Periods[j])]
           dates == [i \in 1..(n + 1) |-> ds[i - 1]]
<1>1. PICK p \in {1, 3, 6, 12} : p = Periods[j]
  BY DEF Periods
<1>2. \A k \in 0..n : /\ IsDay(ds[k]) /\ MonthIndex(ds[k]) = MonthIndex(d) + k * p
                      /\ k * p \in Nat
  BY <1>1, Multiples, LaterPayment
<1>3. MonthIndex(d) \in Nat
  BY MonthIndexIs
<1>4. ds \in [0..n -> Nat]
  BY <1>2 DEF IsDay
<1>5. ASSUME NEW k \in 0..n, NEW l \in 0..n, k < l
      PROVE  ds[k] < ds[l]
  <2>1. k * p < l * p
    BY <1>5, Multiples
  <2>2. MonthIndex(ds[k]) < MonthIndex(ds[l])
    BY <1>2, <1>3, <2>1
  <2>3. /\ MonthEnd(ds[k]) < MonthStart(ds[l])
        /\ ds[k] <= MonthEnd(ds[k]) /\ MonthStart(ds[l]) <= ds[l]
    BY <1>2, <2>2, MonthsInOrder, MonthOfDay
  <2>4. PICK a \in Nat, b \in Nat : a = ds[k] /\ b = ds[l]
    BY <1>4
  <2>5. MonthEnd(ds[k]) \in Nat /\ MonthStart(ds[l]) \in Int
    BY <1>2, EndOfMonth DEF IsDay, MonthStart, DayOf
  <2> QED
    BY <2>3, <2>4, <2>5
<1>6. Sorted({ds[k] : k \in 0..n}) = dates
  <2> HIDE DEF ds
  <2> QED
    BY <1>4, <1>5, SortedIs
<1>9. {o.date : o \in AlikeIn(payment, observations)} = {ds[k] : k \in 0..n}
  <2>1. SeriesDates(d, Periods[j], n) = {ds[k] : k \in 0..n}
    BY DEF SeriesDates
  <2> QED
    BY <2>1 DEF AlikeDates
<1>10. Len(dates) = n + 1 /\ dates \in Seq(Nat)
  <2>1. \A i \in 1..(n + 1) : i - 1 \in 0..n
    OBVIOUS
  <2>2. dates \in [1..(n + 1) -> Nat]
    BY <1>4, <2>1
  <2> HIDE DEF dates
  <2> QED
    BY <2>2
<1>11. \A i \in 1..n : /\ MonthIndex(dates[i + 1]) - MonthIndex(dates[i]) = p
                       /\ BillingDayMatches(dates[i], dates[i + 1])
  <2> SUFFICES ASSUME NEW i \in 1..n
               PROVE  /\ MonthIndex(dates[i + 1]) - MonthIndex(dates[i]) = p
                      /\ BillingDayMatches(dates[i], dates[i + 1])
    OBVIOUS
  <2>1. PICK k \in 0..n, l \in 0..n : k = i - 1 /\ l = k + 1 /\ l = i
    OBVIOUS
  <2>2. dates[i] = ds[k] /\ dates[i + 1] = ds[l]
    BY <2>1
  <2>3. l * p - k * p = p
    BY <2>1, Multiples
  <2>4. MonthIndex(ds[l]) - MonthIndex(ds[k]) = p
    BY <1>2, <1>3, <2>3
  <2>5. BillingDayMatches(ds[k], ds[l])
    BY <1>1, <1>2, DaysMatch
  <2> QED
    BY <2>2, <2>4, <2>5
<1>12. \A i \in DOMAIN Periods : PeriodMatches(dates, Periods[i]) <=> i = j
  <2> HIDE DEF dates
  <2>1. PeriodMatches(dates, Periods[j])
    <3>1. Len(dates) - 1 = n
      BY <1>10
    <3> QED
      BY <1>1, <1>11, <3>1 DEF PeriodMatches
  <2>2. ASSUME NEW i \in DOMAIN Periods, PeriodMatches(dates, Periods[i])
        PROVE  i = j
    <3>1. 1 \in 1..n /\ 1 \in 1..(Len(dates) - 1)
      BY <1>10
    <3>2. MonthIndex(dates[1 + 1]) - MonthIndex(dates[1]) = Periods[i]
      BY <2>2, <3>1 DEF PeriodMatches
    <3>3. Periods[i] = Periods[j]
      BY <1>1, <1>11, <3>1, <3>2
    <3> QED
      BY <3>3 DEF Periods
  <2> QED
    BY <2>1, <2>2
<1>13. {i \in DOMAIN Periods : PeriodMatches(dates, Periods[i])} = {j}
  BY <1>12
<1>14. Min({j}) = j
  <2>1. j \in Int
    BY DEF Periods
  <2> QED
    BY <2>1 DEF Min
<1>15. ~ (payment.cents >= 0) /\ ~ (Len(dates) < 3)
  BY <1>10
<1> HIDE DEF dates, ds
<1>16. PICK alike, found :
         /\ alike = AlikeIn(payment, observations)
         /\ found = {i \in DOMAIN Periods :
                       PeriodMatches(Sorted({o.date : o \in alike}), Periods[i])}
  OBVIOUS
<1>17. Sorted({o.date : o \in alike}) = dates
  BY <1>6, <1>9, <1>16
<1>18. found = {j}
  BY <1>13, <1>16, <1>17
<1>19. Detect(payment, observations) =
         IF \/ payment.cents >= 0 \/ MerchantKey[payment.merchant] = NoKey
            \/ Len(Sorted({o.date : o \in alike})) < 3 \/ found = {}
         THEN NoPeriod ELSE Periods[Min(found)]
  BY <1>16, Zenon DEF Detect, AlikeIn
<1>20. MerchantKey[payment.merchant] # NoKey
  OBVIOUS
<1> QED
  BY <1>14, <1>15, <1>17, <1>18, <1>19, <1>20

AlikeRows(m, cents) ==
  {t \in Rows : /\ KindOf(t) = "expense" /\ Amount(t) < 0
                /\ MerchantKey[Label(t)] = MerchantKey[m]
                /\ Abs(Amount(t) - cents) <= AmountTolerance(cents)}
PaidDates(m, cents) == {ledger[t].date : t \in AlikeRows(m, cents)}
Charges(later, m, cents) == {[date |-> d, merchant |-> m, cents |-> cents] : d \in later}

\* The payments of a batch are recognized when with them, what the ledger has
\* like them makes up the series.
LEMMA BatchRecognized ==
  ASSUME FactsInv, NEW start \in Days, NEW i \in DOMAIN Periods, NEW n \in 2..3,
         NEW m \in Merchants, NEW cents \in Amounts, cents < 0, MerchantKey[m] # NoKey,
         NEW due, due = SeriesDates(start, Periods[i], n),
         NEW later \in SUBSET due, due = PaidDates(m, cents) \cup later,
         NEW batch, batch = Charges(later, m, cents), NEW payment \in batch
  PROVE  Suggestions(batch)[payment] = Periods[i]
<1>1. PICK c \in Int : c = cents /\ c < 0
  BY FinancesAssumption
<1>2. \A o \in batch : o.merchant = m /\ o.cents = c /\ o.date \in later
  BY <1>1 DEF Charges
<1>3. \A o \in batch : o \in AlikeIn(payment, History \cup batch)
  <2>1. Abs(Abs(c) - Abs(c)) <= AmountTolerance(c)
    BY ToleranceIs DEF Abs
  <2> QED
    BY <1>1, <1>2, <2>1 DEF AlikeIn
<1>4. ASSUME NEW t \in Rows
      PROVE  t \in AlikeRows(m, cents) <=> /\ Amount(t) < 0 /\ KindOf(t) = "expense"
                             /\ Payment(t) \in AlikeIn(payment, History \cup batch)
  <2>1. PICK a \in Int : a = Amount(t)
    BY RowsTyped
  <2>2. a < 0 => Abs(Abs(a) - Abs(c)) = Abs(a - c)
    BY <1>1 DEF Abs
  <2>3. Payment(t).cents = a /\ Payment(t).merchant = Label(t)
    BY <2>1 DEF Payment
  <2>4. Amount(t) < 0 /\ KindOf(t) = "expense" => Payment(t) \in History
    BY DEF History
  <2>5. payment.merchant = m /\ payment.cents = c
    BY <1>2
  <2> QED
    BY <1>1, <2>1, <2>2, <2>3, <2>4, <2>5 DEF AlikeIn, AlikeRows
<1>5. ASSUME NEW o \in AlikeIn(payment, History \cup batch)
      PROVE  o.date \in due
  <2>1. o \in History \/ o \in batch
    BY DEF AlikeIn
  <2>2. CASE o \in batch
    BY <1>2, <2>2
  <2>3. CASE o \in History
    <3>1. PICK t \in Rows : Amount(t) < 0 /\ KindOf(t) = "expense" /\ o = Payment(t)
      BY <2>3 DEF History
    <3>2. t \in AlikeRows(m, cents) /\ o.date = ledger[t].date
      BY <1>4, <3>1 DEF Payment
    <3> QED
      BY <3>2 DEF PaidDates
  <2> QED
    BY <2>1, <2>2, <2>3
<1>6. ASSUME NEW e \in due
      PROVE  e \in {o.date : o \in AlikeIn(payment, History \cup batch)}
  <2>1. CASE e \in later
    <3>1. PICK o : o = [date |-> e, merchant |-> m, cents |-> cents]
      OBVIOUS
    <3>2. o \in batch /\ o.date = e
      BY <2>1, <3>1 DEF Charges
    <3> QED
      BY <1>3, <3>2
  <2>2. CASE e \notin later
    <3>1. PICK t \in AlikeRows(m, cents) : e = ledger[t].date
      BY <2>2 DEF PaidDates
    <3>2. Payment(t) \in AlikeIn(payment, History \cup batch) /\ Payment(t).date = e
      BY <1>4, <3>1 DEF Payment, AlikeRows
    <3> QED
      BY <3>2
  <2> QED
    BY <2>1, <2>2
<1>8. Detect(payment, History \cup batch) = Periods[i]
  <2>1. IsDay(start) /\ n \in Nat /\ n >= 2
    BY FinancesAssumption, DateIsDay
  <2>2. payment.cents \in Int /\ payment.cents < 0 /\ MerchantKey[payment.merchant] # NoKey
    BY <1>1, <1>2
  <2>3. AlikeDates(payment, History \cup batch) = SeriesDates(start, Periods[i], n)
    BY <1>5, <1>6 DEF AlikeDates
  <2>4. PICK observations : observations = History \cup batch
    OBVIOUS
  <2>5. AlikeDates(payment, observations) = SeriesDates(start, Periods[i], n)
    BY <2>3, <2>4
  <2>6. ASSUME NEW d, IsDay(d), NEW l \in Nat, l >= 2, NEW pay, pay.cents \in Int, pay.cents < 0,
               MerchantKey[pay.merchant] # NoKey,
               AlikeDates(pay, observations) = SeriesDates(d, Periods[i], l)
        PROVE  Detect(pay, observations) = Periods[i]
    BY <2>6, SeriesDetected
  <2>7. Detect(payment, observations) = Periods[i]
    BY <2>1, <2>2, <2>5, <2>6
  <2> QED
    BY <2>4, <2>7
<1> QED
  BY <1>8 DEF Suggestions

\* Whatever is in the ledger: where its expense rows of a merchant and about an
\* amount are payments of one regular series, the payments that complete it are
\* recognized as they are reviewed (detect_recurrence and suggest_recurrences).
\* A payment of it that is categorized as a transfer, or another charge like
\* it, leaves the case.
THEOREM SeriesAreRecognized ==
  Spec => []SeriesIsFound
<1>1. FactsInv => SeriesIsFound
  <2> SUFFICES ASSUME FactsInv, NEW start \in Days, NEW i \in DOMAIN Periods,
                      NEW n \in 2..3, NEW m \in Merchants, NEW cents \in Amounts
               PROVE  LET due == {ShiftClamped(start, k * Periods[i]) : k \in 0..n}
                          alike == {t \in Rows :
                                      /\ KindOf(t) = "expense" /\ Amount(t) < 0
                                      /\ MerchantKey[Label(t)] = MerchantKey[m]
                                      /\ Abs(Amount(t) - cents) <= AmountTolerance(cents)}
                          paid == {ledger[t].date : t \in alike}
                      IN cents < 0 /\ MerchantKey[m] # NoKey /\ paid \subseteq due =>
                           \A later \in {s \in SUBSET due : due = paid \cup s} :
                             LET batch == {[date |-> d, merchant |-> m, cents |-> cents] : d \in later}
                             IN \A payment \in batch : Suggestions(batch)[payment] = Periods[i]
    BY DEF SeriesIsFound
  <2>1. SUFFICES ASSUME cents < 0, MerchantKey[m] # NoKey,
                        NEW later \in SUBSET SeriesDates(start, Periods[i], n),
                        SeriesDates(start, Periods[i], n) = PaidDates(m, cents) \cup later,
                        NEW payment \in Charges(later, m, cents)
                 PROVE  Suggestions(Charges(later, m, cents))[payment] = Periods[i]
    BY Zenon DEF SeriesDates, PaidDates, AlikeRows, Charges
  <2>2. PICK due, batch : due = SeriesDates(start, Periods[i], n) /\ batch = Charges(later, m, cents)
    OBVIOUS
  <2>3. /\ later \in SUBSET due /\ due = PaidDates(m, cents) \cup later
        /\ payment \in batch
    BY <2>1, <2>2
  <2>4. Suggestions(batch)[payment] = Periods[i]
    BY <2>1, <2>2, <2>3, BatchRecognized
  <2> QED
    BY <2>2, <2>4
<1> QED
  BY <1>1, FactsInit, FactsStep, PTL DEF Spec
=============================================================================
