--------------------------- MODULE OperatorProofs ----------------------------
(* Facts about the operators on data that the models are built from: induction, *)
(* sums over finite sets, and the division of a plan among agents (module       *)
(* Partition): whatever the number of agents, the shares of a number of VUs or  *)
(* of an iteration budget add up to it, no two agents' shares overlap, and none *)
(* is more than one away from another.                                          *)
EXTENDS Partition, FiniteSetTheorems, WellFoundedInduction, TLAPS

-----------------------------------------------------------------------------
(* Induction.  What is to be shown is given as the set Q of the numbers, or of  *)
(* the subsets, that have it.                                                   *)

\* A non-empty set of natural numbers has a least element.
LEMMA LeastNumber ==
  ASSUME NEW T, T \subseteq Nat, T # {}
  PROVE  \E b \in T : \A d \in T : ~(d < b)
<1> DEFINE Less == {p \in Nat \X Nat : p[1] < p[2]}
<1>1. IsWellFoundedOn(Less, Nat)
  BY NatLessThanWellFounded, Zenon DEF OpToRel
<1> HIDE DEF Less
<1>2. \E b \in T : \A d \in T : ~(<<d, b>> \in Less)
  BY <1>1, WFMin
<1> QED
  BY <1>2 DEF Less

\* Induction over the natural numbers.
LEMMA NumberInduction ==
  ASSUME NEW Q, 0 \in Q, \A n \in Nat : n \in Q => n + 1 \in Q
  PROVE  \A n \in Nat : n \in Q
<1> SUFFICES ASSUME NEW k \in Nat, k \notin Q PROVE FALSE
  OBVIOUS
<1>1. PICK N : N = {n \in Nat : n \notin Q}
  OBVIOUS
<1>2. PICK m \in N : \A d \in N : ~(d < m)
  BY <1>1, LeastNumber
<1>3. m \in Nat /\ m \notin Q /\ m # 0
  BY <1>1
<1>4. m - 1 \in Nat /\ m - 1 < m /\ (m - 1) + 1 = m
  BY <1>3
<1>5. m - 1 \in Q
  BY <1>1, <1>2, <1>4
<1> QED BY <1>3, <1>4, <1>5

\* Induction over the subsets of a finite set.
LEMMA SubsetInduction ==
  ASSUME NEW A, IsFiniteSet(A), NEW Q,
         \A T \in SUBSET A : (\A x \in T : T \ {x} \in Q) => T \in Q
  PROVE  \A T \in SUBSET A : T \in Q
<1> SUFFICES ASSUME NEW B \in SUBSET A, B \notin Q PROVE FALSE
  OBVIOUS
<1>1. \A T \in SUBSET A : IsFiniteSet(T) /\ Cardinality(T) \in Nat
  BY FS_Subset, FS_CardinalityType
<1>2. PICK N : N = {n \in Nat : \E T \in SUBSET A : Cardinality(T) = n /\ T \notin Q}
  OBVIOUS
<1>3. N \subseteq Nat /\ N # {}
  BY <1>1, <1>2
<1>4. PICK m \in N : \A d \in N : ~(d < m)
  BY <1>3, LeastNumber
<1>5. PICK T \in SUBSET A : Cardinality(T) = m /\ T \notin Q
  BY <1>2, <1>4
<1>6. ASSUME NEW x \in T PROVE T \ {x} \in Q
  <2>1. Cardinality(T \ {x}) = Cardinality(T) - 1
    BY <1>1, FS_RemoveElement
  <2>2. T \ {x} \in SUBSET A
    OBVIOUS
  <2>3. Cardinality(T \ {x}) \in Nat /\ Cardinality(T) \in Nat
    BY <1>1, <2>2
  <2>4. Cardinality(T \ {x}) < m
    BY <1>5, <2>1, <2>3
  <2>5. Cardinality(T \ {x}) \notin N
    BY <1>4, <2>4
  <2> QED BY <1>2, <2>2, <2>3, <2>5
<1> QED BY <1>5, <1>6

-----------------------------------------------------------------------------
(* Sums.  SumFunctionOnSet folds a function over a set in the order of CHOOSE. *)

\* The element that is added first.
Picked(s) == CHOOSE x \in s : TRUE

\* g solves the recursion that defines the sums of f over the subsets of S.
SumsUp(g, f, S) ==
  \A s \in SUBSET S : g[s] = IF s = {} THEN 0 ELSE f[Picked(s)] + g[s \ {Picked(s)}]

\* The recursion has a solution.
LEMMA SumExists ==
  ASSUME NEW S, IsFiniteSet(S), NEW f, \A x \in S : f[x] \in Int
  PROVE  \E g \in [SUBSET S -> Int] : SumsUp(g, f, S)
<1> DEFINE Upto(n, g) == \A s \in SUBSET S : Cardinality(s) <= n =>
              g[s] = IF s = {} THEN 0 ELSE f[Picked(s)] + g[s \ {Picked(s)}]
<1>1. \A T \in SUBSET S : IsFiniteSet(T) /\ Cardinality(T) \in Nat
  BY FS_Subset, FS_CardinalityType
<1>2. \A T \in SUBSET S : T # {} => Picked(T) \in T
  BY DEF Picked
<1>3. ASSUME NEW T \in SUBSET S, T # {} PROVE Cardinality(T \ {Picked(T)}) = Cardinality(T) - 1
  BY <1>1, <1>2, <1>3, FS_RemoveElement
<1>4. \A T \in SUBSET S : Cardinality(T) <= Cardinality(S)
  BY FS_Subset
<1>5. \A n \in Nat : \E g \in [SUBSET S -> Int] : Upto(n, g)
  <2> SUFFICES ASSUME \E n \in Nat : ~\E g \in [SUBSET S -> Int] : Upto(n, g) PROVE FALSE
    OBVIOUS
  <2> HIDE DEF Upto
  <2>1. PICK N : N = {n \in Nat : ~\E g \in [SUBSET S -> Int] : Upto(n, g)}
    OBVIOUS
  <2>2. N \subseteq Nat /\ N # {}
    BY <2>1
  <2>3. PICK m \in N : \A d \in N : ~(d < m)
    BY <2>2, LeastNumber
  <2>4. PICK h \in [SUBSET S -> Int] : m # 0 => Upto(m - 1, h)
    <3>1. CASE m = 0
      <4>1. [s \in SUBSET S |-> 0] \in [SUBSET S -> Int]
        OBVIOUS
      <4> QED BY <3>1, <4>1
    <3>2. CASE m # 0
      <4>1. m - 1 \in Nat /\ m - 1 < m
        BY <3>2, <2>2
      <4>2. m - 1 \notin N
        BY <2>3, <4>1
      <4> QED BY <2>1, <4>1, <4>2
    <3> QED BY <3>1, <3>2
  <2>5. PICK g : g = [s \in SUBSET S |-> IF s = {} THEN 0 ELSE f[Picked(s)] + h[s \ {Picked(s)}]]
    OBVIOUS
  <2>6. \A s \in SUBSET S : s # {} => s \ {Picked(s)} \in SUBSET S /\ f[Picked(s)] \in Int
    BY <1>2
  <2>7. g \in [SUBSET S -> Int]
    BY <2>5, <2>6
  <2>8. ASSUME NEW s \in SUBSET S, Cardinality(s) <= m, s # {}
        PROVE  g[s \ {Picked(s)}] = h[s \ {Picked(s)}]
    <3>1. PICK t \in SUBSET S : t = s \ {Picked(s)}
      BY <2>6, <2>8
    <3>2. Cardinality(t) = Cardinality(s) - 1 /\ Cardinality(t) \in Nat /\ Cardinality(s) \in Nat
      BY <1>1, <1>3, <2>8, <3>1
    <3>3. m # 0 /\ m \in Nat /\ Cardinality(t) <= m - 1
      BY <2>2, <2>8, <3>2
    <3>4. h[t] = IF t = {} THEN 0 ELSE f[Picked(t)] + h[t \ {Picked(t)}]
      BY <2>4, <3>3 DEF Upto
    <3> QED BY <2>5, <3>1, <3>4
  <2>9. Upto(m, g)
    BY <2>5, <2>8 DEF Upto
  <2> QED BY <2>1, <2>3, <2>7, <2>9
<1>6. PICK g \in [SUBSET S -> Int] : Upto(Cardinality(S), g)
  BY <1>1, <1>5
<1> QED BY <1>4, <1>6 DEF SumsUp

\* SumFunctionOnSet is what a solution says of the whole set.
LEMMA SumSolves ==
  ASSUME NEW S, IsFiniteSet(S), NEW f, \A x \in S : f[x] \in Int
  PROVE  \E g \in [SUBSET S -> Int] : SumsUp(g, f, S) /\ SumFunctionOnSet(f, S) = g[S]
<1> DEFINE Body(g) == [s \in SUBSET S |-> IF s = {} THEN 0 ELSE f[CHOOSE x \in s : TRUE] + g[s \ {CHOOSE x \in s : TRUE}]]
<1>1. PICK h \in [SUBSET S -> Int] : SumsUp(h, f, S)
  BY SumExists
<1>2. h = Body(h)
  BY <1>1 DEF SumsUp, Picked
<1>3. PICK g : g = CHOOSE k : k = Body(k)
  OBVIOUS
<1>4. g = Body(g)
  <2> HIDE DEF Body
  <2>1. \E k : k = Body(k)
    BY <1>2
  <2> QED BY <1>3, <2>1, Zenon
<1>5. SumFunctionOnSet(f, S) = g[S]
  BY <1>3 DEF SumFunctionOnSet, FoldFunctionOnSet, MapThenFoldSet
<1>6. SumsUp(g, f, S)
  BY <1>4 DEF SumsUp, Picked
<1>7. DOMAIN g = SUBSET S /\ \A s \in SUBSET S : g[s] \in Int
  <2>1. PICK Q : Q = {s \in SUBSET S : g[s] \in Int}
    OBVIOUS
  <2>2. ASSUME NEW T \in SUBSET S, \A x \in T : T \ {x} \in Q PROVE T \in Q
    <3>1. CASE T = {}
      <4>1. g[T] = 0
        BY <1>6, <3>1 DEF SumsUp
      <4> QED BY <2>1, <4>1
    <3>2. CASE T # {}
      <4>1. Picked(T) \in T
        BY <3>2 DEF Picked
      <4>2. f[Picked(T)] \in Int /\ g[T \ {Picked(T)}] \in Int
        BY <2>1, <2>2, <4>1
      <4>3. g[T] = f[Picked(T)] + g[T \ {Picked(T)}]
        BY <1>6, <3>2 DEF SumsUp
      <4> QED BY <2>1, <4>2, <4>3
    <3> QED BY <3>1, <3>2
  <2>3. \A T \in SUBSET S : T \in Q
    BY <2>2, SubsetInduction
  <2> QED BY <1>4, <2>1, <2>3
<1>8. g = [s \in SUBSET S |-> g[s]]
  BY <1>4
<1>9. g \in [SUBSET S -> Int]
  BY <1>7, <1>8
<1> QED BY <1>5, <1>6, <1>9

\* Solutions for functions that agree on a set agree on its subsets.
LEMMA SumAgrees ==
  ASSUME NEW S, IsFiniteSet(S), NEW T \in SUBSET S, NEW f, NEW e, \A x \in T : f[x] = e[x],
         NEW g, SumsUp(g, f, S), NEW h, SumsUp(h, e, T)
  PROVE  \A s \in SUBSET T : g[s] = h[s]
<1>1. PICK Q : Q = {s \in SUBSET T : g[s] = h[s]}
  OBVIOUS
<1>2. ASSUME NEW s \in SUBSET T, \A x \in s : s \ {x} \in Q PROVE s \in Q
  <2>1. CASE s = {}
    BY <1>1, <2>1 DEF SumsUp
  <2>2. CASE s # {}
    <3>1. Picked(s) \in s
      BY <2>2 DEF Picked
    <3>2. g[s \ {Picked(s)}] = h[s \ {Picked(s)}] /\ f[Picked(s)] = e[Picked(s)]
      BY <1>1, <1>2, <3>1
    <3>3. g[s] = f[Picked(s)] + g[s \ {Picked(s)}] /\ h[s] = e[Picked(s)] + h[s \ {Picked(s)}]
      BY <2>2 DEF SumsUp
    <3> QED BY <1>1, <3>2, <3>3
  <2> QED BY <2>1, <2>2
<1>3. IsFiniteSet(T)
  BY FS_Subset
<1>4. \A s \in SUBSET T : s \in Q
  BY <1>2, <1>3, SubsetInduction
<1> QED BY <1>1, <1>4

\* A sum of integers is an integer.
LEMMA SumType ==
  ASSUME NEW S, IsFiniteSet(S), NEW f, \A x \in S : f[x] \in Int
  PROVE  SumFunctionOnSet(f, S) \in Int
<1>1. PICK g \in [SUBSET S -> Int] : SumFunctionOnSet(f, S) = g[S]
  BY SumSolves
<1> QED BY <1>1

\* The sum of nothing.
LEMMA SumEmpty ==
  ASSUME NEW f
  PROVE  SumFunctionOnSet(f, {}) = 0
<1>1. IsFiniteSet({})
  BY FS_EmptySet
<1>2. PICK g \in [SUBSET {} -> Int] : SumsUp(g, f, {}) /\ SumFunctionOnSet(f, {}) = g[{}]
  BY <1>1, SumSolves
<1> QED BY <1>2 DEF SumsUp

\* Functions that agree on a set have the same sum over it.
LEMMA SumCong ==
  ASSUME NEW S, IsFiniteSet(S), NEW f, NEW e, \A x \in S : f[x] \in Int /\ e[x] = f[x]
  PROVE  SumFunctionOnSet(e, S) = SumFunctionOnSet(f, S)
<1>1. PICK g \in [SUBSET S -> Int] : SumsUp(g, f, S) /\ SumFunctionOnSet(f, S) = g[S]
  BY SumSolves
<1>2. PICK h \in [SUBSET S -> Int] : SumsUp(h, e, S) /\ SumFunctionOnSet(e, S) = h[S]
  BY SumSolves
<1>3. \A s \in SUBSET S : g[s] = h[s]
  BY <1>1, <1>2, SumAgrees
<1> QED BY <1>1, <1>2, <1>3

\* The recursion, over sums.
LEMMA SumUnfold ==
  ASSUME NEW S, IsFiniteSet(S), NEW f, \A x \in S : f[x] \in Int, S # {}
  PROVE  SumFunctionOnSet(f, S) = f[Picked(S)] + SumFunctionOnSet(f, S \ {Picked(S)})
<1>1. PICK g \in [SUBSET S -> Int] : SumsUp(g, f, S) /\ SumFunctionOnSet(f, S) = g[S]
  BY SumSolves
<1>2. PICK T \in SUBSET S : T = S \ {Picked(S)}
  OBVIOUS
<1>3. IsFiniteSet(T)
  BY FS_Subset
<1>4. PICK h \in [SUBSET T -> Int] : SumsUp(h, f, T) /\ SumFunctionOnSet(f, T) = h[T]
  BY <1>3, SumSolves
<1>5. \A s \in SUBSET T : g[s] = h[s]
  BY <1>1, <1>4, SumAgrees
<1>6. g[S] = f[Picked(S)] + g[T]
  BY <1>1, <1>2 DEF SumsUp
<1> QED BY <1>1, <1>2, <1>4, <1>5, <1>6

\* Any element may be taken first.
LEMMA SumRemove ==
  ASSUME NEW S, IsFiniteSet(S), NEW f, \A x \in S : f[x] \in Int, NEW y \in S
  PROVE  SumFunctionOnSet(f, S) = f[y] + SumFunctionOnSet(f, S \ {y})
<1> DEFINE Sum(T) == SumFunctionOnSet(f, T)
<1>1. PICK Q : Q = {T \in SUBSET S : \A x \in T : Sum(T) = f[x] + Sum(T \ {x})}
  OBVIOUS
<1>2. \A T \in SUBSET S : IsFiniteSet(T) /\ Sum(T) \in Int
  BY FS_Subset, SumType
<1>3. \A T \in SUBSET S : T # {} => Picked(T) \in T /\ Sum(T) = f[Picked(T)] + Sum(T \ {Picked(T)})
  <2>1. \A T \in SUBSET S : T # {} => Picked(T) \in T
    BY DEF Picked
  <2> QED BY <1>2, <2>1, SumUnfold
<1> HIDE DEF Sum
<1>4. ASSUME NEW T \in SUBSET S, \A x \in T : T \ {x} \in Q, NEW x \in T
      PROVE  Sum(T) = f[x] + Sum(T \ {x})
  <2>1. PICK c \in T : c = Picked(T) /\ Sum(T) = f[c] + Sum(T \ {c})
    BY <1>3
  <2>2. CASE x = c
    BY <2>1, <2>2
  <2>3. CASE x # c
    <3>1. Sum(T \ {c}) = f[x] + Sum((T \ {c}) \ {x})
      BY <1>1, <1>4, <2>3
    <3>2. Sum(T \ {x}) = f[c] + Sum((T \ {x}) \ {c})
      BY <1>1, <1>4, <2>3
    <3>3. (T \ {c}) \ {x} = (T \ {x}) \ {c}
      OBVIOUS
    <3>4. PICK w \in Int : w = Sum((T \ {x}) \ {c})
      BY <1>2
    <3>5. PICK u \in Int, v \in Int : u = f[c] /\ v = f[x]
      OBVIOUS
    <3>6. Sum(T) = u + (v + w) /\ Sum(T \ {x}) = u + w
      BY <2>1, <3>1, <3>2, <3>3, <3>4, <3>5
    <3>7. u + (v + w) = v + (u + w)
      OBVIOUS
    <3> QED BY <3>5, <3>6, <3>7
  <2> QED BY <2>2, <2>3
<1>5. ASSUME NEW T \in SUBSET S, \A x \in T : T \ {x} \in Q PROVE T \in Q
  BY <1>1, <1>4, <1>5
<1>6. \A T \in SUBSET S : T \in Q
  BY <1>5, SubsetInduction
<1> QED BY <1>1, <1>6 DEF Sum

\* One more element.
LEMMA SumAdd ==
  ASSUME NEW S, IsFiniteSet(S), NEW f, NEW y, y \notin S, \A x \in S \cup {y} : f[x] \in Int
  PROVE  SumFunctionOnSet(f, S \cup {y}) = f[y] + SumFunctionOnSet(f, S)
<1>1. PICK T : T = S \cup {y}
  OBVIOUS
<1>2. IsFiniteSet(T)
  BY <1>1, FS_AddElement
<1>3. T \ {y} = S /\ y \in T /\ \A x \in T : f[x] \in Int
  BY <1>1
<1>4. SumFunctionOnSet(f, T) = f[y] + SumFunctionOnSet(f, T \ {y})
  BY <1>2, <1>3, SumRemove
<1> QED BY <1>1, <1>3, <1>4

\* A sum of natural numbers is one.
LEMMA SumNat ==
  ASSUME NEW S, IsFiniteSet(S), NEW f, \A x \in S : f[x] \in Nat
  PROVE  SumFunctionOnSet(f, S) \in Nat
<1>1. PICK Q : Q = {T \in SUBSET S : SumFunctionOnSet(f, T) \in Nat}
  OBVIOUS
<1>2. \A T \in SUBSET S : IsFiniteSet(T)
  BY FS_Subset
<1>3. ASSUME NEW T \in SUBSET S, \A x \in T : T \ {x} \in Q PROVE T \in Q
  <2>1. CASE T = {}
    BY <1>1, <2>1, SumEmpty
  <2>2. CASE T # {}
    <3>1. PICK y \in T : TRUE
      BY <2>2
    <3>2. SumFunctionOnSet(f, T) = f[y] + SumFunctionOnSet(f, T \ {y})
      BY <1>2, SumRemove
    <3>3. SumFunctionOnSet(f, T \ {y}) \in Nat /\ f[y] \in Nat
      BY <1>1, <1>3
    <3> QED BY <1>1, <3>2, <3>3
  <2> QED BY <2>1, <2>2
<1>4. \A T \in SUBSET S : T \in Q
  BY <1>3, SubsetInduction
<1> QED BY <1>1, <1>4

\* A sum of zeros.
LEMMA SumZero ==
  ASSUME NEW S, IsFiniteSet(S), NEW f, \A x \in S : f[x] = 0
  PROVE  SumFunctionOnSet(f, S) = 0
<1>1. PICK Q : Q = {T \in SUBSET S : SumFunctionOnSet(f, T) = 0}
  OBVIOUS
<1>2. ASSUME NEW T \in SUBSET S, \A x \in T : T \ {x} \in Q PROVE T \in Q
  <2>1. CASE T = {}
    BY <1>1, <2>1, SumEmpty
  <2>2. ASSUME NEW x \in T PROVE T \in Q
    <3>1. SumFunctionOnSet(f, T \ {x}) = 0
      BY <1>1, <1>2
    <3>2. IsFiniteSet(T) /\ \A y \in T : f[y] \in Int
      BY FS_Subset
    <3>3. SumFunctionOnSet(f, T) = f[x] + SumFunctionOnSet(f, T \ {x})
      BY <3>2, SumRemove
    <3> QED BY <1>1, <3>1, <3>3
  <2> QED BY <2>1, <2>2
<1>3. \A T \in SUBSET S : (\A x \in T : T \ {x} \in Q) => T \in Q
  BY <1>2
<1>4. \A T \in SUBSET S : T \in Q
  BY <1>3, SubsetInduction
<1> QED BY <1>1, <1>4

\* One term changes.
LEMMA SumUpdate ==
  ASSUME NEW S, IsFiniteSet(S), NEW f, NEW e, NEW y \in S, \A x \in S : f[x] \in Int,
         e[y] \in Int, \A x \in S : x # y => e[x] = f[x]
  PROVE  SumFunctionOnSet(e, S) = SumFunctionOnSet(f, S) + (e[y] - f[y])
<1>1. PICK T : T = S \ {y}
  OBVIOUS
<1>2. IsFiniteSet(T)
  BY <1>1, FS_Subset
<1>3. SumFunctionOnSet(e, T) = SumFunctionOnSet(f, T)
  BY <1>1, <1>2, SumCong
<1>4. PICK w \in Int : w = SumFunctionOnSet(f, T)
  BY <1>1, <1>2, SumType
<1>5. PICK u \in Int, v \in Int : u = f[y] /\ v = e[y]
  OBVIOUS
<1>6. SumFunctionOnSet(f, S) = u + w
  BY <1>1, <1>4, <1>5, SumRemove
<1>7. \A x \in S : e[x] \in Int
  OBVIOUS
<1>8. SumFunctionOnSet(e, S) = v + w
  BY <1>1, <1>3, <1>4, <1>5, <1>7, SumRemove
<1> QED BY <1>5, <1>6, <1>8

\* f and e differ in one term, whose sum then differs as much.
Changed(S, f, e, y) ==
  /\ IsFiniteSet(S) /\ y \in S /\ (\A x \in S : f[x] \in Int)
  /\ e[y] \in Int /\ (\A x \in S : x # y => e[x] = f[x])

\* The sum changes by what that term does.
LEMMA SumChanged ==
  ASSUME NEW S, NEW f, NEW e, NEW y, Changed(S, f, e, y)
  PROVE  SumFunctionOnSet(e, S) = SumFunctionOnSet(f, S) + (e[y] - f[y])
BY SumUpdate DEF Changed

\* A sum over numbers is split anywhere, and the second part may be numbered anew.
Renumbered(f, e, m, n) ==
  /\ m \in Nat /\ n \in Nat /\ \A i \in 1..(m + n) : f[i] \in Int
  /\ \A i \in 1..n : e[i] = f[m + i]

\* The sum of the whole is that of the two parts.
LEMMA SumShift ==
  ASSUME NEW f, NEW e, NEW m, NEW n, Renumbered(f, e, m, n)
  PROVE  SumFunctionOnSet(f, 1..(m + n)) = SumFunctionOnSet(f, 1..m) + SumFunctionOnSet(e, 1..n)
<1> USE DEF Renumbered
<1>1. PICK Q : Q = {k \in Nat : k <= n => SumFunctionOnSet(f, 1..(m + k))
                                  = SumFunctionOnSet(f, 1..m) + SumFunctionOnSet(e, 1..k)}
  OBVIOUS
<1>2. 0 \in Q
  <2>1. m + 0 = m /\ 1..0 = {}
    OBVIOUS
  <2>2. SumFunctionOnSet(e, 1..0) = 0
    BY <2>1, SumEmpty
  <2>3. IsFiniteSet(1..m) /\ \A i \in 1..m : f[i] \in Int
    BY FS_Interval
  <2>4. SumFunctionOnSet(f, 1..m) \in Int
    BY <2>3, SumType
  <2> QED BY <1>1, <2>1, <2>2, <2>4
<1>3. ASSUME NEW k \in Nat, k \in Q PROVE k + 1 \in Q
  <2>1. CASE k + 1 > n
    BY <1>1, <2>1
  <2>2. CASE k + 1 <= n
    <3>1. SumFunctionOnSet(f, 1..(m + k)) = SumFunctionOnSet(f, 1..m) + SumFunctionOnSet(e, 1..k)
      BY <1>1, <1>3, <2>2
    <3>2. /\ 1..(m + (k + 1)) = 1..(m + k) \cup {m + (k + 1)} /\ m + (k + 1) \notin 1..(m + k)
          /\ 1..(k + 1) = 1..k \cup {k + 1} /\ k + 1 \notin 1..k
      OBVIOUS
    <3>3. PICK y, z, A, B : y = m + (k + 1) /\ z = k + 1 /\ A = 1..(m + k) /\ B = 1..k
      OBVIOUS
    <3>4. IsFiniteSet(A) /\ IsFiniteSet(B) /\ IsFiniteSet(1..m)
      BY <3>3, FS_Interval
    <3>5. /\ \A x \in A \cup {y} : f[x] \in Int
          /\ \A x \in B \cup {z} : e[x] \in Int
          /\ \A x \in 1..m : f[x] \in Int
      BY <2>2, <3>3
    <3>6. SumFunctionOnSet(f, A \cup {y}) = f[y] + SumFunctionOnSet(f, A)
      BY <3>2, <3>3, <3>4, <3>5, SumAdd
    <3>7. SumFunctionOnSet(e, B \cup {z}) = e[z] + SumFunctionOnSet(e, B)
      BY <3>2, <3>3, <3>4, <3>5, SumAdd
    <3>8. f[y] = e[z] /\ f[y] \in Int
      BY <2>2, <3>3, <3>5
    <3>9. SumFunctionOnSet(f, 1..m) \in Int /\ SumFunctionOnSet(e, B) \in Int
      BY <3>4, <3>5, SumType
    <3>10. SumFunctionOnSet(f, A \cup {y}) = SumFunctionOnSet(f, 1..m) + SumFunctionOnSet(e, B \cup {z})
      BY <3>1, <3>3, <3>6, <3>7, <3>8, <3>9
    <3>11. A \cup {y} = 1..(m + (k + 1)) /\ B \cup {z} = 1..(k + 1)
      BY <3>2, <3>3
    <3>12. SumFunctionOnSet(f, 1..(m + (k + 1)))
             = SumFunctionOnSet(f, 1..m) + SumFunctionOnSet(e, 1..(k + 1))
      BY <3>10, <3>11
    <3> QED BY <1>1, <3>12
  <2> QED BY <2>1, <2>2
<1>4. \A k \in Nat : k \in Q
  BY <1>2, <1>3, NumberInduction
<1> QED BY <1>1, <1>4

\* A sum over a sequence's positions: one position more at the end.
Extended(f, e, n) ==
  /\ n \in Nat /\ (\A i \in 1..n : f[i] \in Int /\ e[i] = f[i]) /\ e[n + 1] \in Int

\* The sum grows by the term at that position.
LEMMA SumExtended ==
  ASSUME NEW f, NEW e, NEW n, Extended(f, e, n)
  PROVE  SumFunctionOnSet(e, 1..(n + 1)) = SumFunctionOnSet(f, 1..n) + e[n + 1]
<1>1. n \in Nat /\ (\A i \in 1..n : f[i] \in Int /\ e[i] = f[i]) /\ e[n + 1] \in Int
  BY DEF Extended
<1>2. PICK S : S = 1..n
  OBVIOUS
<1>3. IsFiniteSet(S) /\ n + 1 \notin S /\ S \cup {n + 1} = 1..(n + 1)
  <2>1. 1 \in Int /\ n \in Int
    BY <1>1
  <2>2. IsFiniteSet(1..n)
    BY <2>1, FS_Interval
  <2>3. n + 1 \notin 1..n /\ (1..n) \cup {n + 1} = 1..(n + 1)
    BY <1>1
  <2> QED BY <1>2, <2>2, <2>3
<1>4. \A i \in S \cup {n + 1} : e[i] \in Int
  BY <1>1, <1>2
<1>5. SumFunctionOnSet(e, S \cup {n + 1}) = e[n + 1] + SumFunctionOnSet(e, S)
  BY <1>3, <1>4, SumAdd
<1>6. SumFunctionOnSet(e, S) = SumFunctionOnSet(f, S) /\ SumFunctionOnSet(f, S) \in Int
  <2>1. \A i \in S : f[i] \in Int /\ e[i] = f[i]
    BY <1>1, <1>2
  <2> QED BY <1>3, <2>1, SumCong, SumType
<1>7. PICK a \in Int, b \in Int : a = SumFunctionOnSet(f, S) /\ b = e[n + 1]
  BY <1>1, <1>6
<1>8. SumFunctionOnSet(e, 1..(n + 1)) = b + a
  BY <1>3, <1>5, <1>6, <1>7, Zenon
<1>9. SumFunctionOnSet(f, 1..n) = a
  BY <1>2, <1>7
<1>10. b + a = a + b
  OBVIOUS
<1> QED BY <1>7, <1>8, <1>9, <1>10

\* One position less at the front.
Shortened(f, e, n) ==
  /\ n \in Nat /\ (\A i \in 1..(n + 1) : f[i] \in Int) /\ (\A i \in 1..n : e[i] = f[i + 1])

\* The sum is the first term and the sum of the rest.
LEMMA SumShortened ==
  ASSUME NEW f, NEW e, NEW n, Shortened(f, e, n)
  PROVE  SumFunctionOnSet(f, 1..(n + 1)) = f[1] + SumFunctionOnSet(e, 1..n)
<1>1. n \in Nat /\ (\A i \in 1..(n + 1) : f[i] \in Int) /\ (\A i \in 1..n : e[i] = f[i + 1])
  BY DEF Shortened
<1>2. PICK k \in Nat : k = 1
  OBVIOUS
<1>3. SumFunctionOnSet(f, 1..(k + n)) = SumFunctionOnSet(f, 1..k) + SumFunctionOnSet(e, 1..n)
  <2>1. \A i \in 1..(k + n) : f[i] \in Int
    BY <1>1, <1>2
  <2>2. \A i \in 1..n : e[i] = f[k + i]
    BY <1>1, <1>2
  <2>3. Renumbered(f, e, k, n)
    BY <1>1, <2>1, <2>2 DEF Renumbered
  <2> QED BY <1>1, <2>3, SumShift
<1>4. SumFunctionOnSet(f, 1..1) = f[1]
  <2>1. 1..1 = {} \cup {1} /\ IsFiniteSet({}) /\ 1 \notin {} /\ f[1] \in Int
    BY <1>1, FS_EmptySet
  <2>2. \A i \in {} \cup {1} : f[i] \in Int
    BY <2>1
  <2>3. SumFunctionOnSet(f, {} \cup {1}) = f[1] + SumFunctionOnSet(f, {})
    BY <2>1, <2>2, SumAdd
  <2> QED BY <2>1, <2>3, SumEmpty
<1>5. SumFunctionOnSet(f, 1..(1 + n)) = SumFunctionOnSet(f, 1..1) + SumFunctionOnSet(e, 1..n)
  BY <1>2, <1>3
<1>6. 1 + n = n + 1
  BY <1>1
<1> QED BY <1>4, <1>5, <1>6

\* What q numbers from 1 to k.
Numbered(q, k) == {q[i] : i \in 1..k}

\* What is numbered is finite.
LEMMA NumberedFinite ==
  ASSUME NEW q
  PROVE  \A k \in Nat : IsFiniteSet(Numbered(q, k))
<1>1. PICK Q : Q = {k \in Nat : IsFiniteSet(Numbered(q, k))}
  OBVIOUS
<1>2. 0 \in Q
  <2>1. Numbered(q, 0) = {}
    BY DEF Numbered
  <2> QED BY <1>1, <2>1, FS_EmptySet
<1>3. ASSUME NEW k \in Nat, k \in Q PROVE k + 1 \in Q
  <2>1. Numbered(q, k + 1) = Numbered(q, k) \cup {q[k + 1]}
    BY DEF Numbered
  <2>2. PICK S : S = Numbered(q, k) /\ IsFiniteSet(S)
    BY <1>1, <1>3
  <2>3. IsFiniteSet(S \cup {q[k + 1]})
    BY <2>2, FS_AddElement
  <2> QED BY <1>1, <2>1, <2>2, <2>3
<1>4. \A k \in Nat : k \in Q
  BY <1>2, <1>3, NumberInduction
<1> QED BY <1>1, <1>4

\* Sums over the values of a one-to-one numbering, term by term.
LEMMA SumNumbered ==
  ASSUME NEW f, NEW q, NEW k \in Nat, \A i \in 1..(k + 1) : f[q[i]] \in Int,
         \A i, j \in 1..(k + 1) : q[i] = q[j] => i = j
  PROVE  SumFunctionOnSet(f, Numbered(q, k + 1))
           = SumFunctionOnSet(f, Numbered(q, k)) + f[q[k + 1]]
<1>1. PICK S : S = Numbered(q, k)
  OBVIOUS
<1>2. IsFiniteSet(S)
  BY <1>1, NumberedFinite
<1>3. Numbered(q, k + 1) = S \cup {q[k + 1]} /\ q[k + 1] \notin S
  BY <1>1 DEF Numbered
<1>4. \A x \in S \cup {q[k + 1]} : f[x] \in Int
  BY <1>1 DEF Numbered
<1>5. SumFunctionOnSet(f, S \cup {q[k + 1]}) = f[q[k + 1]] + SumFunctionOnSet(f, S)
  BY <1>2, <1>3, <1>4, SumAdd
<1>6. SumFunctionOnSet(f, S) \in Int /\ f[q[k + 1]] \in Int
  BY <1>2, <1>4, SumType
<1> QED BY <1>1, <1>3, <1>5, <1>6

-----------------------------------------------------------------------------
(* The division of a plan. *)

\* Where the share of an agent starts when the shares are laid out in order: the
\* sum of the shares of the agents before it, in closed form.
Start(n, index, count) ==
  index * (n \div count) + (IF index < n % count THEN index ELSE n % count)

\* Quotient and remainder.
LEMMA DivMod ==
  ASSUME NEW n \in Nat, NEW count \in Nat \ {0}
  PROVE  /\ n \div count \in Nat /\ n % count \in 0..(count - 1)
         /\ n = count * (n \div count) + (n % count)
  OBVIOUS

\* Multiplication by a natural number is monotone.
LEMMA TimesMonotone ==
  ASSUME NEW q \in Nat, NEW i \in Nat, NEW j \in Nat, i <= j
  PROVE  i * q <= j * q
  <1>1. PICK d \in Nat : j = i + d
    BY j - i \in Nat
  <1>2. j * q = i * q + d * q
    BY <1>1
  <1>3. d * q \in Nat /\ i * q \in Nat
    BY <1>1
  <1> QED BY <1>2, <1>3

\* Split gives away exactly what there is: the first share starts at 0, each
\* starts where the one before it ends, and the last ends at n.  So the shared
\* iterations that the agents of a run execute are the plan's, for any count.
THEOREM SplitTiles ==
  ASSUME NEW n \in Nat, NEW count \in Nat \ {0}
  PROVE  /\ Start(n, 0, count) = 0
         /\ \A i \in 0..(count - 1) :
              Start(n, i + 1, count) = Start(n, i, count) + Split(n, i, count)
         /\ Start(n, count, count) = n
  <1> DEFINE q == n \div count
             r == n % count
  <1>1. q \in Nat /\ r \in 0..(count - 1) /\ n = count * q + r
    BY DivMod
  <1>2. Start(n, 0, count) = 0
    BY <1>1, 0 * q = 0 DEF Start
  <1>3. ASSUME NEW i \in 0..(count - 1)
        PROVE  Start(n, i + 1, count) = Start(n, i, count) + Split(n, i, count)
    <2>1. (i + 1) * q = i * q + q /\ i * q \in Nat
      BY <1>1
    <2> HIDE DEF q, r
    <2>2. Start(n, i, count) = i * q + (IF i < r THEN i ELSE r)
      BY DEF Start, q, r
    <2>3. Start(n, i + 1, count) = (i + 1) * q + (IF i + 1 < r THEN i + 1 ELSE r)
      BY DEF Start, q, r
    <2>4. Split(n, i, count) = q + (IF i < r THEN 1 ELSE 0)
      BY DEF Split, q, r
    <2> QED BY <1>1, <2>1, <2>2, <2>3, <2>4
  <1>4. Start(n, count, count) = n
    BY <1>1 DEF Start
  <1> QED BY <1>2, <1>3, <1>4

\* The shares of a number, whoever is given the i-th, add up to it.
THEOREM SplitSums ==
  ASSUME NEW n \in Nat, NEW count \in Nat \ {0}, NEW f, NEW q,
         \A i, j \in 1..count : q[i] = q[j] => i = j,
         \A i \in 1..count : f[q[i]] = Split(n, i - 1, count)
  PROVE  SumFunctionOnSet(f, Numbered(q, count)) = n
<1> DEFINE Sum(k) == SumFunctionOnSet(f, Numbered(q, k))
<1>1. PICK Q : Q = {k \in Nat : k <= count => Sum(k) = Start(n, k, count)}
  OBVIOUS
<1>2. \A i \in 1..count : f[q[i]] \in Int
  <2>1. ASSUME NEW i \in 1..count PROVE Split(n, i - 1, count) \in Int
    BY DivMod DEF Split
  <2> QED BY <2>1
<1>3. 0 \in Q
  <2>1. Numbered(q, 0) = {}
    BY DEF Numbered
  <2>2. Sum(0) = 0
    BY <2>1, SumEmpty
  <2> QED BY <1>1, <2>2, SplitTiles
<1>4. ASSUME NEW k \in Nat, k \in Q PROVE k + 1 \in Q
  <2>1. CASE k + 1 <= count
    <3>1. Sum(k) = Start(n, k, count)
      BY <1>1, <1>4, <2>1
    <3>2. \A i \in 1..(k + 1) : i \in 1..count
      BY <2>1
    <3>3. Sum(k + 1) = Sum(k) + f[q[k + 1]]
      <4>1. \A i \in 1..(k + 1) : f[q[i]] \in Int
        BY <1>2, <3>2
      <4>2. \A i, j \in 1..(k + 1) : q[i] = q[j] => i = j
        BY <3>2
      <4>3. SumFunctionOnSet(f, Numbered(q, k + 1)) = SumFunctionOnSet(f, Numbered(q, k)) + f[q[k + 1]]
        <5> HIDE DEF Sum
        <5> QED BY <4>1, <4>2, SumNumbered, SMTT(30)
      <4> QED BY <4>3
    <3>4. k \in 0..(count - 1) /\ k + 1 \in 1..count /\ (k + 1) - 1 = k
      BY <2>1
    <3>5. f[q[k + 1]] = Split(n, k, count)
      BY <3>4
    <3>6. Start(n, k + 1, count) = Start(n, k, count) + Split(n, k, count)
      BY <3>4, SplitTiles
    <3> QED BY <1>1, <3>1, <3>3, <3>5, <3>6
  <2>2. CASE ~(k + 1 <= count)
    BY <1>1, <2>2
  <2> QED BY <2>1, <2>2
<1>5. count \in Q
  BY <1>3, <1>4, NumberInduction
<1> QED BY <1>1, <1>5, SplitTiles

\* No two agents are given the same part: the share of an agent ends before
\* that of any later one begins.
THEOREM SplitDisjoint ==
  ASSUME NEW n \in Nat, NEW count \in Nat \ {0},
         NEW i \in 0..(count - 1), NEW j \in 0..(count - 1), i < j
  PROVE  Start(n, i, count) + Split(n, i, count) <= Start(n, j, count)
  <1> DEFINE q == n \div count
             r == n % count
  <1>1. q \in Nat /\ r \in 0..(count - 1)
    BY DivMod
  <1>2. (i + 1) * q <= j * q
    BY <1>1, TimesMonotone, i + 1 \in Nat, j \in Nat, i + 1 <= j
  <1>3. Start(n, i, count) + Split(n, i, count) = Start(n, i + 1, count)
    BY SplitTiles
  <1>4. (i + 1) * q \in Nat /\ j * q \in Nat
    BY <1>1
  <1> HIDE DEF q, r
  <1>5. Start(n, i + 1, count) = (i + 1) * q + (IF i + 1 < r THEN i + 1 ELSE r)
    BY DEF Start, q, r
  <1>6. Start(n, j, count) = j * q + (IF j < r THEN j ELSE r)
    BY DEF Start, q, r
  <1>7. (IF i + 1 < r THEN i + 1 ELSE r) <= (IF j < r THEN j ELSE r)
    BY <1>1
  <1> QED BY <1>1, <1>2, <1>3, <1>4, <1>5, <1>6, <1>7

\* A larger pool gives every agent at least as much, so the largest target of a
\* divided ramp is the divided largest target: vu_capacity of an agent's part
\* does not depend on the order of taking the maximum and dividing.
THEOREM SplitMonotone ==
  ASSUME NEW m \in Nat, NEW n \in Nat, NEW count \in Nat \ {0},
         NEW index \in 0..(count - 1), m <= n
  PROVE  Split(m, index, count) <= Split(n, index, count)
  <1> DEFINE p == m \div count
             q == n \div count
             a == m % count
             b == n % count
  <1>1. p \in Nat /\ a \in 0..(count - 1) /\ m = count * p + a
    BY DivMod
  <1>2. q \in Nat /\ b \in 0..(count - 1) /\ n = count * q + b
    BY DivMod
  <1> HIDE DEF p, q, a, b
  <1>3. p <= q
    <2> SUFFICES ASSUME q + 1 <= p PROVE FALSE
      BY <1>1, <1>2
    <2>1. (q + 1) * count <= p * count
      BY <1>1, <1>2, TimesMonotone, q + 1 \in Nat, count \in Nat
    <2>2. (q + 1) * count = count * q + count /\ p * count = count * p
      BY <1>1, <1>2
    <2>3. count * q \in Nat /\ count * p \in Nat
      BY <1>1, <1>2
    <2> QED BY <1>1, <1>2, <2>1, <2>2, <2>3
  <1>4. Split(m, index, count) = p + (IF index < a THEN 1 ELSE 0)
    BY DEF Split, p, a
  <1>5. Split(n, index, count) = q + (IF index < b THEN 1 ELSE 0)
    BY DEF Split, q, b
  <1>6. CASE p < q
    BY <1>1, <1>2, <1>4, <1>5, <1>6
  <1>7. CASE p = q
    <2>1. a <= b
      <3>1. count * p \in Nat
        BY <1>1
      <3> QED BY <1>1, <1>2, <1>7, <3>1
    <2> QED BY <1>1, <1>2, <1>4, <1>5, <1>7, <2>1
  <1> QED BY <1>1, <1>2, <1>3, <1>6, <1>7
-----------------------------------------------------------------------------
(* Places of VUs in the fleet. *)

\* A finite set of natural numbers has a maximum.
LEMMA MaxOf ==
  ASSUME NEW S, IsFiniteSet(S), S \subseteq Nat, S # {}
  PROVE  Max(S) \in S /\ \A y \in S : y <= Max(S)
<1>1. PICK Q : Q = {T \in SUBSET S : T = {} \/ \E x \in T : \A y \in T : y <= x}
  OBVIOUS
<1>2. ASSUME NEW T \in SUBSET S, \A x \in T : T \ {x} \in Q PROVE T \in Q
  <2>1. CASE T = {}
    BY <1>1, <2>1
  <2>2. ASSUME NEW x \in T PROVE T \in Q
    <3>1. PICK R : R = T \ {x} /\ R \in Q
      BY <1>2
    <3>2. x \in Nat /\ T \subseteq Nat
      OBVIOUS
    <3>3. CASE R = {}
      <4>1. \A y \in T : y <= x
        BY <3>1, <3>2, <3>3
      <4> QED BY <1>1, <4>1
    <3>4. ASSUME NEW z \in R, \A y \in R : y <= z PROVE T \in Q
      <4>1. CASE z <= x
        <5>1. \A y \in T : y <= x
          BY <3>1, <3>2, <3>4, <4>1
        <5> QED BY <1>1, <5>1
      <4>2. CASE ~(z <= x)
        <5>1. z \in T /\ \A y \in T : y <= z
          BY <3>1, <3>2, <3>4, <4>2
        <5> QED BY <1>1, <5>1
      <4> QED BY <4>1, <4>2
    <3> QED BY <1>1, <3>1, <3>3, <3>4
  <2> QED BY <2>1, <2>2
<1>3. S \in Q
  BY <1>2, SubsetInduction
<1>4. \E x \in S : \A y \in S : x >= y
  BY <1>1, <1>3
<1>5. Max(S) \in S /\ \A y \in S : Max(S) >= y
  BY <1>4, Zenon DEF Max
<1> QED BY <1>5

\* What is at most term by term is at most in sum.
LEMMA SumMonotone ==
  ASSUME NEW S, IsFiniteSet(S), NEW f, NEW e, \A x \in S : f[x] \in Int /\ e[x] \in Int /\ f[x] <= e[x]
  PROVE  SumFunctionOnSet(f, S) <= SumFunctionOnSet(e, S)
<1>1. PICK Q : Q = {T \in SUBSET S : SumFunctionOnSet(f, T) <= SumFunctionOnSet(e, T)}
  OBVIOUS
<1>2. \A T \in SUBSET S : /\ IsFiniteSet(T) /\ SumFunctionOnSet(f, T) \in Int
                          /\ SumFunctionOnSet(e, T) \in Int
  BY FS_Subset, SumType
<1>3. ASSUME NEW T \in SUBSET S, \A x \in T : T \ {x} \in Q PROVE T \in Q
  <2>1. CASE T = {}
    BY <1>1, <2>1, SumEmpty
  <2>2. ASSUME NEW x \in T PROVE T \in Q
    <3>1. PICK R \in SUBSET S : R = T \ {x} /\ R \in Q
      BY <1>3
    <3>2. IsFiniteSet(T) /\ \A z \in T : f[z] \in Int /\ e[z] \in Int
      BY <1>2
    <3>3. SumFunctionOnSet(f, T) = f[x] + SumFunctionOnSet(f, R)
      BY <3>1, <3>2, SumRemove
    <3>4. SumFunctionOnSet(e, T) = e[x] + SumFunctionOnSet(e, R)
      BY <3>1, <3>2, SumRemove
    <3>5. SumFunctionOnSet(f, R) <= SumFunctionOnSet(e, R) /\ f[x] <= e[x]
      BY <1>1, <3>1
    <3>6. SumFunctionOnSet(f, T) <= SumFunctionOnSet(e, T)
      BY <1>2, <3>1, <3>2, <3>3, <3>4, <3>5
    <3> QED BY <1>1, <3>6
  <2> QED BY <2>1, <2>2
<1>4. \A T \in SUBSET S : (\A x \in T : T \ {x} \in Q) => T \in Q
  BY <1>3
<1>5. S \in Q
  <2>1. \A T \in SUBSET S : T \in Q
    BY <1>4, SubsetInduction
  <2> QED BY <2>1
<1> QED BY <1>1, <1>5

\* A divided executor has as many VU numbers, all natural, and vu_capacity is the
\* largest of them.
LEMMA CapacityOf ==
  ASSUME NEW spec \in Executor, NEW i \in Nat, NEW n \in Nat \ {0}
  PROVE  /\ VuCapacity(PartitionSpec(spec, i, n)) \in Nat
         /\ \A k \in DOMAIN spec.vus :
              /\ PartitionSpec(spec, i, n).vus[k] \in Nat
              /\ PartitionSpec(spec, i, n).vus[k] <= VuCapacity(PartitionSpec(spec, i, n))
<1>1. \E L \in Nat : /\ DOMAIN PartitionSpec(spec, i, n).vus = 1..L /\ DOMAIN spec.vus = 1..L
                     /\ 1..L # {}
  <2>1. spec.vus \in Seq(Nat) /\ spec.vus # <<>>
    BY DEF Executor
  <2>2. Len(spec.vus) \in Nat /\ DOMAIN spec.vus = 1..Len(spec.vus) /\ Len(spec.vus) # 0
    BY <2>1
  <2>3. DOMAIN PartitionSpec(spec, i, n).vus = DOMAIN spec.vus
    BY DEF PartitionSpec
  <2>4. 1 \in 1..Len(spec.vus)
    BY <2>2
  <2> QED BY <2>2, <2>3, <2>4
<1>a. PICK L \in Nat : /\ DOMAIN PartitionSpec(spec, i, n).vus = 1..L /\ DOMAIN spec.vus = 1..L
                       /\ 1..L # {}
  BY <1>1
<1>b. PICK q : q = PartitionSpec(spec, i, n).vus /\ DOMAIN q = 1..L
  BY <1>a
<1>2. \A k \in 1..L : q[k] \in Nat
  <2>1. ASSUME NEW v \in Nat PROVE Split(v, i, n) \in Nat /\ SplitMin1(v, i, n) \in Nat
    BY DivMod DEF Split, SplitMin1
  <2>2. \A k \in 1..L : spec.vus[k] \in Nat
    BY <1>a, <1>b DEF Executor
  <2> QED BY <1>a, <1>b, <2>1, <2>2 DEF PartitionSpec
<1>3. PICK S : S = Range(q) /\ S = Numbered(q, L)
  BY <1>a, <1>b DEF Range, Numbered
<1>4. IsFiniteSet(S)
  BY <1>3, NumberedFinite
<1>5. S \subseteq Nat /\ S # {} /\ \A k \in 1..L : q[k] \in S
  BY <1>a, <1>b, <1>2, <1>3 DEF Range
<1>6. Max(S) \in S /\ \A y \in S : y <= Max(S)
  BY <1>4, <1>5, MaxOf
<1>7. VuCapacity(PartitionSpec(spec, i, n)) = Max(S)
  BY <1>a, <1>b, <1>3 DEF VuCapacity
<1> QED BY <1>a, <1>b, <1>2, <1>5, <1>6, <1>7

\* An agent's capacities, and its share.
Capacities(p, i, n) == [s \in DOMAIN p |-> VuCapacity(PartitionSpec(p[s], i, n))]

\* An agent's share is the sum of its capacities.
LEMMA ShareOf ==
  ASSUME NEW p \in Seq(Executor), NEW i \in Nat, NEW n \in Nat \ {0}
  PROVE  /\ IsFiniteSet(DOMAIN p) /\ \A s \in DOMAIN p : Capacities(p, i, n)[s] \in Nat
         /\ Share(p, i, n) = SumFunctionOnSet(Capacities(p, i, n), DOMAIN p)
         /\ Share(p, i, n) \in Nat
<1>1. IsFiniteSet(DOMAIN p)
  <2>1. DOMAIN p = 1..Len(p) /\ Len(p) \in Nat
    OBVIOUS
  <2> QED BY <2>1, FS_Interval
<1>2. \A s \in DOMAIN p : Capacities(p, i, n)[s] \in Nat
  <2>1. \A s \in DOMAIN p : p[s] \in Executor
    OBVIOUS
  <2> QED BY <2>1, CapacityOf DEF Capacities
<1>3. Share(p, i, n) = SumFunctionOnSet(Capacities(p, i, n), DOMAIN p)
  <2>1. DOMAIN Capacities(p, i, n) = DOMAIN p
    BY DEF Capacities
  <2>2. Share(p, i, n) = SumFunction(Capacities(p, i, n))
    BY Zenon DEF Share, Capacities
  <2> QED BY <2>1, <2>2, Zenon DEF SumFunction
<1> QED BY <1>1, <1>2, <1>3, SumNat

\* The offset of an agent is that of the agent before it, and its share.
LEMMA OffsetStep ==
  ASSUME NEW p \in Seq(Executor), NEW i \in Nat, NEW n \in Nat \ {0}
  PROVE  /\ VuOffset(p, i, n) \in Nat
         /\ VuOffset(p, i + 1, n) = VuOffset(p, i, n) + Share(p, i, n)
<1> DEFINE Shares(k) == [j \in 0..(k - 1) |-> Share(p, j, n)]
<1>1. ASSUME NEW k \in Nat
      PROVE  VuOffset(p, k, n) = SumFunctionOnSet(Shares(k), 0..(k - 1))
  <2>1. DOMAIN Shares(k) = 0..(k - 1)
    OBVIOUS
  <2>2. VuOffset(p, k, n) = SumFunction(Shares(k))
    BY Zenon DEF VuOffset
  <2> QED BY <2>1, <2>2, Zenon DEF SumFunction
<1>2. \A j \in Nat : Share(p, j, n) \in Nat
  BY ShareOf
<1>3. PICK S, f, e : /\ S = 0..(i - 1) /\ f = Shares(i) /\ e = Shares(i + 1)
                     /\ SumFunctionOnSet(f, S) = VuOffset(p, i, n)
                     /\ SumFunctionOnSet(e, 0..i) = VuOffset(p, i + 1, n)
  <2>1. (i + 1) - 1 = i /\ i + 1 \in Nat
    OBVIOUS
  <2>2. VuOffset(p, i + 1, n) = SumFunctionOnSet(Shares(i + 1), 0..((i + 1) - 1))
    BY <1>1, <2>1
  <2> HIDE DEF Shares
  <2>3. VuOffset(p, i + 1, n) = SumFunctionOnSet(Shares(i + 1), 0..i)
    BY <2>1, <2>2
  <2>4. VuOffset(p, i, n) = SumFunctionOnSet(Shares(i), 0..(i - 1))
    BY <1>1
  <2> QED BY <2>3, <2>4
<1>4. IsFiniteSet(S) /\ i \notin S /\ S \cup {i} = 0..i
  <2>1. 0 \in Int /\ i - 1 \in Int
    OBVIOUS
  <2>2. S = 0..(i - 1)
    BY <1>3
  <2>3. IsFiniteSet(S)
    BY <2>1, <2>2, FS_Interval
  <2>4. i \notin S /\ S \cup {i} = 0..i
    BY <2>2
  <2> QED BY <2>3, <2>4
<1>5. /\ \A j \in S : f[j] = Share(p, j, n) /\ e[j] = Share(p, j, n) /\ j \in Nat
      /\ e[i] = Share(p, i, n)
  BY <1>3
<1>6. (\A j \in S : f[j] \in Nat /\ e[j] = f[j]) /\ \A j \in S \cup {i} : e[j] \in Int
  <2>1. \A j \in S : f[j] \in Nat /\ e[j] \in Nat /\ e[j] = f[j]
    BY <1>2, <1>5
  <2>2. e[i] \in Nat
    BY <1>2, <1>5
  <2> QED BY <2>1, <2>2
<1>7. SumFunctionOnSet(e, S \cup {i}) = e[i] + SumFunctionOnSet(e, S)
  BY <1>4, <1>6, SumAdd
<1>8. SumFunctionOnSet(e, S) = SumFunctionOnSet(f, S)
  BY <1>4, <1>6, SumCong
<1>9. SumFunctionOnSet(f, S) \in Nat
  BY <1>4, <1>6, SumNat
<1>10. VuOffset(p, i, n) = SumFunctionOnSet(f, S) /\ VuOffset(p, i + 1, n) = SumFunctionOnSet(e, S \cup {i})
  BY <1>3, <1>4
<1> QED BY <1>2, <1>5, <1>7, <1>8, <1>9, <1>10

\* Agents number their VUs by themselves and scenarios share an agent's numbers, and
\* yet no VU of an agent has the place of a VU of a later one (vu_placement of
\* engine.rs), for every plan and every number of agents.
THEOREM PlacesDisjoint ==
  ASSUME NEW p \in Seq(Executor), NEW n \in Nat \ {0}, NEW i \in Nat, NEW j \in Nat, i < j,
         NEW v \in 1..Share(p, i, n), NEW w \in 1..Share(p, j, n)
  PROVE  VuOffset(p, i, n) + v < VuOffset(p, j, n) + w
<1>1. PICK Q : Q = {d \in Nat : VuOffset(p, i + 1, n) <= VuOffset(p, (i + 1) + d, n)}
  OBVIOUS
<1>2. \A k \in Nat : VuOffset(p, k, n) \in Nat /\ Share(p, k, n) \in Nat
  BY OffsetStep, ShareOf
<1>3. 0 \in Q
  <2>1. i + 1 \in Nat /\ (i + 1) + 0 = i + 1
    OBVIOUS
  <2>2. VuOffset(p, i + 1, n) \in Nat
    BY <1>2, <2>1
  <2> QED BY <1>1, <2>1, <2>2
<1>4. ASSUME NEW d \in Nat, d \in Q PROVE d + 1 \in Q
  <2>1. PICK k \in Nat : k = (i + 1) + d
    OBVIOUS
  <2>2. VuOffset(p, k + 1, n) = VuOffset(p, k, n) + Share(p, k, n)
    BY OffsetStep
  <2>3. VuOffset(p, i + 1, n) <= VuOffset(p, k, n) /\ i + 1 \in Nat
    BY <1>1, <1>4, <2>1
  <2>a. /\ VuOffset(p, i + 1, n) \in Nat /\ VuOffset(p, k, n) \in Nat /\ Share(p, k, n) \in Nat
    BY <1>2, <2>3
  <2>4. VuOffset(p, i + 1, n) <= VuOffset(p, k + 1, n)
    BY <2>a, <2>2, <2>3
  <2>5. (i + 1) + (d + 1) = k + 1
    BY <2>1
  <2> QED BY <1>1, <2>4, <2>5
<1>5. PICK d \in Nat : j = (i + 1) + d
  BY j - (i + 1) \in Nat
<1>6. VuOffset(p, i + 1, n) <= VuOffset(p, j, n)
  <2>1. d \in Q
    BY <1>3, <1>4, NumberInduction
  <2> QED BY <1>1, <1>5, <2>1
<1>7. VuOffset(p, i + 1, n) = VuOffset(p, i, n) + Share(p, i, n)
  BY OffsetStep
<1>8. Share(p, i, n) \in Nat /\ Share(p, j, n) \in Nat /\ VuOffset(p, i, n) \in Nat /\ VuOffset(p, j, n) \in Nat
  BY <1>2
<1> QED BY <1>6, <1>7, <1>8
=============================================================================
