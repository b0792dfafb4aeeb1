------------------------------- MODULE FiniteSums -------------------------------
(***************************************************************************)
(* SumFunction of a function of finite domain, as the rules of the claims  *)
(* use it.  It is defined by recursion over the subsets of the domain,     *)
(* taking any element away: that it is a sum needs induction.  The         *)
(* induction theorems of the library take an operator and cannot be        *)
(* applied; a smallest counterexample is found with WFMin instead, which   *)
(* takes a set.                                                            *)
(***************************************************************************)
EXTENDS Integers, Functions, FiniteSetTheorems, TLAPS

\* A set of natural numbers has a least element.
LEMMA Least ==
  ASSUME NEW T \in SUBSET Nat, T # {}
  PROVE  \E n \in T : \A m \in T : n <= m
<1> DEFINE R == {ss \in Nat \X Nat : ss[1] < ss[2]}
<1>1. IsWellFoundedOn(R, Nat)
  BY NatLessThanWellFounded DEF OpToRel
<1> HIDE DEF R
<1>2. PICK x \in T : \A y \in T : ~ (<<y, x>> \in R)
  BY <1>1, WFMin
<1>3. \A y \in T : ~(y < x)
  BY <1>2 DEF R
<1> QED
  BY <1>3

\* What 0 is in, and the next number with every number, every number is in.
LEMMA Induct ==
  ASSUME NEW T, 0 \in T, \A n \in Nat : n \in T => n + 1 \in T
  PROVE  \A n \in Nat : n \in T
<1> DEFINE F == Nat \ T
<1>1. SUFFICES ASSUME F # {} PROVE FALSE
  OBVIOUS
<1>2. PICK n \in F : \A m \in F : n <= m
  <2>1. F \in SUBSET Nat
    OBVIOUS
  <2> HIDE DEF F
  <2> QED
    BY <1>1, <2>1, Least
<1>3. n \in Nat /\ n \notin T /\ n # 0
  OBVIOUS
<1>4. n - 1 \in Nat /\ n - 1 \notin F
  <2> HIDE DEF F
  <2> QED
    BY <1>2, <1>3
<1>5. n - 1 \in T
  BY <1>4
<1>6. (n - 1) + 1 \in T
  BY <1>4, <1>5
<1> QED
  BY <1>3, <1>6

\* Of finite sets one has the fewest elements.
LEMMA Smallest ==
  ASSUME NEW F, F # {}, \A s \in F : IsFiniteSet(s)
  PROVE  \E s \in F : \A t \in F : Cardinality(s) <= Cardinality(t)
<1> DEFINE T == {Cardinality(s) : s \in F}
<1>1. \A s \in F : Cardinality(s) \in Nat
  BY FS_CardinalityType
<1>2. T \in SUBSET Nat /\ T # {}
  BY <1>1
<1>3. PICK n \in T : \A m \in T : n <= m
  BY <1>2, Least
<1> QED
  BY <1>3

-----------------------------------------------------------------------------
(* The recursion has a solution.                                           *)

Some(s) == CHOOSE x \in s : TRUE

\* h is what the recursion asks for, for the sets of D.
Sums(g, D, h) == h = [s \in D |-> IF s = {} THEN 0 ELSE g[Some(s)] + h[s \ {Some(s)}]]

LEMMA SomeIn == ASSUME NEW s, s # {} PROVE Some(s) \in s
BY DEF Some

LEMMA Fewer ==
  ASSUME NEW s, IsFiniteSet(s), NEW x \in s
  PROVE  /\ IsFiniteSet(s \ {x}) /\ Cardinality(s) \in Nat \ {0}
         /\ Cardinality(s \ {x}) = Cardinality(s) - 1
<1>1. Cardinality(s) \in Nat /\ Cardinality(s) # 0
  BY FS_CardinalityType, FS_EmptySet
<1> QED
  BY <1>1, FS_RemoveElement

LEMMA SumsUpTo ==
  ASSUME NEW S, IsFiniteSet(S), NEW g, NEW n \in Nat
  PROVE  \E h : Sums(g, {s \in SUBSET S : Cardinality(s) <= n}, h)
<1> DEFINE Sub(k) == {s \in SUBSET S : Cardinality(s) <= k}
           T == {k \in Nat : ~\E h : Sums(g, Sub(k), h)}
<1>1. SUFFICES ASSUME T # {} PROVE FALSE
  OBVIOUS
<1>2. PICK k \in T : \A m \in T : k <= m
  <2> HIDE DEF T
  <2>1. T \in SUBSET Nat
    BY DEF T
  <2> QED
    BY <1>1, <2>1, Least
<1>3. \A s \in SUBSET S : IsFiniteSet(s) /\ Cardinality(s) \in Nat
  BY FS_Subset, FS_CardinalityType
<1>4. CASE k = 0
  <2>1. \A s \in Sub(0) : s = {}
    BY <1>3, FS_EmptySet
  <2>2. Sums(g, Sub(0), [s \in Sub(0) |-> 0])
    BY <2>1 DEF Sums
  <2> QED
    BY <1>4, <2>2
<1>5. CASE k # 0
  <2>1. k \in Nat
    OBVIOUS
  <2>10. k - 1 \in Nat /\ k - 1 \notin T
    <3> HIDE DEF T
    <3> QED
      BY <1>2, <1>5, <2>1
  <2>2. PICK h : Sums(g, Sub(k - 1), h)
    BY <2>10
  <2> DEFINE new == [s \in Sub(k) |-> IF s = {} THEN 0 ELSE g[Some(s)] + h[s \ {Some(s)}]]
  <2>3. \A s \in Sub(k) : s # {} => s \ {Some(s)} \in Sub(k - 1) /\ s \ {Some(s)} \in Sub(k)
    <3> SUFFICES ASSUME NEW s \in Sub(k), s # {}
                 PROVE  s \ {Some(s)} \in Sub(k - 1) /\ s \ {Some(s)} \in Sub(k)
      OBVIOUS
    <3>1. Cardinality(s \ {Some(s)}) = Cardinality(s) - 1 /\ Cardinality(s) \in Nat
      BY <1>3, SomeIn, Fewer
    <3> QED
      BY <3>1
  <2>4. \A s \in Sub(k - 1) : s \in Sub(k) /\ new[s] = h[s]
    <3>1. \A s \in Sub(k - 1) : s \in Sub(k)
      <4> HIDE DEF T
      <4> QED
        BY <1>3, <2>1
    <3>2. \A s \in Sub(k - 1) : h[s] = IF s = {} THEN 0 ELSE g[Some(s)] + h[s \ {Some(s)}]
      <4> HIDE DEF Sub
      <4> QED
        BY <2>2 DEF Sums
    <3> QED
      BY <3>1, <3>2
  <2>5. Sums(g, Sub(k), new)
    <3>1. \A s \in Sub(k) : s # {} => new[s \ {Some(s)}] = h[s \ {Some(s)}]
      <4> HIDE DEF new, Sub
      <4> QED
        BY <2>3, <2>4
    <3> HIDE DEF Sub
    <3> QED
      BY <3>1 DEF Sums
  <2> QED
    BY <2>5
<1> QED
  BY <1>4, <1>5

LEMMA SumsExist ==
  ASSUME NEW S, IsFiniteSet(S), NEW g
  PROVE  \E h : Sums(g, SUBSET S, h)
<1>1. Cardinality(S) \in Nat /\ \A s \in SUBSET S : Cardinality(s) <= Cardinality(S)
  BY FS_Subset, FS_CardinalityType
<1>2. {s \in SUBSET S : Cardinality(s) <= Cardinality(S)} = SUBSET S
  BY <1>1
<1>3. \E h : Sums(g, {s \in SUBSET S : Cardinality(s) <= Cardinality(S)}, h)
  BY <1>1, SumsUpTo
<1> QED
  BY <1>2, <1>3

LEMMA SumIsTable ==
  ASSUME NEW S, IsFiniteSet(S), NEW g, DOMAIN g = S
  PROVE  \E h : Sums(g, SUBSET S, h) /\ SumFunction(g) = h[S]
<1> DEFINE Table(h) == h = [s \in SUBSET S |-> IF s = {} THEN 0
                              ELSE g[CHOOSE x \in s : TRUE] + h[s \ {CHOOSE x \in s : TRUE}]]
           iter == CHOOSE h : Table(h)
<1>1. SumFunction(g) = iter[S]
  BY DEF SumFunction, SumFunctionOnSet, FoldFunctionOnSet, MapThenFoldSet
<1>2. \A h : Table(h) <=> Sums(g, SUBSET S, h)
  BY DEF Sums, Some
<1>3. \E h : Table(h)
  <2> HIDE DEF Table
  <2> QED
    BY <1>2, SumsExist
<1>4. Table(iter)
  <2> HIDE DEF Table
  <2> QED
    BY <1>3
<1> QED
  <2> HIDE DEF Table, iter
  <2> QED
    BY <1>1, <1>2, <1>4

-----------------------------------------------------------------------------
(* What the sum is.                                                        *)

LEMMA SumsStep ==
  ASSUME NEW S, NEW g, NEW h, Sums(g, SUBSET S, h)
  PROVE  \A s \in SUBSET S :
           /\ s = {} => h[s] = 0
           /\ s # {} => Some(s) \in s /\ h[s] = g[Some(s)] + h[s \ {Some(s)}]
BY SomeIn DEF Sums

LEMMA SumsType ==
  ASSUME NEW S, IsFiniteSet(S), NEW g \in [S -> Nat], NEW h, Sums(g, SUBSET S, h)
  PROVE  \A s \in SUBSET S : h[s] \in Nat
<1>1. \A s \in SUBSET S :
        /\ s = {} => h[s] = 0
        /\ s # {} => Some(s) \in s /\ h[s] = g[Some(s)] + h[s \ {Some(s)}]
  BY SomeIn DEF Sums
<1> DEFINE F == {s \in SUBSET S : h[s] \notin Nat}
<1>2. SUFFICES ASSUME F # {} PROVE FALSE
  OBVIOUS
<1>3. PICK s \in F : \A t \in F : Cardinality(s) <= Cardinality(t)
  <2>1. \A t \in F : IsFiniteSet(t)
    BY FS_Subset
  <2> HIDE DEF F
  <2> QED
    BY <1>2, <2>1, Smallest
<1>4. s \in SUBSET S /\ IsFiniteSet(s) /\ h[s] \notin Nat
  BY FS_Subset
<1>5. Some(s) \in s /\ h[s] = g[Some(s)] + h[s \ {Some(s)}]
  <2>1. s \in SUBSET S /\ h[s] # 0 /\ 0 \in Nat
    BY <1>1, <1>4
  <2>2. s # {}
    BY <1>1, <2>1
  <2> HIDE DEF F
  <2> QED
    BY <1>1, <2>1, <2>2
<1>6. Cardinality(s \ {Some(s)}) = Cardinality(s) - 1 /\ Cardinality(s) \in Nat
  BY <1>4, <1>5, Fewer
<1>7. s \ {Some(s)} \in SUBSET S /\ s \ {Some(s)} \notin F
  BY <1>3, <1>4, <1>6
<1>8. h[s \ {Some(s)}] \in Nat /\ g[Some(s)] \in Nat
  BY <1>4, <1>5, <1>7
<1> QED
  BY <1>4, <1>5, <1>8

\* Any element may be taken away first.
Adds(g, D, h) == \A s \in D : \A y \in s : h[s] = g[y] + h[s \ {y}]
Same(D, h, k) == \A s \in D : h[s] = k[s]

LEMMA SumsRemove ==
  ASSUME NEW S, IsFiniteSet(S), NEW g \in [S -> Nat], NEW h, Sums(g, SUBSET S, h)
  PROVE  Adds(g, SUBSET S, h)
<1>1. \A s \in SUBSET S :
        /\ s = {} => h[s] = 0
        /\ s # {} => Some(s) \in s /\ h[s] = g[Some(s)] + h[s \ {Some(s)}]
  BY SomeIn DEF Sums
<1> DEFINE F == {s \in SUBSET S : \E y \in s : h[s] # g[y] + h[s \ {y}]}
<1>2. SUFFICES ASSUME F # {} PROVE FALSE
  BY DEF Adds
<1>3. PICK s \in F : \A t \in F : Cardinality(s) <= Cardinality(t)
  <2>1. \A t \in F : IsFiniteSet(t)
    BY FS_Subset
  <2> HIDE DEF F
  <2> QED
    BY <1>2, <2>1, Smallest
<1>4. PICK y \in s : h[s] # g[y] + h[s \ {y}]
  OBVIOUS
<1>5. s \in SUBSET S /\ IsFiniteSet(s)
  BY FS_Subset
<1>6. PICK x \in s : h[s] = g[x] + h[s \ {x}]
  <2> HIDE DEF F
  <2> QED
    BY <1>1, <1>4, <1>5
<1>7. x # y
  BY <1>4, <1>6
<1>8. \A z \in s : /\ s \ {z} \in SUBSET S /\ s \ {z} \notin F
  <2> SUFFICES ASSUME NEW z \in s PROVE s \ {z} \notin F
    BY <1>5
  <2>1. Cardinality(s \ {z}) = Cardinality(s) - 1 /\ Cardinality(s) \in Nat
    BY <1>5, Fewer
  <2> HIDE DEF F
  <2> QED
    BY <1>3, <2>1
<1>9. /\ h[s \ {x}] = g[y] + h[(s \ {x}) \ {y}]
      /\ h[s \ {y}] = g[x] + h[(s \ {y}) \ {x}]
  BY <1>7, <1>8
<1>10. (s \ {x}) \ {y} = (s \ {y}) \ {x}
  OBVIOUS
<1>11. PICK w : w = (s \ {x}) \ {y}
  OBVIOUS
<1>12. h[w] \in Nat /\ g[x] \in Nat /\ g[y] \in Nat
  BY <1>5, <1>11, SumsType
<1>13. g[x] + (g[y] + h[w]) = g[y] + (g[x] + h[w])
  BY <1>12
<1> QED
  <2> HIDE DEF F
  <2> QED
    BY <1>4, <1>6, <1>9, <1>10, <1>11, <1>13

\* Functions that agree on a set have the same sum over it.
LEMMA SumsAgree ==
  ASSUME NEW S, IsFiniteSet(S), NEW g \in [S -> Nat], NEW h, Sums(g, SUBSET S, h),
         NEW T \in SUBSET S, NEW f \in [T -> Nat], NEW k, Sums(f, SUBSET T, k),
         Same(T, f, g)
  PROVE  Same(SUBSET T, k, h)
<1>1. \A s \in SUBSET S :
        /\ s = {} => h[s] = 0
        /\ s # {} => Some(s) \in s /\ h[s] = g[Some(s)] + h[s \ {Some(s)}]
  BY SomeIn DEF Sums
<1>11. \A s \in SUBSET T :
         /\ s = {} => k[s] = 0
         /\ s # {} => k[s] = f[Some(s)] + k[s \ {Some(s)}]
  BY SomeIn DEF Sums
<1> DEFINE F == {s \in SUBSET T : k[s] # h[s]}
<1>2. SUFFICES ASSUME F # {} PROVE FALSE
  BY DEF Same
<1>3. PICK s \in F : \A t \in F : Cardinality(s) <= Cardinality(t)
  <2>1. \A t \in F : IsFiniteSet(t)
    BY FS_Subset
  <2> HIDE DEF F
  <2> QED
    BY <1>2, <2>1, Smallest
<1>4. s \in SUBSET T /\ s \in SUBSET S /\ IsFiniteSet(s) /\ k[s] # h[s]
  BY FS_Subset
<1>5. /\ s # {} => Some(s) \in s /\ h[s] = g[Some(s)] + h[s \ {Some(s)}]
      /\ s # {} => k[s] = f[Some(s)] + k[s \ {Some(s)}]
      /\ s = {} => h[s] = 0 /\ k[s] = 0
  <2> HIDE DEF F
  <2> QED
    BY <1>1, <1>4, <1>11
<1>6. s # {} => s \ {Some(s)} \notin F
  <2> SUFFICES ASSUME s # {} PROVE s \ {Some(s)} \notin F
    OBVIOUS
  <2>1. Cardinality(s \ {Some(s)}) = Cardinality(s) - 1 /\ Cardinality(s) \in Nat
    BY <1>4, <1>5, Fewer
  <2> HIDE DEF F
  <2> QED
    BY <1>3, <2>1
<1>7. s # {} => f[Some(s)] = g[Some(s)]
  BY <1>4, <1>5 DEF Same
<1> QED
  BY <1>4, <1>5, <1>6, <1>7

-----------------------------------------------------------------------------

LEMMA SumType ==
  ASSUME NEW S, IsFiniteSet(S), NEW g \in [S -> Nat]
  PROVE  SumFunction(g) \in Nat
<1>1. PICK h : Sums(g, SUBSET S, h) /\ SumFunction(g) = h[S]
  BY SumIsTable
<1> QED
  BY <1>1, SumsType

LEMMA SumOfNone ==
  ASSUME NEW g, DOMAIN g = {}
  PROVE  SumFunction(g) = 0
<1>1. PICK h : Sums(g, SUBSET {}, h) /\ SumFunction(g) = h[{}]
  BY SumIsTable, FS_EmptySet
<1> QED
  BY <1>1, SumsStep

LEMMA SumOfMore ==
  ASSUME NEW S, IsFiniteSet(S), NEW f \in [S -> Nat], NEW x, x \notin S,
         NEW g \in [S \cup {x} -> Nat], Same(S, f, g)
  PROVE  SumFunction(g) = SumFunction(f) + g[x]
<1>1. PICK U : U = S \cup {x}
  OBVIOUS
<1>2. IsFiniteSet(U) /\ U \ {x} = S /\ x \in U /\ S \in SUBSET U /\ g \in [U -> Nat]
  BY <1>1, FS_AddElement
<1>3. PICK h : Sums(g, SUBSET U, h) /\ SumFunction(g) = h[U]
  BY <1>2, SumIsTable
<1>4. PICK k : Sums(f, SUBSET S, k) /\ SumFunction(f) = k[S]
  BY SumIsTable
<1>5. h[U] = g[x] + h[S]
  <2>1. Adds(g, SUBSET U, h)
    BY <1>2, <1>3, SumsRemove
  <2> QED
    BY <1>2, <2>1 DEF Adds
<1>6. k[S] = h[S] /\ k[S] \in Nat /\ g[x] \in Nat
  <2>1. Same(SUBSET S, k, h)
    BY <1>2, <1>3, <1>4, SumsAgree
  <2>2. \A s \in SUBSET S : k[s] \in Nat
    BY <1>4, SumsType
  <2>3. g[x] \in Nat
    BY <1>2
  <2> QED
    BY <2>1, <2>2, <2>3 DEF Same
<1> QED
  BY <1>3, <1>4, <1>5, <1>6

-----------------------------------------------------------------------------
(* Sums of one function over parts of its domain.                          *)

SumOver(g, s) == SumFunction([x \in s |-> g[x]])

LEMMA SumOverType ==
  ASSUME NEW S, IsFiniteSet(S), NEW g \in [S -> Nat], NEW s \in SUBSET S
  PROVE  SumOver(g, s) \in Nat
<1>1. IsFiniteSet(s) /\ [x \in s |-> g[x]] \in [s -> Nat]
  BY FS_Subset
<1> QED
  BY <1>1, SumType DEF SumOver

LEMMA SumOverNone == ASSUME NEW g PROVE SumOver(g, {}) = 0
BY SumOfNone DEF SumOver

LEMMA SumOverMore ==
  ASSUME NEW S, IsFiniteSet(S), NEW g \in [S -> Nat], NEW s \in SUBSET S, NEW y \in S \ s
  PROVE  SumOver(g, s \cup {y}) = SumOver(g, s) + g[y]
<1>1. PICK f : f = [x \in s |-> g[x]]
  OBVIOUS
<1>2. PICK h : h = [x \in s \cup {y} |-> g[x]]
  OBVIOUS
<1>3. IsFiniteSet(s) /\ f \in [s -> Nat] /\ h \in [s \cup {y} -> Nat] /\ y \notin s
  BY <1>1, <1>2, FS_Subset
<1>4. Same(s, f, h)
  BY <1>1, <1>2 DEF Same
<1>5. SumFunction(h) = SumFunction(f) + h[y]
  BY <1>3, <1>4, SumOfMore
<1> QED
  BY <1>1, <1>2, <1>5 DEF SumOver

LEMMA SumOverUnion ==
  ASSUME NEW S, IsFiniteSet(S), NEW g \in [S -> Nat],
         NEW s \in SUBSET S, NEW t \in SUBSET S, s \cap t = {}
  PROVE  SumOver(g, s \cup t) = SumOver(g, s) + SumOver(g, t)
<1> DEFINE F == {u \in SUBSET t : SumOver(g, s \cup u) # SumOver(g, s) + SumOver(g, u)}
<1>1. SUFFICES ASSUME F # {} PROVE FALSE
  OBVIOUS
<1>2. PICK u \in F : \A v \in F : Cardinality(u) <= Cardinality(v)
  <2>1. \A v \in F : IsFiniteSet(v)
    BY FS_Subset
  <2> HIDE DEF F
  <2> QED
    BY <1>1, <2>1, Smallest
<1>3. /\ u \in SUBSET t /\ u \in SUBSET S /\ IsFiniteSet(u)
      /\ SumOver(g, s \cup u) # SumOver(g, s) + SumOver(g, u)
  BY FS_Subset
<1>4. \A v \in SUBSET S : SumOver(g, v) \in Nat
  BY SumOverType
<1>5. PICK y \in u : TRUE
  <2>1. u = {} => s \cup u = s
    OBVIOUS
  <2>2. SumOver(g, s) \in Nat
    BY <1>4
  <2>3. u # {}
    BY <1>3, <2>1, <2>2, SumOverNone
  <2> QED
    BY <2>3
<1>6. PICK v : v = u \ {y}
  OBVIOUS
<1>7. /\ v \in SUBSET t /\ v \in SUBSET S /\ s \cup v \in SUBSET S
      /\ y \in S \ v /\ y \in S \ (s \cup v)
      /\ u = v \cup {y} /\ s \cup u = (s \cup v) \cup {y}
  BY <1>3, <1>6
<1>8. v \notin F
  <2>1. Cardinality(v) = Cardinality(u) - 1 /\ Cardinality(u) \in Nat
    BY <1>3, <1>6, Fewer
  <2> HIDE DEF F
  <2> QED
    BY <1>2, <2>1
<1>9. SumOver(g, s \cup v) = SumOver(g, s) + SumOver(g, v)
  BY <1>7, <1>8
<1>10. SumOver(g, u) = SumOver(g, v) + g[y]
  BY <1>7, SumOverMore
<1>11. SumOver(g, s \cup u) = SumOver(g, s \cup v) + g[y]
  BY <1>7, SumOverMore
<1>12. /\ SumOver(g, s) \in Nat /\ SumOver(g, v) \in Nat /\ g[y] \in Nat
  BY <1>4, <1>7
<1> QED
  <2> HIDE DEF F
  <2> QED
    BY <1>3, <1>9, <1>10, <1>11, <1>12

\* A sum over more is not smaller.
LEMMA SumOverPart ==
  ASSUME NEW S, IsFiniteSet(S), NEW g \in [S -> Nat],
         NEW t \in SUBSET S, NEW s \in SUBSET t
  PROVE  SumOver(g, s) <= SumOver(g, t)
<1>1. PICK u : u = t \ s
  OBVIOUS
<1>2. s \in SUBSET S /\ u \in SUBSET S /\ s \cap u = {} /\ s \cup u = t
  BY <1>1
<1>3. SumOver(g, t) = SumOver(g, s) + SumOver(g, u)
  BY <1>2, SumOverUnion
<1>4. SumOver(g, s) \in Nat /\ SumOver(g, u) \in Nat
  BY <1>2, SumOverType
<1> QED
  BY <1>3, <1>4

-----------------------------------------------------------------------------
(* Folds: what MapThenFoldSet computes of a set, taking out of what is     *)
(* left the element that pick names, with the step and the pick as         *)
(* functions.                                                              *)

\* pick takes an element of every set that has one.
Picks(S, pick) == \A s \in SUBSET S : s # {} => pick[s] \in s

\* h folds the subsets of S in D: what was picked last is folded in last.
Folds(D, pick, step, base, h) ==
  h = [s \in D |-> IF s = {} THEN base ELSE step[<<pick[s], h[s \ {pick[s]}]>>]]

\* What {} is in, and every set that is there without its pick, every set is in.
LEMMA SetInduct ==
  ASSUME NEW S, IsFiniteSet(S), NEW pick, Picks(S, pick), NEW T, {} \in T,
         \A s \in SUBSET S : s # {} /\ s \ {pick[s]} \in T => s \in T
  PROVE  \A s \in SUBSET S : s \in T
<1> DEFINE F == {s \in SUBSET S : s \notin T}
<1>1. SUFFICES ASSUME F # {} PROVE FALSE
  OBVIOUS
<1>2. PICK s \in F : \A t \in F : Cardinality(s) <= Cardinality(t)
  <2>1. \A t \in F : IsFiniteSet(t)
    BY FS_Subset
  <2> HIDE DEF F
  <2> QED
    BY <1>1, <2>1, Smallest
<1>3. s \in SUBSET S /\ IsFiniteSet(s) /\ s # {} /\ pick[s] \in s
  BY FS_Subset DEF Picks
<1>4. PICK x : x = pick[s]
  OBVIOUS
<1>5. Cardinality(s \ {x}) = Cardinality(s) - 1 /\ Cardinality(s) \in Nat
  BY <1>3, <1>4, Fewer
<1>6. s \ {x} \in SUBSET S /\ s \ {x} \notin F
  BY <1>2, <1>3, <1>5
<1>7. s \ {x} \in T
  BY <1>6
<1> QED
  BY <1>3, <1>4, <1>7

LEMMA FoldsUpTo ==
  ASSUME NEW S, IsFiniteSet(S), NEW pick, Picks(S, pick), NEW step, NEW base, NEW n \in Nat
  PROVE  \E h : Folds({s \in SUBSET S : Cardinality(s) <= n}, pick, step, base, h)
<1> DEFINE Sub(k) == {s \in SUBSET S : Cardinality(s) <= k}
           T == {k \in Nat : \E h : Folds(Sub(k), pick, step, base, h)}
<1>1. \A s \in SUBSET S : IsFiniteSet(s) /\ Cardinality(s) \in Nat
  BY FS_Subset, FS_CardinalityType
<1>2. 0 \in T
  <2>1. \A s \in Sub(0) : s = {}
    BY <1>1, FS_EmptySet
  <2>2. Folds(Sub(0), pick, step, base, [s \in Sub(0) |-> base])
    BY <2>1 DEF Folds
  <2> QED
    BY <2>2
<1>3. ASSUME NEW k \in Nat, k \in T PROVE k + 1 \in T
  <2>1. PICK h : Folds(Sub(k), pick, step, base, h)
    BY <1>3
  <2> DEFINE new == [s \in Sub(k + 1) |->
                       IF s = {} THEN base ELSE step[<<pick[s], h[s \ {pick[s]}]>>]]
  <2>2. \A s \in Sub(k + 1) : s # {} => s \ {pick[s]} \in Sub(k) /\ s \ {pick[s]} \in Sub(k + 1)
    <3> SUFFICES ASSUME NEW s \in Sub(k + 1), s # {}
                 PROVE  s \ {pick[s]} \in Sub(k) /\ s \ {pick[s]} \in Sub(k + 1)
      OBVIOUS
    <3>1. pick[s] \in s
      BY DEF Picks
    <3>2. Cardinality(s \ {pick[s]}) = Cardinality(s) - 1 /\ Cardinality(s) \in Nat
      BY <1>1, <3>1, Fewer
    <3> QED
      BY <3>2
  <2>3. \A s \in Sub(k) : s \in Sub(k + 1) /\ new[s] = h[s]
    <3>1. \A s \in Sub(k) : s \in Sub(k + 1)
      BY <1>1
    <3>2. \A s \in Sub(k) : h[s] = IF s = {} THEN base ELSE step[<<pick[s], h[s \ {pick[s]}]>>]
      <4> HIDE DEF Sub
      <4> QED
        BY <2>1 DEF Folds
    <3> QED
      BY <3>1, <3>2
  <2>4. \A s \in Sub(k + 1) : s # {} => new[s \ {pick[s]}] = h[s \ {pick[s]}]
    <3> HIDE DEF new, Sub
    <3> QED
      BY <2>2, <2>3
  <2>5. Folds(Sub(k + 1), pick, step, base, new)
    <3> HIDE DEF Sub
    <3> QED
      BY <2>4 DEF Folds
  <2>6. \E f : Folds(Sub(k + 1), pick, step, base, f)
    <3> HIDE DEF Sub, new
    <3> QED
      BY <2>5
  <2>7. k + 1 \in Nat
    OBVIOUS
  <2> HIDE DEF Sub
  <2> QED
    BY <2>6, <2>7
<1>4. \A k \in Nat : k \in T
  <2> HIDE DEF T
  <2> QED
    BY <1>2, <1>3, Induct
<1> QED
  BY <1>4

LEMMA FoldsExist ==
  ASSUME NEW S, IsFiniteSet(S), NEW pick, Picks(S, pick), NEW step, NEW base
  PROVE  \E h : Folds(SUBSET S, pick, step, base, h)
<1>1. Cardinality(S) \in Nat /\ \A s \in SUBSET S : Cardinality(s) <= Cardinality(S)
  BY FS_Subset, FS_CardinalityType
<1>2. {s \in SUBSET S : Cardinality(s) <= Cardinality(S)} = SUBSET S
  BY <1>1
<1>3. \E h : Folds({s \in SUBSET S : Cardinality(s) <= Cardinality(S)}, pick, step, base, h)
  BY <1>1, FoldsUpTo
<1> QED
  BY <1>2, <1>3

\* Where steps lead from V to V, what is folded is in V.
LEMMA FoldsType ==
  ASSUME NEW S, IsFiniteSet(S), NEW pick, Picks(S, pick), NEW V, NEW step \in [S \X V -> V],
         NEW base \in V, NEW h, Folds(SUBSET S, pick, step, base, h)
  PROVE  \A s \in SUBSET S : h[s] \in V
<1> DEFINE T == {s \in SUBSET S : h[s] \in V}
<1>1. {} \in T
  BY DEF Folds
<1>2. ASSUME NEW s \in SUBSET S, s # {} /\ s \ {pick[s]} \in T PROVE s \in T
  <2>1. PICK x \in s : x = pick[s]
    BY <1>2 DEF Picks
  <2>2. PICK v \in V : v = h[s \ {x}]
    BY <1>2, <2>1
  <2>3. h[s] = step[<<x, v>>]
    BY <1>2, <2>1, <2>2 DEF Folds
  <2>4. <<x, v>> \in S \X V
    BY <2>1
  <2>5. step[<<x, v>>] \in V
    BY <2>4
  <2> QED
    BY <2>3, <2>5
<1> HIDE DEF T
<1>3. \A s \in SUBSET S : s \in T
  BY <1>1, <1>2, SetInduct
<1> QED
  BY <1>3 DEF T

\* Of finitely many elements that are ordered one comes before all others.
LEMMA Extreme ==
  ASSUME NEW S, IsFiniteSet(S), NEW R,
         \A x, y \in S : <<x, y>> \in R \/ <<y, x>> \in R,
         \A x, y, z \in S : <<x, y>> \in R /\ <<y, z>> \in R => <<x, z>> \in R
  PROVE  \A s \in SUBSET S : s # {} => \E x \in s : \A y \in s : <<x, y>> \in R
<1> DEFINE T == {s \in SUBSET S : s # {} => \E x \in s : \A y \in s : <<x, y>> \in R}
           pick == [s \in SUBSET S |-> CHOOSE x \in s : TRUE]
<1>1. Picks(S, pick)
  BY DEF Picks
<1>2. {} \in T
  OBVIOUS
<1>3. ASSUME NEW s \in SUBSET S, s # {} /\ s \ {pick[s]} \in T PROVE s \in T
  <2>1. PICK x \in s : x = pick[s]
    BY <1>1, <1>3 DEF Picks
  <2>2. CASE s \ {x} = {}
    <3>1. \A y \in s : <<x, y>> \in R
      BY <2>2
    <3> QED
      BY <3>1
  <2>3. CASE s \ {x} # {}
    <3>1. PICK z \in s \ {x} : \A y \in s \ {x} : <<z, y>> \in R
      BY <1>3, <2>1, <2>3
    <3>2. x \in S /\ z \in S /\ \A y \in s : y \in S
      OBVIOUS
    <3>3. CASE <<x, z>> \in R
      <4>1. \A y \in s : <<x, y>> \in R
        BY <3>1, <3>2, <3>3
      <4> QED
        BY <4>1
    <3>4. CASE <<z, x>> \in R
      <4>1. \A y \in s : <<z, y>> \in R
        BY <3>1, <3>2, <3>4
      <4> QED
        BY <4>1
    <3> QED
      BY <3>2, <3>3, <3>4
  <2> QED
    BY <2>2, <2>3
<1>4. \A s \in SUBSET S : s \in T
  <2> HIDE DEF T, pick
  <2> QED
    BY <1>1, <1>2, <1>3, SetInduct
<1> QED
  BY <1>4

=============================================================================
