---------------------------- MODULE InductionLemmas ----------------------------
(***************************************************************************)
(* Induction over the natural numbers in the form the provers can use, a    *)
(* set that holds 0 and the successor of each of its members, and what is    *)
(* shown with it of the sums of the community modules: SumFunctionOnSet and  *)
(* ReduceSet add the values of a function in an unspecified order, by a      *)
(* recursive function over the subsets of a set.  For a finite set and       *)
(* natural numbers that function exists, and the order makes no difference.  *)
(***************************************************************************)
EXTENDS Integers, FiniteSets, Functions, FiniteSetTheorems, WellFoundedInduction, TLAPS

\* Every set of natural numbers has a least element.
LEMMA LeastOfSet ==
  ASSUME NEW T, T \subseteq Nat, T # {}
  PROVE  \E m \in T : \A k \in T : ~(k < m)
<1> DEFINE R == OpToRel(<, Nat)
<1>1. IsWellFoundedOn(R, Nat)
      BY NatLessThanWellFounded
<1>2. PICK m \in T : \A k \in T : ~(<<k, m>> \in R)
  <2> HIDE DEF R
  <2> QED
      BY <1>1, WFMin
<1>3. \A k \in T : k < m => <<k, m>> \in R
      BY SMT DEF OpToRel
<1> QED
    BY <1>2, <1>3

LEMMA SetInduction ==
  ASSUME NEW S, 0 \in S, \A n \in Nat : n \in S => n + 1 \in S
  PROVE  Nat \subseteq S
<1> SUFFICES ASSUME Nat \ S # {} PROVE FALSE
    OBVIOUS
<1>1. PICK m \in Nat \ S : \A k \in Nat \ S : ~(k < m)
      BY LeastOfSet
<1>2. m # 0
      OBVIOUS
<1>3. m - 1 \in Nat /\ m - 1 < m
      BY <1>2
<1>4. m - 1 \in S
      BY <1>1, <1>3
<1> QED
    BY <1>3, <1>4

-----------------------------------------------------------------------------
(* Sums *)

First(s) == CHOOSE x \in s : TRUE
SumBody(g, f, s) == IF s = {} THEN 0 ELSE f[First(s)] + g[s \ {First(s)}]
Sums(f, S) == CHOOSE g : g = [s \in SUBSET S |-> SumBody(g, f, s)]

\* The values of f that are added up.
Addends(f, S) == IsFiniteSet(S) /\ \A x \in S : f[x] \in Nat

\* g gives the sum over each subset of S.
GivesSums(g, f, S) ==
  g \in [SUBSET S -> Nat] /\ \A s \in SUBSET S : g[s] = SumBody(g, f, s)

LEMMA WithoutOne ==
  ASSUME NEW S, IsFiniteSet(S), NEW s \in SUBSET S, NEW x \in s
  PROVE  /\ IsFiniteSet(s) /\ IsFiniteSet(s \ {x})
         /\ Cardinality(s) \in Nat \ {0}
         /\ Cardinality(s \ {x}) = Cardinality(s) - 1
<1>1. IsFiniteSet(s) /\ Cardinality(s) \in Nat
      BY FS_Subset, FS_CardinalityType
<1>2. IsFiniteSet(s \ {x}) /\ Cardinality(s \ {x}) = Cardinality(s) - 1
      BY <1>1, FS_RemoveElement
<1>3. Cardinality(s) # 0
      BY <1>1, FS_EmptySet
<1> QED
    BY <1>1, <1>2, <1>3

LEMMA FirstIsMember == ASSUME NEW s, s # {} PROVE First(s) \in s
BY DEF First

\* Sums are found for the subsets of each size after those of the size below.
LEMMA SumsFound ==
  ASSUME NEW S, NEW f, Addends(f, S)
  PROVE  \E g : GivesSums(g, f, S)
<1> USE DEF Addends
<1> DEFINE UpTo(g, n) ==
             /\ g \in [SUBSET S -> Nat]
             /\ \A s \in SUBSET S : Cardinality(s) <= n => g[s] = SumBody(g, f, s)
           N == {n \in Nat : \E g : UpTo(g, n)}
<1>0. \A s \in SUBSET S : IsFiniteSet(s) /\ Cardinality(s) \in Nat
      BY FS_Subset, FS_CardinalityType
<1>1. 0 \in N
  <2> DEFINE g == [s \in SUBSET S |-> 0]
  <2>1. \A s \in SUBSET S : Cardinality(s) <= 0 => s = {}
        BY <1>0, FS_EmptySet
  <2>2. UpTo(g, 0)
        BY <2>1 DEF SumBody
  <2> QED
      BY <2>2
<1>2. ASSUME NEW n \in Nat, n \in N PROVE n + 1 \in N
  <2>1. PICK g : UpTo(g, n)
        BY <1>2
  <2> DEFINE h == [s \in SUBSET S |-> IF Cardinality(s) <= n THEN g[s] ELSE SumBody(g, f, s)]
  <2>2. ASSUME NEW s \in SUBSET S
        PROVE  SumBody(g, f, s) \in Nat
               /\ (s # {} => /\ s \ {First(s)} \in SUBSET S
                             /\ Cardinality(s \ {First(s)}) = Cardinality(s) - 1)
        BY <2>1, FirstIsMember, WithoutOne DEF SumBody
  <2>3. h \in [SUBSET S -> Nat]
        BY <2>1, <2>2
  <2>4. ASSUME NEW s \in SUBSET S, Cardinality(s) <= n + 1 PROVE h[s] = SumBody(h, f, s)
    <3>1. h[s] = SumBody(g, f, s)
          BY <2>1
    <3>2. s # {} => h[s \ {First(s)}] = g[s \ {First(s)}]
      <4> SUFFICES ASSUME s # {} PROVE h[s \ {First(s)}] = g[s \ {First(s)}]
          OBVIOUS
      <4>1. s \ {First(s)} \in SUBSET S /\ Cardinality(s \ {First(s)}) <= n
            BY <1>0, <2>2, <2>4
      <4> QED
          BY <4>1
    <3> HIDE DEF h
    <3> QED
        BY <3>1, <3>2 DEF SumBody
  <2> HIDE DEF h
  <2> QED
      BY <2>3, <2>4
<1>3. Nat \subseteq N
  <2> HIDE DEF N
  <2> QED
      BY <1>1, <1>2, SetInduction
<1>4. Cardinality(S) \in Nat /\ \A s \in SUBSET S : Cardinality(s) <= Cardinality(S)
      BY FS_Subset, FS_CardinalityType
<1>5. PICK g : UpTo(g, Cardinality(S))
      BY <1>3, <1>4
<1>6. GivesSums(g, f, S)
      BY <1>4, <1>5 DEF GivesSums
<1> QED
    BY <1>6

LEMMA SumsExist ==
  ASSUME NEW S, NEW f, Addends(f, S)
  PROVE  GivesSums(Sums(f, S), f, S)
<1>1. PICK g : GivesSums(g, f, S)
      BY SumsFound
<1>2. g = [s \in SUBSET S |-> SumBody(g, f, s)]
      BY <1>1 DEF GivesSums
<1>3. Sums(f, S) = [s \in SUBSET S |-> SumBody(Sums(f, S), f, s)]
      BY <1>2 DEF Sums
<1> DEFINE h == Sums(f, S)
           N == {n \in Nat : \A s \in SUBSET S : Cardinality(s) = n => h[s] \in Nat}
<1>4. \A s \in SUBSET S : h[s] = SumBody(h, f, s)
      BY <1>3
<1>5. \A s \in SUBSET S : IsFiniteSet(s) /\ Cardinality(s) \in Nat
      BY FS_Subset, FS_CardinalityType DEF Addends
<1> HIDE DEF h
<1>6. 0 \in N
      BY <1>4, <1>5, FS_EmptySet DEF SumBody
<1>7. ASSUME NEW n \in Nat, n \in N PROVE n + 1 \in N
  <2> SUFFICES ASSUME NEW s \in SUBSET S, Cardinality(s) = n + 1 PROVE h[s] \in Nat
      OBVIOUS
  <2>1. s # {}
        BY FS_EmptySet
  <2>2. First(s) \in s /\ First(s) \in S /\ s \ {First(s)} \in SUBSET S
        BY <2>1, FirstIsMember
  <2>a. Cardinality(s \ {First(s)}) = Cardinality(s) - 1
        BY <2>2, WithoutOne DEF Addends
  <2>b. Cardinality(s \ {First(s)}) = n
        BY <2>a
  <2>3. h[s \ {First(s)}] \in Nat /\ f[First(s)] \in Nat
        BY <1>7, <2>2, <2>b DEF Addends
  <2> QED
      BY <1>4, <2>1, <2>3 DEF SumBody
<1>8. Nat \subseteq N
  <2> HIDE DEF N
  <2> QED
      BY <1>6, <1>7, SetInduction
<1>9. h \in [SUBSET S -> Nat]
      BY <1>3, <1>5, <1>8 DEF h
<1> QED
    BY <1>4, <1>9 DEF GivesSums, h

\* Any element may be the one that is added last.
LEMMA AnyElement ==
  ASSUME NEW S, NEW f, Addends(f, S), NEW g, GivesSums(g, f, S)
  PROVE  \A s \in SUBSET S : \A y \in s : g[s] = f[y] + g[s \ {y}]
<1> DEFINE N == {n \in Nat : \A s \in SUBSET S : \A y \in s :
                               Cardinality(s) = n => g[s] = f[y] + g[s \ {y}]}
<1>0. /\ \A s \in SUBSET S : IsFiniteSet(s) /\ Cardinality(s) \in Nat /\ g[s] \in Nat
      /\ \A x \in S : f[x] \in Nat
      BY FS_Subset, FS_CardinalityType DEF Addends, GivesSums
<1>1. 0 \in N
      BY <1>0, FS_EmptySet
<1>2. ASSUME NEW n \in Nat, n \in N PROVE n + 1 \in N
  <2> SUFFICES ASSUME NEW s \in SUBSET S, NEW y \in s, Cardinality(s) = n + 1
               PROVE  g[s] = f[y] + g[s \ {y}]
      OBVIOUS
  <2> DEFINE x == First(s)
             rest == s \ {x, y}
  <2>1. x \in s
        BY FirstIsMember
  <2>2. g[s] = f[x] + g[s \ {x}]
        BY DEF GivesSums, SumBody
  <2> HIDE DEF x
  <2>3. CASE x # y
    <3>1. /\ y \in s \ {x} /\ x \in s \ {y} /\ s \ {x} \in SUBSET S /\ s \ {y} \in SUBSET S
          /\ rest \in SUBSET S /\ (s \ {x}) \ {y} = rest /\ (s \ {y}) \ {x} = rest
          BY <2>1, <2>3
    <3>2. Cardinality(s \ {x}) = n /\ Cardinality(s \ {y}) = n
      <4>1. Cardinality(s \ {x}) = Cardinality(s) - 1 /\ Cardinality(s \ {y}) = Cardinality(s) - 1
            BY <2>1, WithoutOne DEF Addends
      <4> QED
          BY <4>1
    <3> HIDE DEF rest
    <3>3. g[s \ {x}] = f[y] + g[(s \ {x}) \ {y}]
          BY <1>2, <3>1, <3>2
    <3>4. g[s \ {y}] = f[x] + g[(s \ {y}) \ {x}]
          BY <1>2, <3>1, <3>2
    <3>5. f[x] \in Nat /\ f[y] \in Nat /\ g[rest] \in Nat
          BY <1>0, <2>1, <3>1
    <3> QED
        BY <2>2, <3>1, <3>3, <3>4, <3>5
  <2> QED
      BY <2>2, <2>3
<1>3. Nat \subseteq N
  <2> HIDE DEF N
  <2> QED
      BY <1>1, <1>2, SetInduction
<1> QED
    BY <1>0, <1>3

\* What is added does not depend on the set that the function of sums was defined for, nor
\* on anything but the values on the subset.
LEMMA SumsAgree ==
  ASSUME NEW S, NEW f, Addends(f, S), NEW g, GivesSums(g, f, S),
         NEW T, NEW e, Addends(e, T), NEW h, GivesSums(h, e, T),
         T \subseteq S, \A x \in T : f[x] = e[x]
  PROVE  \A s \in SUBSET T : g[s] = h[s]
<1> DEFINE N == {n \in Nat : \A s \in SUBSET T : Cardinality(s) = n => g[s] = h[s]}
<1>0. \A s \in SUBSET T : IsFiniteSet(s) /\ Cardinality(s) \in Nat
      BY FS_Subset, FS_CardinalityType DEF Addends
<1>1. 0 \in N
  <2>1. g[{}] = 0 /\ h[{}] = 0
        BY DEF GivesSums, SumBody
  <2> QED
      BY <1>0, <2>1, FS_EmptySet
<1>2. ASSUME NEW n \in Nat, n \in N PROVE n + 1 \in N
  <2> SUFFICES ASSUME NEW s \in SUBSET T, Cardinality(s) = n + 1 PROVE g[s] = h[s]
      OBVIOUS
  <2> DEFINE x == First(s)
  <2>1. s # {}
        BY FS_EmptySet
  <2>2. x \in s /\ s \ {x} \in SUBSET T
        BY <2>1, FirstIsMember
  <2>3. g[s] = f[x] + g[s \ {x}] /\ h[s] = e[x] + h[s \ {x}]
        BY <2>1 DEF GivesSums, SumBody
  <2> HIDE DEF x
  <2>4. Cardinality(s \ {x}) = Cardinality(s) - 1
        BY <2>2, WithoutOne DEF Addends
  <2>5. Cardinality(s \ {x}) = n
        BY <2>4
  <2>6. g[s \ {x}] = h[s \ {x}]
        BY <1>2, <2>2, <2>5
  <2> QED
      BY <2>2, <2>3, <2>6
<1>3. Nat \subseteq N
  <2> HIDE DEF N
  <2> QED
      BY <1>1, <1>2, SetInduction
<1> QED
    BY <1>0, <1>3

-----------------------------------------------------------------------------
(* The sum of f over a set: what SumFunctionOnSet(f, S) is, and ReduceSet    *)
(* with the values of f.                                                     *)
SumOn(f, S) == Sums(f, S)[S]

LEMMA SumOnIsSum == ASSUME NEW S, NEW f PROVE SumFunctionOnSet(f, S) = SumOn(f, S)
BY DEF SumFunctionOnSet, FoldFunctionOnSet, MapThenFoldSet, SumOn, Sums, SumBody, First

\* The sum over the empty set, and the sum over a set from that over the rest.
LEMMA SumOnEmpty == ASSUME NEW f PROVE SumOn(f, {}) = 0
<1>1. Addends(f, {})
      BY FS_EmptySet DEF Addends
<1> QED
    BY <1>1, SumsExist DEF SumOn, GivesSums, SumBody

LEMMA SumOnStep ==
  ASSUME NEW S, NEW f, Addends(f, S), NEW y \in S
  PROVE  /\ SumOn(f, S) \in Nat /\ SumOn(f, S \ {y}) \in Nat
         /\ SumOn(f, S) = f[y] + SumOn(f, S \ {y})
<1> DEFINE T == S \ {y}
<1>1. GivesSums(Sums(f, S), f, S)
      BY SumsExist
<1>2. Addends(f, T)
      BY FS_Subset DEF Addends
<1>3. GivesSums(Sums(f, T), f, T)
      BY <1>2, SumsExist
<1>4. Sums(f, S)[S] = f[y] + Sums(f, S)[T]
      BY <1>1, AnyElement
<1>5. Sums(f, S)[T] = Sums(f, T)[T]
      BY <1>1, <1>2, <1>3, SumsAgree
<1>6. Sums(f, S)[S] \in Nat /\ Sums(f, T)[T] \in Nat
      BY <1>1, <1>3 DEF GivesSums
<1> QED
    BY <1>4, <1>5, <1>6 DEF SumOn

LEMMA SumOnAgree ==
  ASSUME NEW S, NEW f, NEW e, Addends(f, S), \A x \in S : f[x] = e[x]
  PROVE  SumOn(f, S) = SumOn(e, S)
<1>1. Addends(e, S)
      BY DEF Addends
<1> QED
    BY <1>1, SumsExist, SumsAgree DEF SumOn

-----------------------------------------------------------------------------
(* Sums over the first numbers, as they are taken of what is kept by age *)

LEMMA SumUpToZero ==
  ASSUME NEW f, f[0] \in Nat
  PROVE  SumOn(f, 0..0) = f[0]
<1>1. 0 \in 0..0 /\ (0..0) \ {0} = {} /\ \A x \in 0..0 : x = 0
      OBVIOUS
<1>2. Addends(f, 0..0)
  <2>1. 0..0 = {0} /\ IsFiniteSet({0})
        BY FS_Singleton
  <2> QED
      BY <1>1, <2>1 DEF Addends
<1>3. SumOn(f, 0..0) = f[0] + SumOn(f, (0..0) \ {0})
      BY <1>1, <1>2, SumOnStep
<1> QED
    BY <1>1, <1>3, SumOnEmpty

LEMMA SumUpToNext ==
  ASSUME NEW n \in Nat, NEW f, \A x \in 0..(n + 1) : f[x] \in Nat
  PROVE  /\ SumOn(f, 0..n) \in Nat /\ SumOn(f, 0..(n + 1)) \in Nat
         /\ SumOn(f, 0..(n + 1)) = SumOn(f, 0..n) + f[n + 1]
<1> DEFINE S == 0..(n + 1)
<1>1. n + 1 \in S /\ S \ {n + 1} = 0..n
      OBVIOUS
<1>2. IsFiniteSet(S)
      BY FS_Interval
<1>3. Addends(f, S)
      BY <1>2 DEF Addends
<1>4. f[n + 1] \in Nat
      BY <1>1
<1> HIDE DEF S
<1>5. /\ SumOn(f, S) \in Nat /\ SumOn(f, S \ {n + 1}) \in Nat
      /\ SumOn(f, S) = f[n + 1] + SumOn(f, S \ {n + 1})
      BY <1>1, <1>3, SumOnStep
<1>6. SumOn(f, S \ {n + 1}) = SumOn(f, 0..n)
      BY <1>1
<1>7. /\ SumOn(f, S) \in Nat /\ SumOn(f, 0..n) \in Nat
      /\ SumOn(f, S) = SumOn(f, 0..n) + f[n + 1]
      BY ONLY <1>4, <1>5, <1>6
<1> QED
    BY <1>7 DEF S

LEMMA SumUpToIsNat ==
  ASSUME NEW n \in Nat, NEW f, \A x \in 0..n : f[x] \in Nat
  PROVE  SumOn(f, 0..n) \in Nat
<1>1. Addends(f, 0..n) /\ 0 \in 0..n
      BY FS_Interval DEF Addends
<1> QED
    BY <1>1, SumOnStep

\* A longer interval has the larger sum.
LEMMA SumUpToGrows ==
  ASSUME NEW n \in Nat, NEW f, \A x \in 0..n : f[x] \in Nat, NEW m \in 0..n
  PROVE  SumOn(f, 0..m) <= SumOn(f, 0..n)
<1> DEFINE N == {k \in Nat : m + k <= n => SumOn(f, 0..m) <= SumOn(f, 0..(m + k))}
<1>1. 0 \in N
  <2>1. SumOn(f, 0..m) \in Nat
        BY SumUpToIsNat
  <2> QED
      BY <2>1
<1>2. ASSUME NEW k \in Nat, k \in N PROVE k + 1 \in N
  <2> SUFFICES ASSUME m + (k + 1) <= n PROVE SumOn(f, 0..m) <= SumOn(f, 0..(m + (k + 1)))
      OBVIOUS
  <2>1. /\ m + k \in Nat /\ (m + k) + 1 = m + (k + 1) /\ m + k <= n
        /\ \A x \in 0..((m + k) + 1) : f[x] \in Nat
        OBVIOUS
  <2>2. /\ SumOn(f, 0..(m + k)) \in Nat
        /\ SumOn(f, 0..(m + (k + 1))) = SumOn(f, 0..(m + k)) + f[m + (k + 1)]
        BY <2>1, SumUpToNext
  <2>3. SumOn(f, 0..m) \in Nat /\ f[m + (k + 1)] \in Nat
        BY <2>1, SumUpToIsNat
  <2>4. SumOn(f, 0..m) <= SumOn(f, 0..(m + k))
        BY <1>2, <2>1
  <2> QED
      BY <2>2, <2>3, <2>4
<1>3. Nat \subseteq N
  <2> HIDE DEF N
  <2> QED
      BY <1>1, <1>2, SetInduction
<1>4. n - m \in Nat /\ m + (n - m) = n
      OBVIOUS
<1> QED
    BY <1>3, <1>4

\* Everything is one older: the sum of what is at most n + 1 old is now what that of at most n
\* was.
LEMMA SumUpToShifts ==
  ASSUME NEW n \in Nat, NEW f, \A x \in 0..n : f[x] \in Nat,
         NEW e, e[0] = 0, \A x \in 1..(n + 1) : e[x] = f[x - 1]
  PROVE  SumOn(e, 0..(n + 1)) = SumOn(f, 0..n)
<1> DEFINE N == {k \in Nat : k <= n => SumOn(e, 0..(k + 1)) = SumOn(f, 0..k)}
<1>0. \A x \in 0..(n + 1) : e[x] \in Nat
      OBVIOUS
<1>1. 0 \in N
  <2>1. SumOn(e, 0..0) = 0 /\ SumOn(f, 0..0) = f[0]
        BY <1>0, SumUpToZero
  <2>2. SumOn(e, 0..(0 + 1)) = SumOn(e, 0..0) + e[0 + 1]
    <3>1. 0 \in Nat /\ \A x \in 0..(0 + 1) : e[x] \in Nat
          BY <1>0
    <3> QED
        BY <3>1, SumUpToNext
  <2> QED
      BY <2>1, <2>2
<1>2. ASSUME NEW k \in Nat, k \in N PROVE k + 1 \in N
  <2> SUFFICES ASSUME k + 1 <= n PROVE SumOn(e, 0..((k + 1) + 1)) = SumOn(f, 0..(k + 1))
      OBVIOUS
  <2>1. SumOn(e, 0..((k + 1) + 1)) = SumOn(e, 0..(k + 1)) + e[(k + 1) + 1]
    <3>1. \A x \in 0..((k + 1) + 1) : e[x] \in Nat
          BY <1>0
    <3> QED
        BY <3>1, SumUpToNext
  <2>2. SumOn(f, 0..(k + 1)) = SumOn(f, 0..k) + f[k + 1]
    <3>1. \A x \in 0..(k + 1) : f[x] \in Nat
          OBVIOUS
    <3> QED
        BY <3>1, SumUpToNext
  <2>3. e[(k + 1) + 1] = f[k + 1]
        OBVIOUS
  <2> QED
      BY <1>2, <2>1, <2>2, <2>3
<1>3. Nat \subseteq N
  <2> HIDE DEF N
  <2> QED
      BY <1>1, <1>2, SetInduction
<1> QED
    BY <1>3

\* One more at one place.
LEMMA SumOnOneMore ==
  ASSUME NEW S, NEW f, Addends(f, S), NEW y \in S,
         NEW e, e[y] = f[y] + 1, \A x \in S \ {y} : e[x] = f[x]
  PROVE  SumOn(e, S) = SumOn(f, S) + 1
<1>1. f[y] \in Nat /\ Addends(e, S) /\ Addends(f, S \ {y})
      BY FS_Subset DEF Addends
<1>2. SumOn(e, S \ {y}) = SumOn(f, S \ {y})
      BY <1>1, SumOnAgree
<1>3. SumOn(e, S) = e[y] + SumOn(e, S \ {y}) /\ SumOn(e, S \ {y}) \in Nat
      BY <1>1, SumOnStep
<1>4. SumOn(f, S) = f[y] + SumOn(f, S \ {y})
      BY SumOnStep
<1> QED
    BY <1>1, <1>2, <1>3, <1>4

\* Nothing to add.
LEMMA SumOnZero ==
  ASSUME NEW n \in Nat, NEW f, \A x \in 0..n : f[x] = 0
  PROVE  SumOn(f, 0..n) = 0
<1> DEFINE N == {k \in Nat : k <= n => SumOn(f, 0..k) = 0}
<1>1. 0 \in N
      BY SumUpToZero
<1>2. ASSUME NEW k \in Nat, k \in N PROVE k + 1 \in N
  <2> SUFFICES ASSUME k + 1 <= n PROVE SumOn(f, 0..(k + 1)) = 0
      OBVIOUS
  <2>1. \A x \in 0..(k + 1) : f[x] \in Nat
        OBVIOUS
  <2>2. SumOn(f, 0..(k + 1)) = SumOn(f, 0..k) + f[k + 1] /\ f[k + 1] = 0
        BY <2>1, SumUpToNext
  <2> QED
      BY <1>2, <2>2
<1>3. Nat \subseteq N
  <2> HIDE DEF N
  <2> QED
      BY <1>1, <1>2, SetInduction
<1> QED
    BY <1>3
================================================================================
