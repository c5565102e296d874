---------------------------- MODULE FiniteLemmas ----------------------------
(***************************************************************************)
(* Facts about finite sets of numbers and sums over them that the proofs   *)
(* of several modules need, and induction on the size of a set, in the     *)
(* form of the absence of a least counterexample.                          *)
(***************************************************************************)
EXTENDS Integers, FiniteSetsExt, FiniteSetTheorems, WellFoundedInduction, TLAPS

-----------------------------------------------------------------------------
(* A set of naturals has a least element.                                  *)
LEMMA NatMinimum == ASSUME NEW T \in SUBSET Nat, T # {} PROVE \E x \in T : \A y \in T : x <= y
<1> DEFINE R == OpToRel(<, Nat)
<1>1. \A x, y \in Nat : <<x, y>> \in R <=> x < y
  BY DEF OpToRel
<1>2. \E x \in T : \A y \in T : ~(<<y, x>> \in R)
  BY NatLessThanWellFounded, WFMin
<1> HIDE DEF R
<1>3. PICK x \in T : \A y \in T : ~(<<y, x>> \in R)
  BY <1>2
<1>4. ASSUME NEW y \in T PROVE x <= y
  <2>1. ~(<<y, x>> \in R) /\ x \in Nat /\ y \in Nat
    BY <1>3
  <2> QED
    BY <1>1, <2>1
<1> QED
  BY <1>4

(* What holds of the empty subset, and of a subset if it holds of those    *)
(* that lack one element, holds of all: T is the set of those it holds of. *)
LEMMA BySize ==
  ASSUME NEW D, IsFiniteSet(D), NEW T, {} \in T,
         \A s \in SUBSET D : s # {} /\ (\A x \in s : s \ {x} \in T) => s \in T
  PROVE  D \in T
<1> SUFFICES ASSUME D \notin T PROVE FALSE
  OBVIOUS
<1> DEFINE Sizes == {n \in Nat : \E s \in SUBSET D : s \notin T /\ Cardinality(s) = n}
<1>1. Cardinality(D) \in Sizes
  BY FS_CardinalityType
<1>2. PICK n \in Sizes : \A m \in Sizes : n <= m
  <2>1. Sizes \in SUBSET Nat /\ Sizes # {}
    BY <1>1
  <2> HIDE DEF Sizes
  <2> QED
    BY <2>1, NatMinimum
<1>3. PICK s \in SUBSET D : s \notin T /\ Cardinality(s) = n
  BY <1>2
<1>4. ASSUME NEW x \in s PROVE s \ {x} \in T
  <2>1. IsFiniteSet(s)
    BY FS_Subset
  <2>2. Cardinality(s \ {x}) = Cardinality(s) - 1 /\ Cardinality(s \ {x}) \in Nat
    BY <2>1, FS_RemoveElement, FS_CardinalityType
  <2>3. Cardinality(s \ {x}) \notin Sizes
    <3>1. n \in Nat /\ \A m \in Sizes : n <= m
      BY <1>2
    <3> HIDE DEF Sizes
    <3> QED
      BY <1>3, <2>2, <3>1
  <2> QED
    BY <2>2, <2>3
<1> QED
  BY <1>3, <1>4

(* Sums of natural numbers over a finite set.                              *)

Total(f, S) == MapThenSumSet(LAMBDA x : f[x], S)

(* The function that MapThenSumSet sums with.                              *)
Sums(f, D, g) ==
  g = [s \in SUBSET D |-> IF s = {} THEN 0
                          ELSE LET x == CHOOSE x \in s : TRUE IN f[x] + g[s \ {x}]]

(* A sum is the value of the chosen such function.                         *)
LEMMA SumsDef ==
  ASSUME NEW f, NEW D PROVE Total(f, D) = (CHOOSE g : Sums(f, D, g))[D]
BY DEF Total, MapThenSumSet, MapThenFoldSet, Sums

(* There is such a function.                                               *)
LEMMA SumsExist ==
  ASSUME NEW D, IsFiniteSet(D), NEW f PROVE \E g : Sums(f, D, g)
<1> DEFINE Once(g) == [s \in SUBSET D |-> IF s = {} THEN 0
                          ELSE LET x == CHOOSE x \in s : TRUE IN f[x] + g[s \ {x}]]
           OK(n, g) == g = [s \in SUBSET D |-> g[s]] /\
                       \A s \in SUBSET D : Cardinality(s) <= n => g[s] = Once(g)[s]
           Bad == {n \in Nat : ~ \E g : OK(n, g)}
<1>0. \A s \in SUBSET D : IsFiniteSet(s) /\ Cardinality(s) \in Nat /\ (s # {} => Cardinality(s) # 0)
  BY FS_Subset, FS_CardinalityType, FS_EmptySet
<1>1. ASSUME Bad # {} PROVE FALSE
  <2>1. PICK n \in Bad : \A m \in Bad : n <= m
    <3>1. Bad \in SUBSET Nat
      OBVIOUS
    <3> HIDE DEF Bad
    <3> QED
      BY <1>1, <3>1, NatMinimum
  <2>2. n # 0
    <3> DEFINE g == [s \in SUBSET D |-> 0]
    <3>1. OK(0, g)
      BY <1>0
    <3> HIDE DEF OK, g
    <3> QED
      BY <2>1, <3>1
  <2>3. n - 1 \in Nat /\ n - 1 \notin Bad
    <3>1. n \in Nat /\ \A m \in Bad : n <= m
      BY <2>1
    <3> HIDE DEF Bad
    <3> QED
      BY <2>2, <3>1
  <2>4. PICK g : OK(n - 1, g)
    BY <2>3
  <2> DEFINE h == Once(g)
  <2>5. OK(n, h)
    <3> SUFFICES ASSUME NEW s \in SUBSET D, Cardinality(s) <= n PROVE h[s] = Once(h)[s]
      <4>1. h = [s \in SUBSET D |-> h[s]]
        OBVIOUS
      <4> HIDE DEF h
      <4> QED
        BY <4>1
    <3>1. CASE s = {}
      BY <3>1
    <3>2. CASE s # {}
      <4> DEFINE x == CHOOSE x \in s : TRUE
      <4>1. x \in s
        BY <3>2
      <4> HIDE DEF x
      <4>2. s \ {x} \in SUBSET D /\ Cardinality(s \ {x}) <= n - 1
        BY <1>0, <4>1, FS_RemoveElement
      <4>3. g[s \ {x}] = h[s \ {x}]
        BY <2>4, <4>2
      <4> HIDE DEF h
      <4>4. h[s] = f[x] + g[s \ {x}]
        BY <3>2 DEF h, x
      <4> QED
        BY <3>2, <4>3, <4>4 DEF x
    <3> QED
      BY <3>1, <3>2
  <2> HIDE DEF OK
  <2> QED
    BY <2>1, <2>5
<1>2. PICK g : OK(Cardinality(D), g)
  BY <1>0, <1>1
<1>3. \A s \in SUBSET D : Cardinality(s) <= Cardinality(D)
  BY FS_Subset
<1>4. g = Once(g)
  BY <1>2, <1>3
<1> QED
  BY <1>4 DEF Sums

(* Any such function gives the sum.                                        *)
LEMMA SumsAgree ==
  ASSUME NEW D, IsFiniteSet(D), NEW E \in SUBSET D, NEW f, NEW g, Sums(f, D, g),
         NEW h, Sums(f, E, h)
  PROVE  g[E] = h[E]
<1> DEFINE T == {s \in SUBSET E : g[s] = h[s]}
<1>1. {} \in T
  BY DEF Sums
<1>2. ASSUME NEW s \in SUBSET E, s # {}, \A x \in s : s \ {x} \in T PROVE s \in T
  <2> DEFINE x == CHOOSE x \in s : TRUE
  <2>1. x \in s
    BY <1>2
  <2>2. g[s] = f[x] + g[s \ {x}] /\ h[s] = f[x] + h[s \ {x}]
    BY <1>2 DEF Sums
  <2> HIDE DEF x
  <2> QED
    BY <1>2, <2>1, <2>2
<1>3. IsFiniteSet(E)
  BY FS_Subset
<1> HIDE DEF T
<1>4. E \in T
  BY <1>1, <1>2, <1>3, BySize
<1> QED
  BY <1>4 DEF T

(* Any such function on a larger set sums the same.                        *)
LEMMA TotalIs ==
  ASSUME NEW D, IsFiniteSet(D), NEW E \in SUBSET D, NEW f, NEW g, Sums(f, D, g)
  PROVE  Total(f, E) = g[E]
<1>1. \E h : Sums(f, E, h)
  BY FS_Subset, SumsExist
<1>2. Sums(f, E, CHOOSE h : Sums(f, E, h))
  BY <1>1
<1> QED
  BY <1>2, SumsDef, SumsAgree

(* The sum over the empty set, and over a set without one of its elements. *)
LEMMA TotalEmpty == ASSUME NEW f PROVE Total(f, {}) = 0
<1>1. IsFiniteSet({})
  BY FS_EmptySet
<1>2. PICK g : Sums(f, {}, g)
  BY <1>1, SumsExist
<1>3. g[{}] = 0
  BY <1>2 DEF Sums
<1> QED
  BY <1>1, <1>2, <1>3, TotalIs

(* A nonempty set has an element that can be summed apart.                 *)
LEMMA TotalOne ==
  ASSUME NEW D, IsFiniteSet(D), NEW f, D # {}
  PROVE  \E x \in D : Total(f, D) = f[x] + Total(f, D \ {x})
<1>1. PICK g : Sums(f, D, g)
  BY SumsExist
<1> DEFINE x == CHOOSE x \in D : TRUE
<1>2. x \in D
  OBVIOUS
<1>3. g[D] = f[x] + g[D \ {x}]
  BY <1>1 DEF Sums
<1> HIDE DEF x
<1>4. Total(f, D) = g[D] /\ Total(f, D \ {x}) = g[D \ {x}]
  BY <1>1, TotalIs
<1> QED
  BY <1>2, <1>3, <1>4

(* A sum of naturals is a natural.                                         *)
LEMMA TotalType ==
  ASSUME NEW D, IsFiniteSet(D), NEW f, \A x \in D : f[x] \in Nat
  PROVE  Total(f, D) \in Nat
<1> DEFINE T == {s \in SUBSET D : Total(f, s) \in Nat}
<1>1. {} \in T
  BY TotalEmpty
<1>2. ASSUME NEW s \in SUBSET D, s # {}, \A x \in s : s \ {x} \in T PROVE s \in T
  <2>1. IsFiniteSet(s)
    BY FS_Subset
  <2>2. PICK x \in s : Total(f, s) = f[x] + Total(f, s \ {x})
    BY <1>2, <2>1, TotalOne
  <2>3. f[x] \in Nat /\ Total(f, s \ {x}) \in Nat
    BY <1>2
  <2> QED
    BY <2>2, <2>3
<1> HIDE DEF T
<1>3. D \in T
  BY <1>1, <1>2, BySize
<1> QED
  BY <1>3 DEF T

(* Any element can be summed apart.                                        *)
LEMMA TotalSplit ==
  ASSUME NEW D, IsFiniteSet(D), NEW f, \A x \in D : f[x] \in Nat, NEW y \in D
  PROVE  Total(f, D) = f[y] + Total(f, D \ {y})
<1> DEFINE T == {s \in SUBSET D : \A z \in s : Total(f, s) = f[z] + Total(f, s \ {z})}
<1>1. {} \in T
  OBVIOUS
<1>2. ASSUME NEW s \in SUBSET D, s # {}, \A x \in s : s \ {x} \in T, NEW z \in s
      PROVE  Total(f, s) = f[z] + Total(f, s \ {z})
  <2>1. IsFiniteSet(s)
    BY FS_Subset
  <2>2. PICK x \in s : Total(f, s) = f[x] + Total(f, s \ {x})
    BY <1>2, <2>1, TotalOne
  <2>3. CASE x = z
    BY <2>2, <2>3
  <2>4. CASE x # z
    <3> DEFINE r == s \ {x, z}
    <3>1. Total(f, s \ {x}) = f[z] + Total(f, (s \ {x}) \ {z})
      BY <1>2, <2>4
    <3>2. Total(f, s \ {z}) = f[x] + Total(f, (s \ {z}) \ {x})
      BY <1>2, <2>4
    <3>3. (s \ {x}) \ {z} = r /\ (s \ {z}) \ {x} = r
      OBVIOUS
    <3>4. IsFiniteSet(r) /\ \A w \in r : f[w] \in Nat
      BY <2>1, FS_Subset
    <3>5. Total(f, r) \in Nat /\ f[x] \in Nat /\ f[z] \in Nat
      BY <3>4, TotalType
    <3> HIDE DEF r
    <3> QED
      BY <2>2, <3>1, <3>2, <3>3, <3>5
  <2> QED
    BY <2>3, <2>4
<1>3. \A s \in SUBSET D : s # {} /\ (\A x \in s : s \ {x} \in T) => s \in T
  BY <1>2
<1> HIDE DEF T
<1>4. D \in T
  BY <1>1, <1>3, BySize
<1> QED
  BY <1>4 DEF T

(* A part of a set has no greater sum.                                     *)
LEMMA TotalOfPart ==
  ASSUME NEW D, IsFiniteSet(D), NEW f, \A x \in D : f[x] \in Nat, NEW E \in SUBSET D
  PROVE  Total(f, E) <= Total(f, D)
<1> DEFINE T == {s \in SUBSET D : \A r \in SUBSET s : Total(f, r) <= Total(f, s)}
<1>0. \A s \in SUBSET D : IsFiniteSet(s) /\ Total(f, s) \in Nat
  BY FS_Subset, TotalType
<1>1. {} \in T
  BY <1>0
<1>2. ASSUME NEW s \in SUBSET D, s # {}, \A x \in s : s \ {x} \in T PROVE s \in T
  <2> SUFFICES ASSUME NEW r \in SUBSET s PROVE Total(f, r) <= Total(f, s)
    OBVIOUS
  <2>1. CASE r = s
    BY <1>0, <2>1
  <2>2. CASE r # s
    <3>1. PICK x \in s : x \notin r
      BY <2>2
    <3>2. r \in SUBSET (s \ {x}) /\ s \ {x} \in T
      BY <1>2, <3>1
    <3>3. Total(f, r) <= Total(f, s \ {x})
      BY <3>2
    <3>4. Total(f, s) = f[x] + Total(f, s \ {x})
      BY <1>0, TotalSplit
    <3>5. Total(f, r) \in Nat /\ Total(f, s) \in Nat /\ Total(f, s \ {x}) \in Nat /\ f[x] \in Nat
      BY <1>0
    <3> QED
      BY <3>3, <3>4, <3>5
  <2> QED
    BY <2>1, <2>2
<1> HIDE DEF T
<1>3. D \in T
  BY <1>1, <1>2, BySize
<1> QED
  BY <1>3 DEF T

(* What bounds the terms bounds the sum.                                   *)
LEMMA TotalScaled ==
  ASSUME NEW D, IsFiniteSet(D), NEW a \in Nat, NEW b \in Nat,
         NEW f, \A x \in D : f[x] \in Nat, NEW g, \A x \in D : g[x] \in Nat,
         \A x \in D : a * g[x] <= b * f[x]
  PROVE  a * Total(g, D) <= b * Total(f, D)
<1> DEFINE T == {s \in SUBSET D : a * Total(g, s) <= b * Total(f, s)}
<1>0. \A s \in SUBSET D : IsFiniteSet(s) /\ Total(f, s) \in Nat /\ Total(g, s) \in Nat
  BY FS_Subset, TotalType
<1>1. {} \in T
  BY TotalEmpty
<1>2. ASSUME NEW s \in SUBSET D, s # {}, \A x \in s : s \ {x} \in T PROVE s \in T
  <2>1. PICK x \in s : TRUE
    BY <1>2
  <2>2. Total(f, s) = f[x] + Total(f, s \ {x}) /\ Total(g, s) = g[x] + Total(g, s \ {x})
    BY <1>0, TotalSplit
  <2> DEFINE fs == Total(f, s \ {x})
             gs == Total(g, s \ {x})
             fx == f[x]
             gx == g[x]
  <2>3. fs \in Nat /\ gs \in Nat /\ fx \in Nat /\ gx \in Nat /\ a * gs <= b * fs /\ a * gx <= b * fx
    BY <1>0, <1>2
  <2>4. Total(f, s) = fx + fs /\ Total(g, s) = gx + gs
    BY <2>2
  <2> HIDE DEF fs, gs, fx, gx
  <2>5. a * (gx + gs) = a * gx + a * gs /\ b * (fx + fs) = b * fx + b * fs
    BY <2>3
  <2>6. a * gx \in Int /\ a * gs \in Int /\ b * fx \in Int /\ b * fs \in Int
    BY <2>3
  <2>7. a * (gx + gs) <= b * (fx + fs)
    BY <2>3, <2>5, <2>6
  <2> QED
    BY <2>4, <2>7
<1> HIDE DEF T
<1>3. D \in T
  BY <1>1, <1>2, BySize
<1> QED
  BY <1>3 DEF T

(* The same when one of them may exceed its bound by c.                    *)
LEMMA TotalScaledButOne ==
  ASSUME NEW D, IsFiniteSet(D), NEW a \in Nat, NEW b \in Nat, NEW c \in Nat, NEW y,
         NEW f, \A x \in D : f[x] \in Nat, NEW g, \A x \in D : g[x] \in Nat,
         \A x \in D \ {y} : a * g[x] <= b * f[x],
         y \in D => a * g[y] <= b * f[y] + c
  PROVE  a * Total(g, D) <= b * Total(f, D) + c
<1>1. CASE y \notin D
  <2>1. a * Total(g, D) <= b * Total(f, D)
    BY <1>1, TotalScaled
  <2>2. Total(g, D) \in Nat /\ Total(f, D) \in Nat
    BY TotalType
  <2>3. a * Total(g, D) \in Int /\ b * Total(f, D) \in Int
    BY <2>2
  <2> QED
    BY <2>1, <2>3
<1>2. CASE y \in D
  <2> DEFINE r == D \ {y}
             fs == Total(f, r)
             gs == Total(g, r)
             fy == f[y]
             gy == g[y]
  <2>1. Total(f, D) = fy + fs /\ Total(g, D) = gy + gs
    BY <1>2, TotalSplit
  <2>2. IsFiniteSet(r) /\ (\A x \in r : f[x] \in Nat /\ g[x] \in Nat) /\ \A x \in r : a * g[x] <= b * f[x]
    BY FS_Subset
  <2>3. fs \in Nat /\ gs \in Nat /\ fy \in Nat /\ gy \in Nat /\ a * gs <= b * fs /\ a * gy <= b * fy + c
    <3> HIDE DEF r
    <3> QED
      BY <1>2, <2>2, TotalType, TotalScaled
  <2> HIDE DEF fs, gs, fy, gy
  <2>4. a * (gy + gs) = a * gy + a * gs /\ b * (fy + fs) = b * fy + b * fs
    BY <2>3
  <2>5. a * gy \in Int /\ a * gs \in Int /\ b * fy \in Int /\ b * fs \in Int
    BY <2>3
  <2>6. a * (gy + gs) <= b * (fy + fs) + c
    BY <2>3, <2>4, <2>5
  <2> QED
    BY <2>1, <2>6
<1> QED
  BY <1>1, <1>2

(* A finite set of things with natural numbers has a least one and a       *)
(* greatest one.                                                           *)
LEMMA LeastExists ==
  ASSUME NEW S, S # {}, NEW f, \A x \in S : f[x] \in Nat
  PROVE  \E x \in S : \A y \in S : f[x] <= f[y]
<1> DEFINE T == {f[x] : x \in S}
<1>1. T \in SUBSET Nat /\ T # {}
  OBVIOUS
<1>2. PICK n \in T : \A m \in T : n <= m
  <2> HIDE DEF T
  <2> QED
    BY <1>1, NatMinimum
<1> QED
  BY <1>2

(* A finite nonempty set has an element of the greatest value.             *)
LEMMA GreatestExists ==
  ASSUME NEW S, IsFiniteSet(S), S # {}, NEW f, \A x \in S : f[x] \in Int
  PROVE  \E x \in S : \A y \in S : f[y] <= f[x]
<1> DEFINE T == {s \in SUBSET S : s # {} => \E x \in s : \A y \in s : f[y] <= f[x]}
<1>1. {} \in T
  OBVIOUS
<1>2. ASSUME NEW s \in SUBSET S, s # {}, \A x \in s : s \ {x} \in T PROVE s \in T
  <2>1. PICK x \in s : TRUE
    BY <1>2
  <2>2. CASE s = {x}
    BY <2>2
  <2>3. CASE s # {x}
    <3>1. s \ {x} # {} /\ s \ {x} \in T
      BY <1>2, <2>3
    <3>2. PICK z \in s \ {x} : \A y \in s \ {x} : f[y] <= f[z]
      BY <3>1
    <3>3. f[x] \in Int /\ f[z] \in Int /\ \A y \in s : f[y] \in Int
      OBVIOUS
    <3>4. CASE f[x] <= f[z]
      BY <3>2, <3>4
    <3>5. CASE f[z] <= f[x]
      BY <3>2, <3>3, <3>5
    <3> QED
      BY <3>3, <3>4, <3>5
  <2> QED
    BY <2>2, <2>3
<1> HIDE DEF T
<1>3. S \in T
  BY <1>1, <1>2, BySize
<1> QED
  BY <1>3 DEF T

-----------------------------------------------------------------------------
(* A number is what its quotient and its remainder make.                   *)
LEMMA DivisionOf ==
  ASSUME NEW k \in Nat, NEW d \in Nat \ {0}, NEW q \in Nat, NEW r \in Nat, q = k \div d, r = k % d
  PROVE  k = q * d + r
OBVIOUS

(* There is a quotient, and the remainder is below what is divided by.     *)
LEMMA Division ==
  ASSUME NEW k \in Nat, NEW d \in Nat \ {0}
  PROVE  \E q \in Nat, r \in 0 .. d - 1 : k = q * d + r /\ q = k \div d /\ r = k % d
<1> DEFINE q == k \div d
           r == k % d
<1>1. q \in Nat /\ q = k \div d
  OBVIOUS
<1>2. r \in 0 .. d - 1 /\ r = k % d
  OBVIOUS
<1> HIDE DEF q, r
<1>3. k = q * d + r
  BY <1>1, <1>2, DivisionOf
<1>4. q \in Nat
  BY <1>1
<1> QED
  BY <1>1, <1>2, <1>3, <1>4, Zenon

(* The remainder of a division is the one there is.                        *)
LEMMA Remainder ==
  ASSUME NEW k \in Nat, NEW d \in Nat \ {0}, NEW q \in Nat, NEW r \in Nat, r < d, k = q * d + r
  PROVE  k % d = r
OBVIOUS

(* Multiplying keeps an order.                                             *)
LEMMA TimesKeeps ==
  ASSUME NEW a \in Int, NEW b \in Int, NEW c \in Nat, a >= b PROVE a * c >= b * c
<1>1. (a - b) * c >= 0 /\ (a - b) * c = a * c - b * c
  OBVIOUS
<1> QED
  BY <1>1

(* The sum of no number, and of one.                                       *)
LEMMA SumSetOne ==
  /\ SumSet({}) = 0
  /\ \A x \in Nat : SumSet({x}) = x
<1> DEFINE F(S, g) == [s \in SUBSET S |-> IF s = {} THEN 0
                         ELSE LET y == CHOOSE y \in s : TRUE IN y + g[s \ {y}]]
           iter(S) == CHOOSE g : g = F(S, g)
<1>1. ASSUME NEW S PROVE SumSet(S) = iter(S)[S]
  BY DEF SumSet, FoldSet, MapThenFoldSet
<1>2. ASSUME NEW S, NEW h, h = F(S, h) PROVE iter(S) = F(S, iter(S))
  <2> HIDE DEF F
  <2> QED
    BY <1>2
<1>3. SumSet({}) = 0
  <2> DEFINE h == [s \in SUBSET {} |-> 0]
  <2>1. h = F({}, h)
    OBVIOUS
  <2>2. iter({}) = F({}, iter({}))
    <3> HIDE DEF h, F, iter
    <3> QED
      BY <1>2, <2>1
  <2>3. F({}, iter({}))[{}] = 0
    <3> HIDE DEF iter
    <3> QED
      OBVIOUS
  <2> HIDE DEF F, iter
  <2> QED
    BY <1>1, <2>2, <2>3
<1>4. ASSUME NEW x \in Nat PROVE SumSet({x}) = x
  <2> DEFINE h == [s \in SUBSET {x} |-> IF s = {} THEN 0 ELSE x]
  <2>1. \A s \in SUBSET {x} : s # {} => s = {x} /\ (CHOOSE y \in s : TRUE) = x
    OBVIOUS
  <2>2. h = F({x}, h)
    <3>1. ASSUME NEW s \in SUBSET {x} PROVE h[s] = F({x}, h)[s]
      <4>1. CASE s = {}
        BY <4>1
      <4>2. CASE s # {}
        <5>1. s = {x} /\ (CHOOSE y \in s : TRUE) = x /\ s \ {x} = {}
          BY <2>1, <4>2
        <5>2. h[s] = x /\ h[{}] = 0
          BY <4>2
        <5> HIDE DEF h
        <5>3. F({x}, h)[s] = x + h[s \ {x}]
          BY <4>2, <5>1
        <5> QED
          BY <5>1, <5>2, <5>3
      <4> QED
        BY <4>1, <4>2
    <3> QED
      BY <3>1
  <2>3. iter({x}) = F({x}, iter({x}))
    <3> HIDE DEF h, F, iter
    <3> QED
      BY <1>2, <2>2
  <2> HIDE DEF iter
  <2>4. F({x}, iter({x}))[{}] = 0
    OBVIOUS
  <2>5. F({x}, iter({x}))[{x}] = x + iter({x})[{}]
    <3>1. {x} # {} /\ (CHOOSE y \in {x} : TRUE) = x /\ {x} \ {x} = {} /\ {x} \in SUBSET {x}
      BY <2>1
    <3> QED
      BY <3>1
  <2> HIDE DEF F
  <2> QED
    BY <1>1, <2>3, <2>4, <2>5
<1> QED
  BY <1>3, <1>4
=============================================================================
