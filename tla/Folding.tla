------------------------------ MODULE Folding -------------------------------
(***************************************************************************)
(* The fold of an operator over a sequence, for proofs: a module that      *)
(* folds Op instantiates this one with it.  Fold is SequencesExt!FoldLeft, *)
(* which the community modules define by a recursive function on the sets  *)
(* of indices; that there is such a function is what has to be proved.     *)
(***************************************************************************)
EXTENDS Integers, Sequences, WellFoundedInduction, TLAPS

CONSTANT Op(_, _)   \* the fold's result so far and the next entry

(* The greatest of a set of indices.                                       *)
Greatest(s) == CHOOSE x \in s : \A y \in s : x >= y

(* The function on the sets of indices that FoldLeft folds with.           *)
IsFolding(base, q, g) ==
  g = [s \in SUBSET DOMAIN q |-> IF s = {} THEN base
                                 ELSE LET x == Greatest(s) IN Op(g[s \ {x}], q[x])]

(* The fold: it is the value of the chosen such function.                  *)
Fold(base, q) == (CHOOSE g : IsFolding(base, q, g))[DOMAIN q]

(* There is a least one of some numbers.                                   *)
LEMMA LeastOfThem == ASSUME NEW S \in SUBSET Nat, S # {} PROVE \E x \in S : \A y \in S : x <= y
<1> DEFINE R == OpToRel(<, Nat)
<1>1. \A x, y \in Nat : <<x, y>> \in R <=> x < y
  BY DEF OpToRel
<1>2. \E x \in S : \A y \in S : ~(<<y, x>> \in R)
  BY NatLessThanWellFounded, WFMin
<1> HIDE DEF R
<1>3. PICK x \in S : \A y \in S : ~(<<y, x>> \in R)
  BY <1>2
<1>4. ASSUME NEW y \in S PROVE x <= y
  <2>1. ~(<<y, x>> \in R) /\ x \in Nat /\ y \in Nat
    BY <1>3
  <2> QED
    BY <1>1, <2>1
<1> QED
  BY <1>4

(* A set of indices has a greatest one.                                    *)
LEMMA IndicesOK ==
  ASSUME NEW T, NEW q \in Seq(T)
  PROVE  /\ DOMAIN q = 1 .. Len(q) /\ Len(q) \in Nat
         /\ \A s \in SUBSET DOMAIN q : s # {} => Greatest(s) \in s /\ \A y \in s : y <= Greatest(s)
<1>1. DOMAIN q = 1 .. Len(q) /\ Len(q) \in Nat
  OBVIOUS
<1>2. ASSUME NEW s \in SUBSET DOMAIN q, s # {} PROVE Greatest(s) \in s /\ \A y \in s : y <= Greatest(s)
  <2> DEFINE Above == {m \in Nat : \A y \in s : y <= m}
  <2>1. \A y \in s : y \in Nat /\ y >= 1 /\ y <= Len(q)
    BY <1>1
  <2>2. Above \in SUBSET Nat /\ Len(q) \in Above
    BY <1>1, <2>1
  <2>3. PICK x \in Above : \A m \in Above : x <= m
    <3> HIDE DEF Above
    <3> QED
      BY <2>2, LeastOfThem
  <2>4. x \in Nat /\ \A y \in s : y <= x
    OBVIOUS
  <2>5. x # 0
    BY <1>2, <2>1, <2>4
  <2>6. x - 1 \notin Above
    <3> HIDE DEF Above
    <3> QED
      BY <2>3, <2>4, <2>5
  <2>7. x \in s
    <3>1. PICK y \in s : ~(y <= x - 1)
      BY <2>4, <2>5, <2>6
    <3>2. y = x
      BY <2>1, <2>4, <3>1
    <3> QED
      BY <3>2
  <2>8. \E z \in s : \A y \in s : z >= y
    BY <2>1, <2>4, <2>7
  <2>9. Greatest(s) \in s /\ \A y \in s : Greatest(s) >= y
    BY <2>8 DEF Greatest
  <2> QED
    BY <2>1, <2>9
<1> QED
  BY <1>1, <1>2

(* There is such a function.                                               *)
LEMMA FoldingExists ==
  ASSUME NEW T, NEW q \in Seq(T), NEW base PROVE \E g : IsFolding(base, q, g)
<1> DEFINE D == DOMAIN q
           Once(g) == [s \in SUBSET D |-> IF s = {} THEN base
                          ELSE LET x == Greatest(s) IN Op(g[s \ {x}], q[x])]
           Upto(n) == {s \in SUBSET D : \A y \in s : y <= n}
           OK(n, g) == g = [s \in SUBSET D |-> g[s]] /\ \A s \in Upto(n) : g[s] = Once(g)[s]
           Bad == {n \in Nat : ~ \E g : OK(n, g)}
<1>0. /\ Len(q) \in Nat /\ \A y \in D : y \in Nat /\ y >= 1 /\ y <= Len(q)
      /\ \A s \in SUBSET D : s # {} => Greatest(s) \in s /\ \A y \in s : y <= Greatest(s)
  BY IndicesOK
<1> HIDE DEF D
<1>1. ASSUME Bad # {} PROVE FALSE
  <2>1. PICK n \in Bad : \A m \in Bad : n <= m
    <3>1. Bad \in SUBSET Nat
      OBVIOUS
    <3> HIDE DEF Bad
    <3> QED
      BY <1>1, <3>1, LeastOfThem
  <2>2. n # 0
    <3> DEFINE g == [s \in SUBSET D |-> base]
    <3>1. ASSUME NEW s \in Upto(0) PROVE g[s] = Once(g)[s]
      <4>1. s = {} /\ s \in SUBSET D
        BY <1>0
      <4> QED
        BY <4>1
    <3>2. g = [s \in SUBSET D |-> g[s]]
      OBVIOUS
    <3>3. OK(0, g)
      <4> HIDE DEF g
      <4> QED
        BY <3>1, <3>2
    <3> HIDE DEF OK, g
    <3> QED
      BY <2>1, <3>3
  <2>3. n \in Nat /\ n - 1 \in Nat /\ n - 1 \notin Bad
    <3>1. n \in Nat /\ \A m \in Bad : n <= m
      BY <2>1
    <3> HIDE DEF Bad
    <3> QED
      BY <2>2, <3>1
  <2>4. PICK g : OK(n - 1, g)
    BY <2>3
  <2> DEFINE h == Once(g)
  <2>5. OK(n, h)
    <3> SUFFICES ASSUME NEW s \in Upto(n) PROVE h[s] = Once(h)[s]
      <4>1. h = [s \in SUBSET D |-> h[s]]
        OBVIOUS
      <4> HIDE DEF h
      <4> QED
        BY <4>1
    <3>0. s \in SUBSET D /\ \A y \in s : y <= n
      OBVIOUS
    <3>1. CASE s = {}
      BY <3>1
    <3>2. CASE s # {}
      <4> DEFINE x == Greatest(s)
      <4>1. x \in s /\ \A y \in s : y <= x
        BY <1>0, <3>0, <3>2
      <4>2. s \ {x} \in SUBSET D /\ \A y \in s \ {x} : y <= n - 1
        <5> HIDE DEF x
        <5>1. \A y \in s : y \in Nat
          BY <1>0, <3>0
        <5> QED
          BY <2>3, <3>0, <4>1, <5>1
      <4>3. s \ {x} \in Upto(n - 1)
        BY <4>2
      <4> HIDE DEF x, Upto
      <4>4. g[s \ {x}] = h[s \ {x}]
        BY <2>4, <4>3
      <4> HIDE DEF h
      <4>5. h[s] = Op(g[s \ {x}], q[x])
        BY <3>0, <3>2 DEF h, x
      <4> QED
        BY <3>0, <3>2, <4>4, <4>5 DEF x
    <3> QED
      BY <3>1, <3>2
  <2> HIDE DEF OK
  <2> QED
    BY <2>1, <2>5
<1>2. PICK g : OK(Len(q), g)
  BY <1>0, <1>1
<1>4. g = Once(g)
  <2>1. \A s \in SUBSET D : s \in Upto(Len(q))
    BY <1>0
  <2>2. g = [s \in SUBSET D |-> g[s]] /\ \A s \in SUBSET D : g[s] = Once(g)[s]
    BY <1>2, <2>1
  <2> QED
    BY <2>2
<1> QED
  BY <1>4 DEF IsFolding, D

(* The results after 0, 1, ... entries.                                    *)
Results(base, q, h) == /\ h = [i \in 0 .. Len(q) |-> h[i]] /\ h[0] = base
                       /\ \A i \in 1 .. Len(q) : h[i] = Op(h[i - 1], q[i])

(* A fold takes one step for each entry.                                   *)
LEMMA FoldSteps ==
  ASSUME NEW T, NEW q \in Seq(T), NEW base
  PROVE  \E h : Results(base, q, h) /\ Fold(base, q) = h[Len(q)]
<1>1. PICK g : IsFolding(base, q, g) /\ Fold(base, q) = g[DOMAIN q]
  BY FoldingExists DEF Fold
<1>2. DOMAIN q = 1 .. Len(q) /\ Len(q) \in Nat
  BY IndicesOK
<1>3. g[1 .. 0] = base
  <2>1. g[{}] = base
    BY <1>1 DEF IsFolding
  <2>2. 1 .. 0 = {}
    OBVIOUS
  <2> QED
    BY <2>1, <2>2
<1>4. ASSUME NEW n \in 1 .. Len(q) PROVE g[1 .. n] = Op(g[1 .. n - 1], q[n])
  <2> DEFINE s == 1 .. n
  <2>1. s \in SUBSET DOMAIN q /\ s # {} /\ n \in s
    <3>1. n \in 1 .. n /\ 1 .. n \subseteq 1 .. Len(q)
      BY <1>2
    <3> QED
      BY <1>2, <3>1
  <2>2. Greatest(s) \in s /\ \A y \in s : y <= Greatest(s)
    <3> HIDE DEF s
    <3> QED
      BY <2>1, IndicesOK
  <2>3. Greatest(s) = n
    BY <2>1, <2>2
  <2>4. s \ {n} = 1 .. n - 1
    OBVIOUS
  <2> HIDE DEF s
  <2>5. g[s] = Op(g[s \ {Greatest(s)}], q[Greatest(s)])
    BY <1>1, <2>1 DEF IsFolding
  <2>6. g[s] = Op(g[1 .. n - 1], q[n])
    BY <2>3, <2>4, <2>5
  <2> QED
    BY <2>6 DEF s
<1> DEFINE h == [i \in 0 .. Len(q) |-> g[1 .. i]]
<1>5. \A i \in 0 .. Len(q) : h[i] = g[1 .. i]
  OBVIOUS
<1>6. h = [i \in 0 .. Len(q) |-> h[i]]
  OBVIOUS
<1> HIDE DEF h
<1>7. h[0] = base /\ Fold(base, q) = h[Len(q)]
  BY <1>1, <1>2, <1>3, <1>5
<1>8. ASSUME NEW i \in 1 .. Len(q) PROVE h[i] = Op(h[i - 1], q[i])
  <2>1. i \in 0 .. Len(q) /\ i - 1 \in 0 .. Len(q)
    BY <1>2
  <2> QED
    BY <1>4, <1>5, <2>1
<1> QED
  BY <1>6, <1>7, <1>8 DEF Results

(* What R says of the result after i entries, as the set of the results it *)
(* allows, holds of the fold.                                              *)
LEMMA FoldReaches ==
  ASSUME NEW T, NEW q \in Seq(T), NEW base, NEW R, base \in R[0],
         \A i \in 1 .. Len(q) : \A acc \in R[i - 1] : Op(acc, q[i]) \in R[i]
  PROVE  Fold(base, q) \in R[Len(q)]
<1>0. PICK h : Results(base, q, h) /\ Fold(base, q) = h[Len(q)]
  BY FoldSteps
<1>1. /\ h[0] = base /\ \A i \in 1 .. Len(q) : h[i] = Op(h[i - 1], q[i])
      /\ Fold(base, q) = h[Len(q)]
  BY <1>0 DEF Results
<1>2. Len(q) \in Nat
  BY IndicesOK
<1> DEFINE Bad == {n \in Nat : n <= Len(q) /\ h[n] \notin R[n]}
<1>3. ASSUME Bad # {} PROVE FALSE
  <2>1. PICK n \in Bad : \A m \in Bad : n <= m
    <3>1. Bad \in SUBSET Nat
      OBVIOUS
    <3> HIDE DEF Bad
    <3> QED
      BY <1>3, <3>1, LeastOfThem
  <2>2. n \in Nat /\ n <= Len(q) /\ h[n] \notin R[n]
    BY <2>1
  <2>3. n # 0
    BY <1>1, <2>2
  <2>4. n - 1 \in Nat /\ n - 1 \notin Bad
    <3> HIDE DEF Bad
    <3> QED
      BY <2>1, <2>2, <2>3
  <2>5. n \in 1 .. Len(q) /\ h[n - 1] \in R[n - 1]
    BY <1>2, <2>2, <2>3, <2>4
  <2> QED
    BY <1>1, <2>2, <2>5
<1>4. Len(q) \notin Bad
  BY <1>3
<1> QED
  BY <1>1, <1>2, <1>4

(* A fold over one entry more is one step more.                            *)
LEMMA FoldAppend ==
  ASSUME NEW T, NEW q \in Seq(T), NEW x \in T, NEW base
  PROVE  Fold(base, Append(q, x)) = Op(Fold(base, q), x)
<1>0. PICK h : Results(base, q, h) /\ Fold(base, q) = h[Len(q)]
  BY FoldSteps
<1>1. /\ h[0] = base /\ \A i \in 1 .. Len(q) : h[i] = Op(h[i - 1], q[i])
      /\ Fold(base, q) = h[Len(q)]
  BY <1>0 DEF Results
<1> DEFINE r == Append(q, x)
           n == Len(q)
           R == [i \in 0 .. n + 1 |-> IF i <= n THEN {h[i]} ELSE {Op(h[n], x)}]
<1>2. r \in Seq(T) /\ Len(r) = n + 1 /\ n \in Nat /\ r[n + 1] = x /\ \A i \in 1 .. n : r[i] = q[i]
  OBVIOUS
<1> HIDE DEF r, n
<1>3. /\ \A i \in 0 .. n : R[i] = {h[i]}
      /\ R[n + 1] = {Op(h[n], x)} /\ 0 \in 0 .. n
  BY <1>2
<1> HIDE DEF R
<1>4. base \in R[0]
  BY <1>1, <1>2, <1>3
<1>5. ASSUME NEW i \in 1 .. Len(r), NEW acc \in R[i - 1] PROVE Op(acc, r[i]) \in R[i]
  <2>1. i - 1 \in 0 .. n /\ i \in 1 .. n + 1
    BY <1>2
  <2>2. acc = h[i - 1]
    BY <1>3, <2>1
  <2>3. CASE i = n + 1
    <3>1. i - 1 = n
      BY <1>2, <2>3
    <3> QED
      BY <1>2, <1>3, <2>2, <2>3, <3>1
  <2>4. CASE i # n + 1
    <3>1. i \in 1 .. n /\ i \in 0 .. n
      BY <1>2, <2>1, <2>4
    <3>2. Op(h[i - 1], r[i]) = h[i]
      BY <1>1, <1>2, <3>1 DEF n
    <3> QED
      BY <1>3, <2>2, <3>1, <3>2
  <2> QED
    BY <2>3, <2>4
<1>6. Fold(base, r) \in R[Len(r)]
  BY <1>2, <1>4, <1>5, FoldReaches
<1> QED
  BY <1>1, <1>2, <1>3, <1>6 DEF r, n
=============================================================================
