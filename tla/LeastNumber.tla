---------------------------- MODULE LeastNumber -----------------------------
(***************************************************************************)
(* Every nonempty set of natural numbers has a least element.  This takes  *)
(* the place of induction in the proofs about buffers and lines: what does *)
(* not hold of all positions fails first at some position.                 *)
(***************************************************************************)
EXTENDS Integers, WellFoundedInduction, FiniteSetsExt, TLAPS

\* The ordering of the natural numbers is well founded.
LEMMA Least ==
  ASSUME NEW T \in SUBSET Nat, T # {}
  PROVE  \E x \in T : \A y \in T : x <= y
<1>1. \E R : /\ \E x \in T : \A y \in T : ~(<<y, x>> \in R)
             /\ \A x, y \in Nat : <<y, x>> \in R <=> y < x
  <2> DEFINE R == OpToRel(<, Nat)
  <2>1. \E x \in T : \A y \in T : ~(<<y, x>> \in R)
    BY NatLessThanWellFounded, WFMin
  <2>2. \A x, y \in Nat : <<y, x>> \in R <=> y < x
    BY DEF OpToRel
  <2> QED
    BY <2>1, <2>2, Zenon
<1>2. PICK R : /\ \E x \in T : \A y \in T : ~(<<y, x>> \in R)
               /\ \A x, y \in Nat : <<y, x>> \in R <=> y < x
  BY <1>1
<1>3. PICK x \in T : \A y \in T : ~(<<y, x>> \in R)
  BY <1>2
<1>4. \A y \in T : ~(y < x)
  BY <1>2, <1>3, Zenon
<1>5. \A y \in T : y \in Nat /\ x \in Nat
  OBVIOUS
<1> QED
  BY <1>4, <1>5

\* The Min of the library is that element.
LEMMA MinIsLeast ==
  ASSUME NEW T \in SUBSET Nat, T # {}
  PROVE  Min(T) \in T /\ \A y \in T : Min(T) <= y
  BY Least DEF Min

\* A function that grows with every step grows over any distance.
LEMMA Rising ==
  ASSUME NEW k \in Nat, NEW f \in [0 .. k -> Int],
         \A j \in 1 .. k : f[j - 1] < f[j]
  PROVE  \A i, j \in 0 .. k : i < j => f[i] < f[j]
<1> SUFFICES ASSUME NEW i \in 0 .. k, NEW n \in 0 .. k, i < n, ~(f[i] < f[n])
             PROVE  FALSE
  OBVIOUS
<1> DEFINE T == {j \in (i + 1) .. k : ~(f[i] < f[j])}
<1>1. T \in SUBSET Nat /\ n \in T
  OBVIOUS
<1>2. PICK m \in T : \A y \in T : m <= y
  BY <1>1, Least
<1>3. m \in (i + 1) .. k /\ ~(f[i] < f[m]) /\ m \in 1 .. k
  OBVIOUS
<1>4. f[m - 1] < f[m] /\ m - 1 \in 0 .. k /\ f[m - 1] \in Int /\ f[m] \in Int /\ f[i] \in Int
  BY <1>3
<1>5. CASE m - 1 = i
  BY <1>3, <1>4, <1>5
<1>6. CASE m - 1 # i
  <2>1. m - 1 \in (i + 1) .. k /\ m - 1 \notin T
    BY <1>2, <1>3, <1>6
  <2> QED
    BY <1>3, <1>4, <2>1
<1> QED
  BY <1>5, <1>6

\* A function that grows by one with every step counts them.
LEMMA CountsUp ==
  ASSUME NEW k \in Nat, NEW f \in [0 .. k -> Int], f[0] = 0,
         \A j \in 1 .. k : f[j] = f[j - 1] + 1
  PROVE  \A j \in 0 .. k : f[j] = j
<1> SUFFICES ASSUME NEW n \in 0 .. k, f[n] # n
             PROVE  FALSE
  OBVIOUS
<1> DEFINE T == {j \in 0 .. k : f[j] # j}
<1>1. T \in SUBSET Nat /\ n \in T
  OBVIOUS
<1>2. PICK m \in T : \A y \in T : m <= y
  BY <1>1, Least
<1>3. m \in 1 .. k /\ f[m] # m
  OBVIOUS
<1>4. m - 1 \in 0 .. k /\ m - 1 \notin T
  BY <1>2, <1>3
<1> QED
  BY <1>3, <1>4
=============================================================================
