----------------------------- MODULE Induction ------------------------------
(***************************************************************************)
(* Induction over the natural numbers as facts about sets: the provers can *)
(* instantiate a set, but not the predicate of the library's theorems.     *)
(***************************************************************************)
EXTENDS WellFoundedInduction, TLAPS

(* Every set of natural numbers that is not empty has a least element.     *)
LEMMA LeastNumber ==
  ASSUME NEW T, T \subseteq Nat, T # {}
  PROVE  \E n \in T : \A m \in T : n <= m
<1> DEFINE R == {ss \in Nat \X Nat : ss[1] < ss[2]}
<1>1. IsWellFoundedOn(R, Nat)
  BY NatLessThanWellFounded DEF OpToRel
<1> HIDE DEF R
<1>2. PICK n \in T : \A m \in T : <<m, n>> \notin R
  BY <1>1, WFMin
<1>3. \A m \in T : ~(m < n)
  BY <1>2 DEF R
<1> QED BY <1>2, <1>3

(* A set with zero and the successor, up to N, of each of its numbers has  *)
(* all numbers up to N.                                                    *)
LEMMA UpTo ==
  ASSUME NEW N \in Nat, NEW S, 0 \in S,
         \A k \in 1..N : k - 1 \in S => k \in S
  PROVE  0..N \subseteq S
<1> DEFINE T == 0..N \ S
<1> SUFFICES ASSUME T # {} PROVE FALSE
  OBVIOUS
<1>1. T \subseteq Nat
  OBVIOUS
<1> HIDE DEF T
<1>2. PICK n \in T : \A m \in T : n <= m
  BY <1>1, LeastNumber
<1>3. n \in 1..N /\ n - 1 \notin T
  BY <1>1, <1>2 DEF T
<1> QED BY <1>2, <1>3 DEF T

(* What is defined by recursion up to N exists, and has its type.  The     *)
(* provers instantiate the two definitions, not what they stand for.       *)
Steps(N, S, F) == \A k \in 1..N, x \in S : F[<<k, x>>] \in S
Recurs(f, N, S, b, F) == /\ f \in [0..N -> S] /\ f[0] = b
                         /\ \A k \in 1..N : f[k] = F[<<k, f[k - 1]>>]

LEMMA Recursion ==
  ASSUME NEW N \in Nat, NEW S, NEW b \in S, NEW F, Steps(N, S, F)
  PROVE  \E f : Recurs(f, N, S, b, F)
<1> USE DEF Steps
<1> DEFINE Upto(n, f) == f[0] = b /\ \A k \in 1..n : f[k] = F[<<k, f[k - 1]>>]
           T == {n \in 0..N : \E f \in [0..n -> S] : Upto(n, f)}
<1>1. 0 \in T
  <2> DEFINE f == [k \in 0..0 |-> b]
  <2>1. f \in [0..0 -> S] /\ Upto(0, f)
    OBVIOUS
  <2> HIDE DEF f
  <2> QED BY <2>1
<1>2. ASSUME NEW n \in 1..N, n - 1 \in T PROVE n \in T
  <2>1. PICK f \in [0..(n - 1) -> S] : Upto(n - 1, f)
    BY <1>2
  <2> DEFINE g == [k \in 0..n |-> IF k = n THEN F[<<n, f[n - 1]>>] ELSE f[k]]
  <2>2. f[n - 1] \in S /\ F[<<n, f[n - 1]>>] \in S
    BY <2>1
  <2>3. g \in [0..n -> S]
    BY <2>1, <2>2
  <2>4. g[n] = F[<<n, f[n - 1]>>] /\ \A k \in 0..(n - 1) : g[k] = f[k]
    OBVIOUS
  <2> HIDE DEF g
  <2>5. Upto(n, g)
    <3>1. g[0] = b
      BY <2>1, <2>4
    <3>2. ASSUME NEW k \in 1..n PROVE g[k] = F[<<k, g[k - 1]>>]
      <4>1. g[k - 1] = f[k - 1]
        BY <2>4
      <4>2. CASE k = n
        BY <2>4, <4>1, <4>2
      <4>3. CASE k # n
        <5>1. k \in 1..(n - 1) /\ k \in 0..(n - 1)
          BY <4>3
        <5>2. f[k] = F[<<k, f[k - 1]>>] /\ g[k] = f[k]
          BY <2>1, <2>4, <5>1
        <5> QED BY <4>1, <5>2
      <4> QED BY <4>2, <4>3
    <3> QED BY <3>1, <3>2
  <2> QED BY <2>3, <2>5
<1> HIDE DEF T
<1>3. 0..N \subseteq T
  BY <1>1, <1>2, UpTo
<1>4. N \in T
  BY <1>3
<1> QED BY <1>4 DEF T, Recurs
=============================================================================
