----------------------------- MODULE Recursion -----------------------------
(***************************************************************************)
(* Induction over the natural numbers and the recursive definitions of     *)
(* this project.                                                           *)
(*                                                                         *)
(* Induction is stated about sets instead of predicates: to prove P(n) of  *)
(* every n, take {n \in Nat : P(n)}.  It comes from the library's theorem  *)
(* that < is well founded on Nat.  A recursive function f[x \in S] == e    *)
(* is CHOOSE f : f = [x \in S |-> e], so before anything can be said of it *)
(* some function must be shown to satisfy its equation.  Two forms occur:  *)
(* folds over a sequence from the left (FoldLeft of SequencesExt, which    *)
(* recurses over sets of positions), and recursion from n to n \div 10,    *)
(* over the decimal digits of a number.                                    *)
(***************************************************************************)
EXTENDS Integers, FiniteSetsExt, WellFoundedInduction, TLAPS

\* A set of natural numbers has a least one.
LEMMA LeastNatural ==
    ASSUME NEW S \in SUBSET Nat, S # {}
    PROVE  \E n \in S : \A m \in S : n <= m
  <1>1. PICK n \in S : \A m \in S : <<m, n>> \notin OpToRel(<, Nat)
    BY NatLessThanWellFounded, WFMin
  <1>2. \A m \in S : <<m, n>> \in Nat \X Nat /\ <<m, n>>[1] = m /\ <<m, n>>[2] = n
    OBVIOUS
  <1>3. \A m \in S : ~(m < n)
    BY <1>1, <1>2, Zenon DEF OpToRel
  <1> QED
    BY <1>3

\* A set with 0 and the successor of each of its numbers has every number.
LEMMA SetInduction ==
    ASSUME NEW S, 0 \in S, \A n \in Nat : n \in S => n + 1 \in S
    PROVE  \A n \in Nat : n \in S
  <1> SUFFICES ASSUME Nat \ S # {} PROVE FALSE
    OBVIOUS
  <1>1. PICK n \in Nat \ S : \A m \in Nat \ S : n <= m
    BY LeastNatural
  <1>2. n # 0 /\ n - 1 \in Nat /\ n - 1 \in S /\ (n - 1) + 1 = n
    BY <1>1
  <1> QED
    BY <1>1, <1>2

\* A set that has a number when it has all the smaller ones has every number.
LEMMA SetInductionAll ==
    ASSUME NEW S, \A n \in Nat : (\A m \in Nat : m < n => m \in S) => n \in S
    PROVE  \A n \in Nat : n \in S
  <1> SUFFICES ASSUME Nat \ S # {} PROVE FALSE
    OBVIOUS
  <1>1. PICK n \in Nat \ S : \A m \in Nat \ S : n <= m
    BY LeastNatural
  <1>2. \A m \in Nat : m < n => m \in S
    BY <1>1
  <1> QED
    BY <1>1, <1>2

\* Induction up to a bound.
LEMMA SetInductionTo ==
    ASSUME NEW n \in Nat, NEW S, 0 \in S, \A k \in 1 .. n : k - 1 \in S => k \in S
    PROVE  \A k \in 0 .. n : k \in S
  <1> DEFINE T == {k \in Nat : k <= n => k \in S}
  <1>1. 0 \in T
    OBVIOUS
  <1>2. ASSUME NEW k \in Nat, k \in T PROVE k + 1 \in T
    BY <1>2
  <1>3. \A k \in Nat : k \in T
    <2> HIDE DEF T
    <2> QED
      BY <1>1, <1>2, SetInduction
  <1> QED
    BY <1>3

-----------------------------------------------------------------------------
(* Folds.                                                                  *)

\* The greatest of the numbers up to n, and of any set of them.
LEMMA MaxUpTo ==
    ASSUME NEW n \in Nat
    PROVE  /\ \A s \in SUBSET (1 .. n) : s # {} => Max(s) \in s /\ \A x \in s : x <= Max(s)
           /\ \A k \in 1 .. n : Max(1 .. k) = k /\ (1 .. k) \ {k} = 1 .. k - 1
  <1>1. ASSUME NEW s \in SUBSET (1 .. n), s # {}
        PROVE  Max(s) \in s /\ \A x \in s : x <= Max(s)
    <2> DEFINE flipped == {n - x : x \in s}
    <2>1. flipped \in SUBSET Nat /\ flipped # {}
      BY <1>1
    <2>2. PICK m \in flipped : \A y \in flipped : m <= y
      BY <2>1, LeastNatural
    <2>3. PICK x \in s : m = n - x
      BY <2>2
    <2>4. \A y \in s : x >= y
      BY <2>2, <2>3
    <2>5. \E z \in s : \A y \in s : z >= y
      BY <2>4
    <2>6. Max(s) \in s /\ \A y \in s : Max(s) >= y
      BY <2>5, Zenon DEF Max
    <2> QED
      BY <2>6
  <1>2. ASSUME NEW k \in 1 .. n PROVE Max(1 .. k) = k /\ (1 .. k) \ {k} = 1 .. k - 1
    <2>1. 1 .. k \in SUBSET (1 .. n) /\ k \in 1 .. k
      OBVIOUS
    <2>2. Max(1 .. k) \in 1 .. k /\ \A x \in 1 .. k : x <= Max(1 .. k)
      BY <1>1, <2>1
    <2>3. Max(1 .. k) = k
      BY <2>1, <2>2
    <2>4. (1 .. k) \ {k} = 1 .. k - 1
      OBVIOUS
    <2> QED
      BY <2>3, <2>4
  <1> QED
    BY <1>1, <1>2

\* f is the function a fold over the positions 1 .. n recurses with.
IsFold(f, n, base, step) ==
    f = [s \in SUBSET (1 .. n) |->
             IF s = {} THEN base ELSE step[<<f[s \ {Max(s)}], Max(s)>>]]

\* Some function on the sets of positions obeys the equation of a fold.
LEMMA FoldExists ==
    ASSUME NEW V, NEW base \in V, NEW n \in Nat, NEW step \in [V \X (1 .. n) -> V]
    PROVE  \E f \in [SUBSET (1 .. n) -> V] : IsFold(f, n, base, step)
  <1> DEFINE Folds(k, f) ==
                 /\ f \in [SUBSET (1 .. k) -> V]
                 /\ \A s \in SUBSET (1 .. k) :
                        f[s] = IF s = {} THEN base ELSE step[<<f[s \ {Max(s)}], Max(s)>>]
             Done == {k \in Nat : k <= n => \E f : Folds(k, f)}
  <1>1. 0 \in Done
    <2> DEFINE f == [s \in SUBSET (1 .. 0) |-> base]
    <2>1. \A s \in SUBSET (1 .. 0) : s = {}
      OBVIOUS
    <2>2. f \in [SUBSET (1 .. 0) -> V]
      OBVIOUS
    <2>3. \A s \in SUBSET (1 .. 0) : f[s] = base
      OBVIOUS
    <2>4. Folds(0, f)
      <3> HIDE DEF f
      <3> QED
        BY <2>1, <2>2, <2>3, Zenon
    <2> QED
      <3> HIDE DEF Folds
      <3> QED
        BY <2>4
  <1>2. ASSUME NEW k \in Nat, k \in Done PROVE k + 1 \in Done
    <2> SUFFICES ASSUME k + 1 <= n PROVE \E f : Folds(k + 1, f)
      <3> HIDE DEF Folds
      <3> QED
        OBVIOUS
    <2>0. \E f : Folds(k, f)
      <3> HIDE DEF Folds
      <3> QED
        BY <1>2
    <2>1. PICK f : Folds(k, f)
      BY <2>0, Zenon
    <2>2. k + 1 \in 1 .. n /\ \A s \in SUBSET (1 .. k + 1) : s \ {k + 1} \in SUBSET (1 .. k)
      BY <1>2
    <2>3. \A s \in SUBSET (1 .. k + 1) :
              /\ k + 1 \in s => Max(s) = k + 1 /\ s # {}
              /\ k + 1 \notin s => s \in SUBSET (1 .. k) /\ s \ {Max(s)} \in SUBSET (1 .. k)
      <3>1. ASSUME NEW s \in SUBSET (1 .. k + 1), k + 1 \in s PROVE Max(s) = k + 1
        <4>1. s \in SUBSET (1 .. n) /\ s # {}
          BY <1>2, <3>1
        <4>2. Max(s) \in s /\ k + 1 <= Max(s) /\ Max(s) \in 1 .. k + 1
          BY <3>1, <4>1, MaxUpTo
        <4> QED
          BY <4>2
      <3>2. ASSUME NEW s \in SUBSET (1 .. k + 1), k + 1 \notin s PROVE s \in SUBSET (1 .. k)
        BY <1>2, <3>2
      <3> QED
        BY <3>1, <3>2
    <2> DEFINE g == [s \in SUBSET (1 .. k + 1) |->
                         IF k + 1 \in s THEN step[<<f[s \ {k + 1}], k + 1>>] ELSE f[s]]
    <2>4. g \in [SUBSET (1 .. k + 1) -> V]
      BY <2>1, <2>2, <2>3
    <2>5. ASSUME NEW s \in SUBSET (1 .. k + 1)
          PROVE  g[s] = IF s = {} THEN base ELSE step[<<g[s \ {Max(s)}], Max(s)>>]
      <3>1. CASE k + 1 \in s
        <4>1. Max(s) = k + 1 /\ s # {} /\ s \ {k + 1} \in SUBSET (1 .. k)
          BY <2>2, <2>3, <3>1
        <4>2. s \ {k + 1} \in SUBSET (1 .. k + 1) /\ k + 1 \notin s \ {k + 1}
          OBVIOUS
        <4>3. g[s \ {k + 1}] = f[s \ {k + 1}]
          BY <4>2
        <4>4. g[s] = step[<<f[s \ {k + 1}], k + 1>>]
          BY <3>1
        <4> HIDE DEF g
        <4> QED
          BY <4>1, <4>3, <4>4
      <3>2. CASE k + 1 \notin s
        <4>1. s \in SUBSET (1 .. k) /\ s \ {Max(s)} \in SUBSET (1 .. k)
          BY <2>3, <3>2
        <4>2. s \ {Max(s)} \in SUBSET (1 .. k + 1) /\ k + 1 \notin s \ {Max(s)}
          BY <3>2
        <4>3. g[s] = f[s] /\ g[s \ {Max(s)}] = f[s \ {Max(s)}]
          BY <3>2, <4>2
        <4>4. f[s] = IF s = {} THEN base ELSE step[<<f[s \ {Max(s)}], Max(s)>>]
          BY <2>1, <4>1
        <4> HIDE DEF g
        <4> QED
          BY <4>3, <4>4
      <3> QED
        BY <3>1, <3>2
    <2>6. Folds(k + 1, g)
      <3> HIDE DEF g
      <3> QED
        BY <2>4, <2>5
    <2> QED
      <3> HIDE DEF Folds
      <3> QED
        BY <2>6
  <1>3. \A k \in Nat : k \in Done
    <2> HIDE DEF Done
    <2> QED
      BY <1>1, <1>2, SetInduction
  <1>4. \E f : Folds(n, f)
    <2> HIDE DEF Folds
    <2> QED
      BY <1>3
  <1>5. PICK f : Folds(n, f)
    BY <1>4, Zenon
  <1>6. f = [s \in SUBSET (1 .. n) |-> f[s]]
    BY <1>5
  <1>7. [s \in SUBSET (1 .. n) |-> f[s]]
            = [s \in SUBSET (1 .. n) |->
                   IF s = {} THEN base ELSE step[<<f[s \ {Max(s)}], Max(s)>>]]
    BY <1>5
  <1>8. IsFold(f, n, base, step)
    BY <1>6, <1>7 DEF IsFold
  <1> QED
    BY <1>5, <1>8

-----------------------------------------------------------------------------
(* Recursion over decimal digits.                                          *)

LEMMA TenthIsLess ==
    ASSUME NEW n \in Nat
    PROVE  /\ n \div 10 \in Nat /\ (n % 10) \in 0 .. 9 /\ n = 10 * (n \div 10) + (n % 10)
           /\ n >= 10 => n \div 10 < n /\ n \div 10 >= 1
  OBVIOUS

\* f takes f[n] from f[n \div 10].
OverTenths(f, D, base, step) ==
    f = [n \in D |-> IF n < 10 THEN base[n] ELSE step[<<f[n \div 10], n>>]]

\* Some function obeys such an equation.
LEMMA TenthsExist ==
    ASSUME NEW V, NEW D \in SUBSET Nat, \A n \in D : n >= 10 => n \div 10 \in D,
           NEW base \in [0 .. 9 -> V], NEW step \in [V \X Nat -> V]
    PROVE  \E f \in [D -> V] : OverTenths(f, D, base, step)
  <1> DEFINE Upto(k) == {n \in D : n <= k}
             Solves(k, f) ==
                 /\ f \in [Upto(k) -> V]
                 /\ \A n \in Upto(k) :
                        f[n] = IF n < 10 THEN base[n] ELSE step[<<f[n \div 10], n>>]
  <1>1. ASSUME NEW k \in Nat, NEW f, Solves(k, f), NEW l \in Nat, NEW g, Solves(l, g)
        PROVE  \A n \in D : n <= k /\ n <= l => f[n] = g[n]
    <2> DEFINE Same == {n \in Nat : n \in D /\ n <= k /\ n <= l => f[n] = g[n]}
    <2>1. ASSUME NEW n \in Nat, \A m \in Nat : m < n => m \in Same PROVE n \in Same
      <3> SUFFICES ASSUME n \in D, n <= k, n <= l PROVE f[n] = g[n]
        OBVIOUS
      <3>1. n \in Upto(k) /\ n \in Upto(l)
        OBVIOUS
      <3>2. CASE n < 10
        <4>1. f[n] = base[n]
          BY <1>1, <3>1, <3>2
        <4>2. g[n] = base[n]
          BY <1>1, <3>1, <3>2
        <4> QED
          BY <4>1, <4>2
      <3>3. CASE n >= 10
        <4>1. n \div 10 \in D /\ n \div 10 < n /\ n \div 10 \in Nat
          BY <3>3, TenthIsLess
        <4>2. f[n \div 10] = g[n \div 10]
          BY <2>1, <4>1
        <4>3. f[n] = step[<<f[n \div 10], n>>]
          BY <1>1, <3>1, <3>3
        <4>4. g[n] = step[<<g[n \div 10], n>>]
          BY <1>1, <3>1, <3>3
        <4> QED
          BY <4>2, <4>3, <4>4
      <3> QED
        BY <3>2, <3>3
    <2>2. \A n \in Nat : n \in Same
      <3> HIDE DEF Same
      <3> QED
        BY <2>1, SetInductionAll
    <2> QED
      BY <2>2
  <1> DEFINE Done == {k \in Nat : \E f : Solves(k, f)}
  <1>2. 0 \in Done
    <2> DEFINE f == [n \in Upto(0) |-> base[n]]
    <2>1. \A n \in Upto(0) : n < 10 /\ base[n] \in V
      BY \A n \in Upto(0) : n = 0
    <2>2. f \in [Upto(0) -> V] /\ \A n \in Upto(0) : n < 10 /\ f[n] = base[n]
      BY <2>1
    <2>3. Solves(0, f)
      <3> HIDE DEF f
      <3> QED
        BY <2>2
    <2> QED
      <3> HIDE DEF Solves
      <3> QED
        BY <2>3
  <1>3. ASSUME NEW k \in Nat, k \in Done PROVE k + 1 \in Done
    <2>0. \E f : Solves(k, f)
      <3> HIDE DEF Solves
      <3> QED
        BY <1>3
    <2>1. PICK f : Solves(k, f)
      BY <2>0, Zenon
    <2> DEFINE g == [n \in Upto(k + 1) |->
                         IF n <= k THEN f[n]
                         ELSE IF n < 10 THEN base[n] ELSE step[<<f[n \div 10], n>>]]
    <2>2. \A n \in Upto(k + 1) :
              /\ n \in Nat
              /\ n <= k => n \in Upto(k)
              /\ n < 10 => n \in 0 .. 9
              /\ n >= 10 => n \div 10 \in Upto(k) /\ n \div 10 \in Upto(k + 1) /\ n \div 10 <= k
      BY TenthIsLess
    <2>3. g \in [Upto(k + 1) -> V]
      <3> SUFFICES ASSUME NEW n \in Upto(k + 1) PROVE g[n] \in V
        OBVIOUS
      <3>1. CASE n <= k
        BY <2>1, <2>2, <3>1
      <3>2. CASE ~(n <= k) /\ n < 10
        BY <2>2, <3>2
      <3>3. CASE ~(n <= k) /\ ~(n < 10)
        <4>1. f[n \div 10] \in V /\ n \in Nat
          BY <2>1, <2>2, <3>3
        <4> QED
          BY <3>3, <4>1
      <3> QED
        BY <3>1, <3>2, <3>3
    <2>4. ASSUME NEW n \in Upto(k + 1)
          PROVE  g[n] = IF n < 10 THEN base[n] ELSE step[<<g[n \div 10], n>>]
      <3>1. CASE n < 10
        BY <2>1, <2>2, <3>1
      <3>2. CASE n >= 10
        <4>1. g[n \div 10] = f[n \div 10]
          BY <2>2, <3>2
        <4>2. g[n] = step[<<f[n \div 10], n>>]
          BY <2>1, <2>2, <3>2
        <4> HIDE DEF g
        <4> QED
          BY <3>2, <4>1, <4>2
      <3> QED
        BY <3>1, <3>2
    <2>5. Solves(k + 1, g)
      <3> HIDE DEF g
      <3> QED
        BY <2>3, <2>4
    <2> QED
      <3> HIDE DEF Solves
      <3> QED
        BY <2>5
  <1>4. \A k \in Nat : k \in Done
    <2> HIDE DEF Done
    <2> QED
      BY <1>2, <1>3, SetInduction
  <1>5. \A k \in Nat : \E f : Solves(k, f)
    <2> HIDE DEF Solves
    <2> QED
      BY <1>4
  <1> DEFINE sol(k) == CHOOSE f : Solves(k, f)
             F == [n \in D |-> sol(n)[n]]
  <1>6. \A k \in Nat : Solves(k, sol(k))
    <2> HIDE DEF Solves
    <2> QED
      BY <1>5, Zenon
  <1> HIDE DEF sol
  <1>7. \A n \in D : n \in Upto(n)
    OBVIOUS
  <1>8. F \in [D -> V]
    BY <1>6, <1>7
  <1>9. ASSUME NEW n \in D
        PROVE  F[n] = IF n < 10 THEN base[n] ELSE step[<<F[n \div 10], n>>]
    <2>1. F[n] = sol(n)[n]
      OBVIOUS
    <2>2. sol(n)[n] = IF n < 10 THEN base[n] ELSE step[<<sol(n)[n \div 10], n>>]
      BY <1>6, <1>7
    <2>3. CASE n < 10
      BY <2>1, <2>2, <2>3
    <2>4. CASE n >= 10
      <3>1. n \div 10 \in D /\ n \div 10 \in Nat /\ n \div 10 <= n /\ n \in Nat
        BY <2>4, TenthIsLess
      <3>2. Solves(n, sol(n)) /\ Solves(n \div 10, sol(n \div 10))
        BY <1>6, <3>1
      <3>3. sol(n)[n \div 10] = sol(n \div 10)[n \div 10]
        <4> HIDE DEF Solves
        <4> QED
          BY <1>1, <3>1, <3>2
      <3>4. F[n \div 10] = sol(n \div 10)[n \div 10]
        BY <3>1
      <3> HIDE DEF F
      <3> QED
        BY <2>1, <2>2, <2>4, <3>3, <3>4
    <2> QED
      BY <2>3, <2>4
  <1> HIDE DEF F
  <1>10. OverTenths(F, D, base, step)
    <2>1. F = [n \in D |-> F[n]]
      BY <1>8
    <2>2. [n \in D |-> F[n]]
              = [n \in D |-> IF n < 10 THEN base[n] ELSE step[<<F[n \div 10], n>>]]
      BY <1>9
    <2> QED
      BY <2>1, <2>2 DEF OverTenths
  <1> QED
    BY <1>8, <1>10
=============================================================================
