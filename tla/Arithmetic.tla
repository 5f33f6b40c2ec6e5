----------------------------- MODULE Arithmetic -----------------------------
(***************************************************************************)
(* What the proofs about the components need of numbers.                   *)
(*                                                                         *)
(* Induction, for sets and functions (the theorems of the library take a   *)
(* predicate, which no prover here can instantiate), and what follows for  *)
(* a function that is defined by recursion up to a bound: that there is    *)
(* one, and its range.                                                     *)
(*                                                                         *)
(* Division: numbers in blocks, as offsets are in sectors.  A product of   *)
(* two variables is linear once its parts have names: these lemmas are     *)
(* nearly the only ones that multiply.                                     *)
(***************************************************************************)
EXTENDS Integers, TLAPS, WellFoundedInduction

(* A set of numbers has a least one. *)
LEMMA SmallestElement ==
  ASSUME NEW A, A \subseteq Nat, A # {}
  PROVE  \E a \in A : \A x \in A : a <= x
<1> DEFINE R == {ss \in Nat \X Nat : ss[1] < ss[2]}
<1>1. IsWellFoundedOn(R, Nat)
  BY NatLessThanWellFounded DEF OpToRel
<1>2. PICK a \in A : \A x \in A : <<x, a>> \notin R
  <2> HIDE DEF R
  <2> QED
    BY <1>1, WFMin
<1>3. ASSUME NEW x \in A PROVE a <= x
  <2>1. x \in Nat /\ a \in Nat /\ <<x, a>> \notin R
    BY <1>2
  <2>2. ~(x < a)
    BY <2>1
  <2> QED
    BY <2>1, <2>2
<1> QED
  BY <1>3

(* A set of numbers that has a bound has a greatest one. *)
LEMMA GreatestElement ==
  ASSUME NEW A, A \subseteq Nat, A # {}, NEW b \in Nat, \A x \in A : x <= b
  PROVE  \E a \in A : \A x \in A : x <= a
<1> DEFINE B == {c \in Nat : \A x \in A : x <= c}
<1>1. B \in SUBSET Nat /\ B # {}
  OBVIOUS
<1>2. PICK m \in B : \A c \in B : m <= c
  <2> HIDE DEF B
  <2> QED
    BY <1>1, SmallestElement
<1>3. m \in A
  <2> SUFFICES ASSUME m \notin A PROVE FALSE
    OBVIOUS
  <2>1. \A x \in A : x <= m - 1
    BY <1>2
  <2>2. m - 1 \in Nat
    <3>1. PICK x \in A : x \in Nat /\ x <= m - 1
      BY <2>1
    <3> QED
      BY <1>2, <3>1
  <2>3. m - 1 \in B
    BY <2>1, <2>2
  <2> QED
    BY <1>2, <2>2, <2>3
<1> QED
  BY <1>2, <1>3

(* Induction up to a bound. *)
LEMMA UpTo ==
  ASSUME NEW N \in Nat, NEW S, 0 \in S, \A m \in 0 .. N - 1 : m \in S => m + 1 \in S
  PROVE  \A m \in 0 .. N : m \in S
<1> DEFINE Bad == {m \in 0 .. N : m \notin S}
<1> SUFFICES ASSUME Bad # {} PROVE FALSE
  OBVIOUS
<1>1. Bad \subseteq Nat
  OBVIOUS
<1>2. PICK b \in Bad : \A y \in Bad : b <= y
  <2> HIDE DEF Bad
  <2> QED
    BY <1>1, SmallestElement
<1>3. b \in 0 .. N /\ b # 0 /\ b \notin S
  OBVIOUS
<1>4. b - 1 \in 0 .. N - 1 /\ b - 1 \in 0 .. N /\ (b - 1) + 1 = b /\ ~(b <= b - 1)
  BY <1>3
<1>5. b - 1 \in S
  BY <1>2, <1>4
<1> QED
  BY <1>3, <1>4, <1>5

(* G is the step, b where it starts: there are n values of it. *)
Steps(f, X, b, n, G) == /\ f \in [0 .. n -> X] /\ f[0] = b
                        /\ \A k \in 1 .. n : f[k] = G[<<f[k - 1], k>>]

LEMMA SomeSteps ==
  ASSUME NEW X, NEW b \in X, NEW N \in Nat, NEW G \in [X \X (1 .. N) -> X]
  PROVE  \E f : Steps(f, X, b, N, G)
<1> DEFINE S == {n \in 0 .. N : \E f : Steps(f, X, b, n, G)}
<1>1. 0 \in S
  <2>1. Steps([k \in 0 .. 0 |-> b], X, b, 0, G)
    BY DEF Steps
  <2> QED
    BY <2>1
<1>2. ASSUME NEW n \in 0 .. N - 1, n \in S PROVE n + 1 \in S
  <2>1. PICK f : Steps(f, X, b, n, G)
    BY <1>2
  <2>2. f \in [0 .. n -> X] /\ f[0] = b /\ \A k \in 1 .. n : f[k] = G[<<f[k - 1], k>>]
    BY <2>1 DEF Steps
  <2>3. f[n] \in X /\ n + 1 \in 1 .. N
    BY <2>2
  <2>4. G[<<f[n], n + 1>>] \in X
    BY <2>3
  <2> DEFINE h == [k \in 0 .. n + 1 |-> IF k <= n THEN f[k] ELSE G[<<f[n], n + 1>>]]
  <2>5. h \in [0 .. n + 1 -> X] /\ h[0] = b
    BY <2>2, <2>4
  <2>6. ASSUME NEW k \in 1 .. n + 1 PROVE h[k] = G[<<h[k - 1], k>>]
    <3>1. CASE k <= n
      BY <2>2, <3>1
    <3>2. CASE k = n + 1
      BY <3>2
    <3> QED
      BY <3>1, <3>2
  <2>7. Steps(h, X, b, n + 1, G)
    BY <2>5, <2>6 DEF Steps
  <2> QED
    BY <2>7
<1>3. \A n \in 0 .. N : n \in S
  <2> HIDE DEF S
  <2> QED
    BY <1>1, <1>2, UpTo
<1>4. N \in S
  BY <1>3
<1> QED
  BY <1>4

(* The values of a recursion that defines f from f as well. *)
LEMMA StepsOf ==
  ASSUME NEW X, NEW b \in X, NEW N \in Nat, NEW G \in [X \X (1 .. N) -> X], NEW f,
         f[0] = b, \A k \in 1 .. N : f[k - 1] \in X => f[k] = G[<<f[k - 1], k>>]
  PROVE  \A k \in 0 .. N : f[k] \in X
<1> DEFINE S == {n \in Nat : f[n] \in X}
<1>1. 0 \in S
  OBVIOUS
<1>2. ASSUME NEW n \in 0 .. N - 1, n \in S PROVE n + 1 \in S
  <2>1. n + 1 \in 1 .. N /\ (n + 1) - 1 = n /\ f[n] \in X
    BY <1>2
  <2>2. f[n + 1] = G[<<f[n], n + 1>>]
    BY <2>1
  <2>3. G[<<f[n], n + 1>>] \in X
    BY <2>1
  <2> QED
    BY <2>2, <2>3
<1>3. \A n \in 0 .. N : n \in S
  <2> HIDE DEF S
  <2> QED
    BY <1>1, <1>2, UpTo
<1> QED
  BY <1>3
-----------------------------------------------------------------------------
(* Division. *)

LEMMA Division ==
  ASSUME NEW x \in Int, NEW n \in Nat \ {0}
  PROVE  /\ x \div n \in Int
         /\ x % n \in 0 .. n - 1
         /\ n * (x \div n) + (x % n) = x
         /\ x >= 0 => x \div n >= 0
<1>1. x \div n \in Int /\ x % n \in 0 .. n - 1
  OBVIOUS
<1>2. n * (x \div n) + (x % n) = x
  OBVIOUS
<1>3. x >= 0 => x \div n >= 0
  OBVIOUS
<1> QED
  BY <1>1, <1>2, <1>3

LEMMA Multiples ==
  ASSUME NEW a \in Nat, NEW b \in Nat, NEW n \in Nat, a <= b
  PROVE  a * n \in Nat /\ b * n \in Nat /\ a * n <= b * n
OBVIOUS

LEMMA Quotient ==
  ASSUME NEW n \in Nat \ {0}, NEW q \in Int, NEW r \in 0 .. n - 1,
         NEW x, x = (n * q) + r
  PROVE  x \div n = q /\ x % n = r
<1> DEFINE k == x \div n
<1>1. x \in Int /\ k \in Int /\ n * q \in Int
  OBVIOUS
<1>2. x % n \in 0 .. n - 1 /\ n * k + (x % n) = x
  BY <1>1, Division
<1>3. k = q
  <2>1. CASE k < q
    <3>1. n * (k + 1) <= n * q
      BY <2>1, <1>1
    <3>2. n * (k + 1) = n * k + n
      BY <1>1
    <3> QED
      BY <1>1, <1>2, <3>1, <3>2
  <2>2. CASE k > q
    <3>1. n * (q + 1) <= n * k
      BY <2>2, <1>1
    <3>2. n * (q + 1) = n * q + n
      BY <1>1
    <3> QED
      BY <1>1, <1>2, <3>1, <3>2
  <2> QED
    BY <1>1, <2>1, <2>2
<1>4. x % n = r
  BY <1>1, <1>2, <1>3
<1> QED
  BY <1>3, <1>4

(* A number by its quotient and its remainder. *)
LEMMA Parts ==
  ASSUME NEW x \in Int, NEW n \in Nat \ {0}
  PROVE  \E q \in Int, r \in 0 .. n - 1 : q = x \div n /\ r = x % n /\ x = (n * q) + r
BY Division

(* n whole multiples further on. *)
LEMMA Further ==
  ASSUME NEW n \in Nat \ {0}, NEW x \in Int, NEW k \in Int, NEW y, y = x + (n * k)
  PROVE  y \div n = (x \div n) + k /\ y % n = x % n
<1>1. PICK q \in Int, r \in 0 .. n - 1 : q = x \div n /\ r = x % n /\ x = (n * q) + r
  BY Parts
<1>2. PICK m \in Int : m = q + k
  OBVIOUS
<1>3. y = (n * m) + r
  <2>1. n * m = (n * q) + (n * k)
    BY <1>2
  <2> QED
    BY <1>1, <2>1
<1>4. y \div n = m /\ y % n = r
  BY <1>3, Quotient
<1> QED
  BY <1>1, <1>2, <1>4

(* Steps within a block of n numbers. *)
LEMMA Inside ==
  ASSUME NEW n \in Nat \ {0}, NEW x \in Int, NEW t \in Int, (x % n) + t \in 0 .. n - 1
  PROVE  (x + t) \div n = x \div n /\ (x + t) % n = (x % n) + t
<1>1. PICK q \in Int, r \in 0 .. n - 1 : q = x \div n /\ r = x % n /\ x = (n * q) + r
  BY Parts
<1>2. PICK s \in 0 .. n - 1 : s = r + t
  BY <1>1
<1>3. PICK y \in Int : y = x + t
  OBVIOUS
<1>4. y = (n * q) + s
  BY <1>1, <1>2, <1>3
<1>5. y \div n = q /\ y % n = s
  BY <1>4, Quotient
<1> QED
  BY <1>1, <1>2, <1>3, <1>5

(* Of two numbers the one in the earlier block is smaller. *)
LEMMA InOrder ==
  ASSUME NEW n \in Nat \ {0}, NEW x \in Int, NEW y \in Int
  PROVE  /\ x \div n < y \div n => x < y
         /\ x <= y => x \div n <= y \div n
<1>1. ASSUME NEW a \in Int, NEW b \in Int, NEW c \in 0 .. n - 1, NEW d \in 0 .. n - 1, a < b
      PROVE  (n * a) + c < (n * b) + d
  <2>1. n * (a + 1) <= n * b
    BY <1>1
  <2>2. n * (a + 1) = (n * a) + n /\ n * a \in Int /\ n * b \in Int
    OBVIOUS
  <2> QED
    BY <2>1, <2>2
<1>2. PICK q \in Int, r \in 0 .. n - 1 : q = x \div n /\ r = x % n /\ x = (n * q) + r
  BY Parts
<1>3. PICK s \in Int, t \in 0 .. n - 1 : s = y \div n /\ t = y % n /\ y = (n * s) + t
  BY Parts
<1>4. q < s => x < y
  BY <1>1, <1>2, <1>3
<1>5. s < q => y < x
  BY <1>1, <1>2, <1>3
<1> QED
  BY <1>2, <1>3, <1>4, <1>5

(* Two numbers of a block lie as far from each other as their places. *)
LEMMA SameBlock ==
  ASSUME NEW n \in Nat \ {0}, NEW x \in Int, NEW y \in Int, x \div n = y \div n
  PROVE  x - y = (x % n) - (y % n)
<1>1. PICK q \in Int, r \in 0 .. n - 1 : q = x \div n /\ r = x % n /\ x = (n * q) + r
  BY Parts
<1>2. PICK s \in Int, t \in 0 .. n - 1 : s = y \div n /\ t = y % n /\ y = (n * s) + t
  BY Parts
<1>3. q = s /\ n * q \in Int
  BY <1>1, <1>2
<1> QED
  BY <1>1, <1>2, <1>3
=============================================================================
