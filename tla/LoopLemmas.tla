----------------------------- MODULE LoopLemmas -----------------------------
(***************************************************************************)
(* What the proofs of several modules need of loops and rings.  Induction  *)
(* over the natural numbers and over finite recursion is stated with sets  *)
(* in the place of predicates: a bounded loop of the code is a recursive   *)
(* function on 0..N whose equation and whose invariants can be proved.     *)
(***************************************************************************)
EXTENDS Integers, WellFoundedInduction, TLAPS

Below == {ss \in Nat \X Nat : ss[1] < ss[2]}

(* The order of the natural numbers is well founded; as a set of pairs,    *)
(* since the library's theorems on such sets take no operator.  It is what *)
(* bounds every counting loop of the code.                                 *)
LEMMA BelowWellFounded == IsWellFoundedOn(Below, Nat)
<1>1. Below = OpToRel(<, Nat)
  BY Zenon DEF Below, OpToRel
<1> QED BY <1>1, NatLessThanWellFounded, Zenon

(* Every set of natural numbers that is not empty has a least element: the *)
(* first index at which a scan of the code stops.                          *)
LEMMA LeastElement ==
  ASSUME NEW T \in SUBSET Nat, T # {}
  PROVE  \E x \in T : \A y \in T : x <= y
<1>1. PICK x \in T : \A y \in T : ~(<<y, x>> \in Below)
  BY BelowWellFounded, WFMin
<1>2. ASSUME NEW y \in T PROVE x <= y
  <2>1. <<y, x>> \in Nat \X Nat OBVIOUS
  <2>2. ~(y < x)
    BY <1>1, <2>1 DEF Below
  <2> QED BY <2>2
<1> QED BY <1>2

(* A set of numbers up to N that is not empty has a greatest element: the  *)
(* last index that a scan of the code still takes.                         *)
LEMMA GreatestElement ==
  ASSUME NEW N \in Nat, NEW T \in SUBSET (0..N), T # {}
  PROVE  \E x \in T : \A y \in T : y <= x
<1> DEFINE U == {n \in Nat : N - n \in T}
<1>1. U \in SUBSET Nat /\ U # {}
  <2>1. PICK y \in T : TRUE
    OBVIOUS
  <2>2. N - y \in Nat /\ N - (N - y) = y
    OBVIOUS
  <2>3. N - y \in U
    BY <2>2
  <2> QED BY <2>3
<1> HIDE DEF U
<1>2. PICK u \in U : \A v \in U : u <= v
  BY <1>1, LeastElement
<1>3. u \in Nat /\ N - u \in T
  BY <1>2 DEF U
<1>4. ASSUME NEW y \in T PROVE y <= N - u
  <2>1. N - y \in Nat /\ N - (N - y) = y
    OBVIOUS
  <2>2. N - y \in U
    BY <2>1 DEF U
  <2> QED BY <1>2, <1>3, <2>2
<1> QED BY <1>3, <1>4

(* Induction: a set that holds 0 and with n also n + 1 holds every number  *)
(* of passes a loop can make.                                              *)
LEMMA SetInduction ==
  ASSUME NEW T, 0 \in T, \A n \in Nat : n \in T => n + 1 \in T
  PROVE  \A n \in Nat : n \in T
<1> SUFFICES ASSUME \E n \in Nat : n \notin T
             PROVE  FALSE
  OBVIOUS
<1> DEFINE C == {n \in Nat : n \notin T}
<1>1. C \in SUBSET Nat /\ C # {}
  OBVIOUS
<1> HIDE DEF C
<1>2. PICK x \in C : \A y \in C : x <= y
  BY <1>1, LeastElement
<1>3. x \in Nat /\ x \notin T /\ x # 0
  BY <1>2 DEF C
<1>4. x - 1 \in Nat /\ x - 1 \notin C
  BY <1>2, <1>3, <1>1
<1>5. x - 1 \in T
  BY <1>4 DEF C
<1> QED BY <1>3, <1>4, <1>5

(* The same up to a bound.                                                 *)
LEMMA BoundedInduction ==
  ASSUME NEW N \in Nat, NEW T, 0 \in T,
         \A n \in 0..(N - 1) : n \in T => n + 1 \in T
  PROVE  \A n \in 0..N : n \in T
<1> DEFINE U == {n \in Nat : n <= N => n \in T}
<1>1. 0 \in U
  OBVIOUS
<1>2. \A n \in Nat : n \in U => n + 1 \in U
  OBVIOUS
<1> HIDE DEF U
<1>3. \A n \in Nat : n \in U
  BY <1>1, <1>2, SetInduction
<1> QED BY <1>3 DEF U

(* f is the run of a loop that starts from e and applies F in each of N    *)
(* passes.                                                                 *)
IsRun(f, S, e, F, N) ==
  f \in [0..N -> S] /\ f[0] = e /\ \A i \in 1..N : f[i] = F[f[i - 1]]

(* Every such loop has a run: the recursive functions that model the       *)
(* bounded loops of the code exist.                                        *)
LEMMA RunExists ==
  ASSUME NEW S, NEW e \in S, NEW F \in [S -> S], NEW N \in Nat
  PROVE  \E f : IsRun(f, S, e, F, N)
<1> DEFINE T == {n \in Nat : \E f : IsRun(f, S, e, F, n)}
<1>1. 0 \in T
  <2>1. IsRun([i \in 0..0 |-> e], S, e, F, 0)
    BY DEF IsRun
  <2> QED BY <2>1
<1>2. ASSUME NEW n \in Nat, n \in T
      PROVE  n + 1 \in T
  <2>1. PICK f : IsRun(f, S, e, F, n)
    BY <1>2
  <2> DEFINE g == [i \in 0..(n + 1) |-> IF i <= n THEN f[i] ELSE F[f[n]]]
  <2>2. g \in [0..(n + 1) -> S]
    BY <2>1 DEF IsRun
  <2>3. g[0] = e
    BY <2>1 DEF IsRun
  <2>4. ASSUME NEW i \in 1..(n + 1)
        PROVE  g[i] = F[g[i - 1]]
    BY <2>1 DEF IsRun
  <2> HIDE DEF g
  <2>5. IsRun(g, S, e, F, n + 1)
    BY <2>2, <2>3, <2>4 DEF IsRun
  <2>6. n + 1 \in Nat /\ \E x : IsRun(x, S, e, F, n + 1)
    BY <2>5
  <2> QED BY <2>6
<1> HIDE DEF T
<1>3. N \in T
  BY <1>1, <1>2, SetInduction
<1> QED BY <1>3 DEF T

(* The same for a loop whose pass i applies G[i], as one over the entries  *)
(* of a directory does.                                                    *)
LEMMA WalkExists ==
  ASSUME NEW S, NEW e \in S, NEW N \in Nat, NEW G \in [1..N -> [S -> S]]
  PROVE  \E f \in [0..N -> S] : f[0] = e /\ \A i \in 1..N : f[i] = G[i][f[i - 1]]
<1> DEFINE Walk(f, n) == f \in [0..n -> S] /\ f[0] = e /\ \A i \in 1..n : f[i] = G[i][f[i - 1]]
           T == {n \in 0..N : \E f : Walk(f, n)}
<1>1. 0 \in T
  <2>1. Walk([i \in 0..0 |-> e], 0)
    OBVIOUS
  <2> HIDE DEF Walk
  <2>2. 0 \in 0..N /\ \E f : Walk(f, 0)
    BY <2>1
  <2> QED BY <2>2
<1>2. ASSUME NEW n \in 0..(N - 1), n \in T
      PROVE  n + 1 \in T
  <2>1. PICK f : Walk(f, n)
    BY <1>2
  <2> DEFINE g == [i \in 0..(n + 1) |-> IF i <= n THEN f[i] ELSE G[n + 1][f[n]]]
  <2>2. g \in [0..(n + 1) -> S]
    BY <2>1
  <2>3. g[0] = e
    BY <2>1
  <2>4. ASSUME NEW i \in 1..(n + 1)
        PROVE  g[i] = G[i][g[i - 1]]
    BY <2>1
  <2> HIDE DEF g
  <2>5. Walk(g, n + 1)
    BY <2>2, <2>3, <2>4
  <2>6. n + 1 \in 0..N /\ \E x : Walk(x, n + 1)
    BY <2>5
  <2> QED BY <2>6
<1> HIDE DEF T
<1>3. \A n \in 0..N : n \in T
  BY <1>1, <1>2, BoundedInduction
<1>4. N \in T
  BY <1>3
<1> QED BY <1>4 DEF T

(* Two records less than a ring apart have different slots of it (the      *)
(* fault ring, the chat's journal).                                        *)
LEMMA SlotsDistinct ==
  ASSUME NEW i \in Nat, NEW j \in Nat, NEW n \in Nat \ {0}, i < j, j < i + n
  PROVE  i % n # j % n
<1> DEFINE a == i \div n
           b == j \div n
<1> SUFFICES ASSUME i % n = j % n PROVE FALSE
  OBVIOUS
<1>1. a \in Int /\ b \in Int /\ i % n \in Nat
  OBVIOUS
<1>2. i = n * a + (i % n) /\ j = n * b + (j % n)
  OBVIOUS
<1>3. j - i = n * (b - a)
  BY <1>1, <1>2
<1>4. b - a <= 0 => n * (b - a) <= 0
  BY <1>1
<1>5. b - a >= 1 => n * (b - a) >= n
  BY <1>1
<1> QED
  BY <1>1, <1>3, <1>4, <1>5

(* A slot number is an index of the ring.                                  *)
LEMMA SlotInRing ==
  ASSUME NEW i \in Nat, NEW n \in Nat \ {0}
  PROVE  i % n \in 0 .. n - 1
OBVIOUS

(* A record number is a whole number of rings and a slot.                  *)
LEMMA RingsAndSlot ==
  ASSUME NEW x \in Nat, NEW n \in Nat \ {0}
  PROVE  x \div n \in Int /\ x % n \in 0 .. n - 1 /\ x = n * (x \div n) + (x % n)
<1>1. x \div n \in Int
  OBVIOUS
<1>2. x % n \in 0 .. n - 1
  BY SlotInRing
<1>3. x = n * (x \div n) + (x % n)
  OBVIOUS
<1> QED BY <1>1, <1>2, <1>3

(* A slot is the same whole rings further on.                              *)
LEMMA SlotShift ==
  ASSUME NEW x \in Nat, NEW q \in Nat, NEW n \in Nat \ {0}
  PROVE  (x + n * q) % n = x % n
<1> DEFINE y == x + n * q
           a == x \div n
           b == y \div n
           r == x % n
           s == y % n
           d == a + q - b
<1>1. n * q \in Nat
  OBVIOUS
<1>2. y \in Nat /\ y = x + n * q
  BY <1>1
<1>3. a \in Int /\ r \in 0 .. n - 1 /\ x = n * a + r
  BY RingsAndSlot
<1> HIDE DEF y
<1>4. b \in Int /\ s \in 0 .. n - 1 /\ y = n * b + s
  BY <1>2, RingsAndSlot
<1> HIDE DEF a, b, r, s
<1>5. d \in Int
  BY <1>3, <1>4
<1>6. n * d = n * a + n * q - n * b
  BY <1>3, <1>4
<1>7. n * d = s - r
  BY <1>2, <1>3, <1>4, <1>6
<1> HIDE DEF d
<1>8. d >= 1 => n * d >= n
  BY <1>5
<1>9. d <= -1 => n * d <= -n
  BY <1>5
<1>10. d = 0
  <2>1. s - r < n /\ s - r > -n
    BY <1>3, <1>4
  <2>2. ~(d >= 1) /\ ~(d <= -1)
    BY <1>3, <1>4, <1>7, <1>8, <1>9, <2>1
  <2> QED BY <1>5, <2>2
<1>11. n * d = 0
  BY <1>10
<1>12. s = r
  BY <1>3, <1>4, <1>7, <1>11
<1> QED BY <1>12 DEF y, r, s

(* Counting a ring from its oldest slot: i further on from the slot the    *)
(* next record will take, is the record i behind the oldest one.           *)
LEMMA SlotFromOldest ==
  ASSUME NEW t \in Nat, NEW n \in Nat \ {0}, n <= t, NEW i \in Nat
  PROVE  ((t % n) + i) % n = (t - n + i) % n
<1> DEFINE a == t \div n
           r == t % n
           x == r + i
           q == a - 1
<1>1. a \in Int /\ r \in 0 .. n - 1 /\ t = n * a + r
  BY RingsAndSlot
<1> HIDE DEF a, r
<1>2. a <= 0 => n * a <= 0
  BY <1>1
<1>3. a >= 1
  BY <1>1, <1>2
<1>4. n * (a - 1) = n * a - n
  BY <1>1
<1>5. x \in Nat /\ q \in Nat /\ t - n + i = x + n * q
  BY <1>1, <1>3, <1>4
<1> HIDE DEF x, q
<1>6. (x + n * q) % n = x % n
  BY <1>5, SlotShift
<1> QED BY <1>5, <1>6 DEF x, r
=============================================================================
