---------------------------- MODULE FaultProofs ----------------------------
(***************************************************************************)
(* Proofs about the patches of .text and about the fault conversation that *)
(* makes some of them, for every .text, every number of faults and every   *)
(* budget.                                                                 *)
(*                                                                         *)
(* First CodePatch.  Its inductive invariant, PatchInv, needs what the     *)
(* instruction boundaries of a memory are (Decodes) and how they change    *)
(* when whole instructions replace whole instructions (SpliceSame); then   *)
(* one lemma for a revert, one for a patch, and an induction over the loop *)
(* of fault_patch_revert_all.                                              *)
(*                                                                         *)
(* Then FaultChat, which implements CodePatch.  Its bounds follow from one *)
(* inductive invariant, IInv: what the per-address counters and the        *)
(* budgets of g_state.faultchat say is at least what was really asked and  *)
(* written.                                                                *)
(*                                                                         *)
(* Last Fault, the handling of the faults themselves, for every number of  *)
(* fibers, instructions, plans and faults, and every size of the guard     *)
(* stack, the ring and the budgets.  FInv is the conjunction of what is    *)
(* known of the types, of the guard structures on the stacks, of the guard *)
(* stack when one fiber does the arming, of the fault being handled, of    *)
(* the ring and of the re-fault counter.                                   *)
(***************************************************************************)
EXTENDS FaultChat, Fault, LoopLemmas, SequenceTheorems, FiniteSetTheorems

-----------------------------------------------------------------------------
(* Decoding.                                                               *)

(* B are the boundaries of b: the first byte, what follows each of them,   *)
(* and nothing else.                                                       *)
Decodes(b, B) ==
  /\ B \subseteq Nat \ {0}
  /\ 1 \in B
  /\ \A x \in B : x \in DOMAIN b => Following(b, x) \in B
  /\ \A x \in B : x # 1 => \E y \in B : y \in DOMAIN b /\ Following(b, y) = x

(* The decoding loop goes forward.                                         *)
LEMMA FollowingNat ==
  ASSUME NEW b \in Seq(Bytes), NEW x \in Nat \ {0}
  PROVE  /\ Following(b, x) \in Nat \ {0}
         /\ x \in DOMAIN b => Following(b, x) \in {x + 1, x + 2}
         /\ x \notin DOMAIN b => Following(b, x) = x
BY DEF Following

(* The loop of span_insns has run through b when it has made as many       *)
(* passes as b has bytes; the places it has been are the boundaries.       *)
LEMMA BoundariesDecode ==
  ASSUME NEW b \in Seq(Bytes)
  PROVE  Decodes(b, Boundaries(b))
<1> DEFINE N == Len(b)
           S == Nat \ {0}
           F == [x \in S |-> Following(b, x)]
           D(f) == [k \in 0..N |-> IF k = 0 THEN 1 ELSE Following(b, f[k - 1])]
           at == CHOOSE f : f = D(f)
<1>1. N \in Nat /\ DOMAIN b = 1..N
  OBVIOUS
<1>2. \E f : f = D(f)
  <2>1. F \in [S -> S]
    BY FollowingNat
  <2>2. \A x \in S : F[x] = Following(b, x)
    OBVIOUS
  <2> HIDE DEF F
  <2>a. 1 \in S OBVIOUS
  <2>0. PICK f : IsRun(f, S, 1, F, N)
    BY <1>1, <2>a, <2>1, RunExists
  <2>3. f \in [0..N -> S] /\ f[0] = 1 /\ \A i \in 1..N : f[i] = F[f[i - 1]]
    BY <2>0 DEF IsRun
  <2>4. ASSUME NEW i \in 0..N
        PROVE  f[i] = IF i = 0 THEN 1 ELSE Following(b, f[i - 1])
    <3>1. CASE i = 0
      BY <3>1, <2>3
    <3>2. CASE i # 0
      <4>1. i \in 1..N /\ i - 1 \in 0..N
        BY <3>2, <1>1
      <4> QED BY <3>2, <4>1, <2>2, <2>3
    <3> QED BY <3>1, <3>2
  <2>5. f = [i \in 0..N |-> f[i]]
    BY <2>3
  <2>6. ASSUME NEW i \in 0..N PROVE f[i] = D(f)[i]
    <3>1. D(f)[i] = IF i = 0 THEN 1 ELSE Following(b, f[i - 1])
      OBVIOUS
    <3> HIDE DEF D
    <3> QED BY <3>1, <2>4, Zenon
  <2>7. f = D(f)
    <3>1. D(f) = [i \in 0..N |-> D(f)[i]]
      OBVIOUS
    <3> HIDE DEF D
    <3> QED BY <2>5, <2>6, <3>1
  <2> QED BY <2>7
<1>3. at = D(at)
  <2> HIDE DEF D
  <2> QED BY <1>2, Zenon
<1>4. Boundaries(b) = {at[k] : k \in 0..N}
  BY DEF Boundaries
<1> HIDE DEF at
<1>5. \A k \in 0..N : at[k] = IF k = 0 THEN 1 ELSE Following(b, at[k - 1])
  BY <1>3
<1>6. at[0] = 1 /\ \A k \in 1..N : at[k] = Following(b, at[k - 1])
  <2>1. ASSUME NEW k \in 1..N PROVE at[k] = Following(b, at[k - 1])
    <3>1. k \in 0..N /\ k # 0
      BY <1>1
    <3> QED BY <3>1, <1>5
  <2> QED BY <1>1, <1>5, <2>1
<1> HIDE DEF D, F
<1> DEFINE T == {k \in 0..N : at[k] \in S /\ (at[k] > k \/ at[k] > N)}
<1>7. 0 \in T
  BY <1>1, <1>6
<1>8. ASSUME NEW k \in 0..(N - 1), k \in T PROVE k + 1 \in T
  <2>1. k + 1 \in 1..N /\ k + 1 - 1 = k
    BY <1>1
  <2>2. at[k] \in S /\ (at[k] > k \/ at[k] > N)
    BY <1>8
  <2>3. at[k + 1] = Following(b, at[k])
    BY <2>1, <1>6
  <2>4. at[k + 1] \in S /\ (at[k] \in 1..N => at[k + 1] \in {at[k] + 1, at[k] + 2})
                        /\ (at[k] \notin 1..N => at[k + 1] = at[k])
    BY <2>2, <2>3, <1>1, FollowingNat
  <2> QED BY <1>1, <2>1, <2>2, <2>4
<1> HIDE DEF T
<1>9. \A k \in 0..N : k \in T
  BY <1>1, <1>7, <1>8, BoundedInduction
<1>10. \A k \in 0..N : at[k] \in S /\ (at[k] > k \/ at[k] > N)
  BY <1>9 DEF T
<1> DEFINE B == Boundaries(b)
<1>11. B \subseteq S /\ 1 \in B
  <2>1. 0 \in 0..N
    BY <1>1
  <2> QED BY <1>4, <1>6, <1>10, <2>1
<1>12. ASSUME NEW x \in B, x \in DOMAIN b PROVE Following(b, x) \in B
  <2>1. PICK k \in 0..N : x = at[k]
    BY <1>4
  <2>2. k + 1 \in 0..N /\ k + 1 \in 1..N /\ k + 1 - 1 = k
    BY <1>1, <1>10, <1>12, <2>1
  <2>3. at[k + 1] = Following(b, x)
    BY <2>1, <2>2, <1>6
  <2> QED BY <1>4, <2>2, <2>3
<1>13. ASSUME NEW x \in B, x # 1
       PROVE  \E y \in B : y \in DOMAIN b /\ Following(b, y) = x
  <2> DEFINE K == {k \in 0..N : at[k] = x}
  <2>1. K \in SUBSET Nat /\ K # {}
    BY <1>1, <1>4
  <2>2. PICK k \in K : \A j \in K : k <= j
    BY <2>1, LeastElement
  <2>3. k \in 0..N /\ at[k] = x
    BY <2>2
  <2>4. k # 0
    BY <1>6, <1>13, <2>3
  <2>5. k \in 1..N /\ k - 1 \in 0..N /\ ~(k <= k - 1)
    BY <1>1, <2>3, <2>4
  <2>6. k - 1 \notin K
    BY <2>2, <2>5
  <2>7. at[k - 1] # x
    BY <2>5, <2>6
  <2>8. at[k - 1] \in B /\ x = Following(b, at[k - 1])
    BY <1>4, <1>6, <2>3, <2>5
  <2>9. at[k - 1] \in DOMAIN b
    BY <2>7, <2>8, <1>11, FollowingNat
  <2> QED BY <2>8, <2>9
<1> QED BY <1>11, <1>12, <1>13 DEF Decodes

(* What the length decoder says of the instruction at x.                   *)
LEMMA FollowingIs ==
  ASSUME NEW b \in Seq(Bytes), NEW x \in 1..Len(b)
  PROVE  /\ b[x] = Long => Following(b, x) = x + 2
         /\ b[x] # Long => Following(b, x) = x + 1
         /\ Following(b, x) = x + 1 \/ Following(b, x) = x + 2
BY DEF Following

(* No boundary lies inside an instruction that begins on one.              *)
LEMMA NoneInside ==
  ASSUME NEW b \in Seq(Bytes), NEW x \in Boundaries(b), x \in 1..Len(b), b[x] = Long
  PROVE  x + 1 \notin Boundaries(b)
<1> DEFINE B == Boundaries(b)
           K == {y \in 1..Len(b) : y \in B /\ b[y] = Long /\ y + 1 \in B}
<1>1. Decodes(b, B)
  BY BoundariesDecode
<1> SUFFICES ASSUME x + 1 \in B PROVE FALSE
  OBVIOUS
<1>2. x \in B OBVIOUS
<1> HIDE DEF B
<1>3. K \in SUBSET Nat /\ K # {}
  BY <1>2
<1>4. PICK y \in K : \A z \in K : y <= z
  BY <1>3, LeastElement
<1>5. y \in 1..Len(b) /\ y \in B /\ b[y] = Long /\ y + 1 \in B
  BY <1>4
<1>6. PICK z \in B : z \in 1..Len(b) /\ Following(b, z) = y + 1
  <2>1. y + 1 # 1
    BY <1>5
  <2> QED BY <1>1, <1>5, <2>1 DEF Decodes
<1>7. z # y
  BY <1>5, <1>6, FollowingIs
<1>8. z = y - 1 /\ b[z] = Long
  BY <1>5, <1>6, <1>7, FollowingIs
<1>9. z \in K /\ ~(y <= z)
  BY <1>5, <1>6, <1>8
<1> QED BY <1>4, <1>9

(* Code decoded from a boundary of t is decoded as it would be by itself:  *)
(* what span_insns finds for the bytes of a span holds in place.           *)
LEMMA SpanDecodes ==
  ASSUME NEW t \in Seq(Bytes), NEW c \in Seq(Bytes), NEW a \in Boundaries(t),
         a \in Nat, a + Len(c) - 1 <= Len(t),
         \A i \in 1..Len(c) : t[a + i - 1] = c[i],
         NEW y \in Boundaries(c)
  PROVE  a + y - 1 \in Boundaries(t)
<1> DEFINE B == Boundaries(t)
           C == Boundaries(c)
           K == {z \in C : a + z - 1 \notin B}
<1>1. Decodes(t, B) /\ Decodes(c, C)
  BY BoundariesDecode
<1>2. a \in B /\ y \in C OBVIOUS
<1> HIDE DEF B, C
<1> SUFFICES ASSUME a + y - 1 \notin B PROVE FALSE
  BY DEF B
<1>3. C \subseteq Nat \ {0} /\ B \subseteq Nat \ {0}
  BY <1>1 DEF Decodes
<1>4. K \in SUBSET Nat /\ K # {}
  BY <1>2, <1>3
<1>5. PICK z \in K : \A w \in K : z <= w
  BY <1>4, LeastElement
<1>6. z \in C /\ a + z - 1 \notin B /\ z \in Nat
  BY <1>3, <1>5
<1>7. z # 1
  BY <1>2, <1>6
<1>8. PICK w \in C : w \in 1..Len(c) /\ Following(c, w) = z
  BY <1>1, <1>6, <1>7 DEF Decodes
<1>9. w < z
  <2>1. Following(c, w) = w + 1 \/ Following(c, w) = w + 2
    BY <1>8, FollowingIs
  <2> QED BY <1>8, <2>1
<1>10. a + w - 1 \in B
  BY <1>5, <1>8, <1>9
<1> DEFINE u == a + w - 1
<1>11. u \in 1..Len(t) /\ t[u] = c[w] /\ u = a + w - 1
  BY <1>2, <1>3, <1>8
<1> HIDE DEF u
<1>12. Following(t, u) = a + z - 1
  <2>1. /\ c[w] = Long => Following(c, w) = w + 2 /\ Following(t, u) = u + 2
        /\ c[w] # Long => Following(c, w) = w + 1 /\ Following(t, u) = u + 1
    BY <1>8, <1>11, FollowingIs
  <2>2. w \in Nat /\ z \in Nat /\ a \in Nat
    BY <1>6, <1>8
  <2>3. CASE c[w] = Long
    BY <1>8, <1>11, <2>1, <2>2, <2>3
  <2>4. CASE c[w] # Long
    <3>1. z = w + 1 /\ Following(t, u) = u + 1
      BY <1>8, <2>1, <2>4
    <3>2. u + 1 = a + z - 1
      BY <1>11, <2>2, <3>1
    <3> QED BY <3>1, <3>2
  <2> QED BY <2>3, <2>4
<1>13. Following(t, u) \in B
  BY <1>1, <1>10, <1>11 DEF Decodes, u
<1> QED BY <1>6, <1>12, <1>13

(* Two memories with the same bytes from a boundary of both on have the    *)
(* same boundaries there (one direction).                                  *)
LEMMA SameDecodes ==
  ASSUME NEW t \in Seq(Bytes), NEW u \in Seq(Bytes), Len(t) = Len(u),
         NEW a \in Boundaries(t), a \in Boundaries(u), NEW e \in Nat, e <= Len(t),
         \A i \in a..e : t[i] = u[i],
         NEW x \in Boundaries(t), x \in a..(e + 1)
  PROVE  x \in Boundaries(u)
<1> DEFINE B == Boundaries(t)
           C == Boundaries(u)
           K == {z \in B : z \in a..(e + 1) /\ z \notin C}
<1>1. Decodes(t, B) /\ Decodes(u, C)
  BY BoundariesDecode
<1>2. a \in B /\ a \in C /\ x \in B OBVIOUS
<1>a. \A z \in B : z \in 1..Len(t) /\ t[z] = Long => z + 1 \notin B
  BY NoneInside
<1> HIDE DEF B, C
<1> SUFFICES ASSUME x \notin C PROVE FALSE
  BY DEF C
<1>3. C \subseteq Nat \ {0} /\ B \subseteq Nat \ {0}
  BY <1>1 DEF Decodes
<1>4. K \in SUBSET Nat /\ K # {}
  BY <1>2, <1>3
<1>5. PICK z \in K : \A w \in K : z <= w
  BY <1>4, LeastElement
<1>6. z \in B /\ z \in a..(e + 1) /\ z \notin C /\ z \in Nat /\ a \in Nat \ {0}
  BY <1>2, <1>3, <1>5
<1>7. z # a
  BY <1>2, <1>6
<1>7a. z # 1
  BY <1>6, <1>7
<1>8. PICK w \in B : w \in 1..Len(t) /\ Following(t, w) = z
  BY <1>1, <1>6, <1>7a DEF Decodes
<1>9. w < z /\ z <= w + 2
  <2>1. Following(t, w) = w + 1 \/ Following(t, w) = w + 2
    BY <1>8, FollowingIs
  <2> QED BY <1>8, <2>1
<1>10. w >= a
  <2> SUFFICES ASSUME w < a PROVE FALSE
    BY <1>6, <1>8
  <2>1. w = a - 1 /\ z = w + 2
    BY <1>6, <1>7, <1>8, <1>9
  <2>2. t[w] = Long
    BY <1>8, <2>1, FollowingIs
  <2> QED BY <1>a, <1>2, <1>6, <1>8, <2>1, <2>2
<1>11. w \in C
  BY <1>5, <1>6, <1>8, <1>9, <1>10
<1>12. w \in a..e /\ t[w] = u[w] /\ w \in 1..Len(u)
  BY <1>6, <1>8, <1>9, <1>10
<1>13. Following(u, w) = z
  BY <1>8, <1>12, FollowingIs
<1>14. Following(u, w) \in C
  BY <1>1, <1>11, <1>12 DEF Decodes
<1> QED BY <1>6, <1>13, <1>14

(* Writing whole instructions over whole instructions, from a boundary on, *)
(* leaves every boundary outside the span: gates 4 and 5 of patch_gate.    *)
LEMMA SpliceKeeps ==
  ASSUME NEW t \in Seq(Bytes), NEW u \in Seq(Bytes), Len(t) = Len(u),
         NEW c \in Seq(Bytes), NEW d \in Seq(Bytes), Len(c) = Len(d), Len(c) > 0,
         NEW a \in Boundaries(t), a \in Nat, a + Len(c) - 1 <= Len(t),
         \A i \in 1..Len(c) : t[a + i - 1] = c[i] /\ u[a + i - 1] = d[i],
         \A i \in 1..Len(t) : i \notin a..(a + Len(c) - 1) => t[i] = u[i],
         span_insns(c), span_insns(d),
         NEW x \in Boundaries(t), x \notin (a + 1)..(a + Len(c) - 1)
  PROVE  x \in Boundaries(u)
<1> DEFINE B == Boundaries(t)
           C == Boundaries(u)
           m == Len(c)
           K == {z \in B : z \notin (a + 1)..(a + m - 1) /\ z \notin C}
<1>1. Decodes(t, B) /\ Decodes(u, C)
  BY BoundariesDecode
<1>2. a \in B /\ x \in B OBVIOUS
<1>a. \A z \in B : z \in 1..Len(t) /\ t[z] = Long => z + 1 \notin B
  BY NoneInside
<1>b. a + m \in B
  <2>1. m + 1 \in Boundaries(c)
    BY DEF span_insns
  <2>2. a + (m + 1) - 1 \in Boundaries(t)
    BY <2>1, SpanDecodes
  <2> QED BY <2>2
<1>c. a \in C => a + m \in C
  <2>0. SUFFICES ASSUME a \in C PROVE a + m \in C
    OBVIOUS
  <2>1. m + 1 \in Boundaries(d)
    BY DEF span_insns
  <2>3. a + Len(d) - 1 <= Len(u) /\ \A i \in 1..Len(d) : u[a + i - 1] = d[i]
    OBVIOUS
  <2>2. a + (m + 1) - 1 \in Boundaries(u)
    BY <2>0, <2>1, <2>3, SpanDecodes
  <2> QED BY <2>2
<1>d. m \in Nat /\ m > 0 /\ a + m - 1 <= Len(t) OBVIOUS
<1>e. \A i \in 1..Len(t) : i \notin a..(a + m - 1) => t[i] = u[i] OBVIOUS
<1>f. x \notin (a + 1)..(a + m - 1) OBVIOUS
<1> HIDE DEF B, C, m
<1> SUFFICES ASSUME x \notin C PROVE FALSE
  BY DEF C
<1>3. C \subseteq Nat \ {0} /\ B \subseteq Nat \ {0}
  BY <1>1 DEF Decodes
<1>4. K \in SUBSET Nat /\ K # {}
  BY <1>2, <1>3, <1>f
<1>5. PICK z \in K : \A w \in K : z <= w
  BY <1>4, LeastElement
<1>6. z \in B /\ z \notin (a + 1)..(a + m - 1) /\ z \notin C /\ z \in Nat \ {0}
  BY <1>3, <1>5
<1>7. z # 1
  BY <1>1, <1>6 DEF Decodes
<1>8. PICK w \in B : w \in 1..Len(t) /\ Following(t, w) = z
  BY <1>1, <1>6, <1>7 DEF Decodes
<1>9. w < z /\ z <= w + 2
  <2>1. Following(t, w) = w + 1 \/ Following(t, w) = w + 2
    BY <1>8, FollowingIs
  <2> QED BY <1>8, <2>1
<1>10. z # a + m
  <2> SUFFICES ASSUME z = a + m PROVE FALSE
    OBVIOUS
  <2>1. a \in K \/ a \in C
    BY <1>2, <1>d
  <2>2. a \in C
    BY <2>1, <1>5, <1>d
  <2> QED BY <2>2, <1>c, <1>6
<1>11. w \notin a..(a + m - 1)
  <2> SUFFICES ASSUME w \in a..(a + m - 1) PROVE FALSE
    OBVIOUS
  <2>1. z = a + m + 1 /\ w = a + m - 1 /\ z = w + 2
    BY <1>6, <1>8, <1>9, <1>10, <1>d
  <2>2. t[w] = Long
    BY <1>8, <2>1, FollowingIs
  <2>3. w + 1 = a + m
    BY <2>1, <1>d
  <2> QED BY <1>a, <1>b, <1>8, <2>2, <2>3
<1>12. w \in C
  <2>1. w \notin (a + 1)..(a + m - 1) /\ ~(z <= w)
    BY <1>8, <1>9, <1>11, <1>6, <1>d
  <2> QED BY <1>5, <1>8, <2>1
<1>13. t[w] = u[w] /\ w \in 1..Len(u)
  BY <1>e, <1>8, <1>11
<1>14. Following(u, w) = z
  BY <1>8, <1>13, FollowingIs
<1>15. Following(u, w) \in C
  BY <1>1, <1>12, <1>13 DEF Decodes
<1> QED BY <1>6, <1>14, <1>15

(* The two memories of a splice have the same boundaries outside it.       *)
LEMMA SpliceSame ==
  ASSUME NEW t \in Seq(Bytes), NEW u \in Seq(Bytes), Len(t) = Len(u),
         NEW c \in Seq(Bytes), NEW d \in Seq(Bytes), Len(c) = Len(d), Len(c) > 0,
         NEW a \in Boundaries(t), a \in Nat, a + Len(c) - 1 <= Len(t),
         \A i \in 1..Len(c) : t[a + i - 1] = c[i] /\ u[a + i - 1] = d[i],
         \A i \in 1..Len(t) : i \notin a..(a + Len(c) - 1) => t[i] = u[i],
         span_insns(c), span_insns(d)
  PROVE  /\ a \in Boundaries(u)
         /\ \A x : x \notin (a + 1)..(a + Len(c) - 1) => (x \in Boundaries(t) <=> x \in Boundaries(u))
<1>1. \A x \in Boundaries(t) : x \notin (a + 1)..(a + Len(c) - 1) => x \in Boundaries(u)
  BY SpliceKeeps
<1>2. a \in Boundaries(u)
  BY <1>1
<1>3. /\ Len(u) = Len(t) /\ Len(d) = Len(c) /\ Len(d) > 0 /\ a + Len(d) - 1 <= Len(u)
      /\ \A i \in 1..Len(d) : u[a + i - 1] = d[i] /\ t[a + i - 1] = c[i]
      /\ \A i \in 1..Len(u) : i \notin a..(a + Len(d) - 1) => u[i] = t[i]
  OBVIOUS
<1>4. \A x \in Boundaries(u) : x \notin (a + 1)..(a + Len(d) - 1) => x \in Boundaries(t)
  BY <1>2, <1>3, SpliceKeeps
<1> QED BY <1>1, <1>2, <1>4

-----------------------------------------------------------------------------
(* The code and its patches.                                               *)

Memory == [Addrs -> Bytes]
Patches == [addr : Addrs, bytes : Seq(Bytes), live : BOOLEAN, orig : Seq(Bytes)]

(* A patch and what it replaced lie inside .text.                          *)
Placed(p) ==
  /\ p \in Patches
  /\ Len(p.bytes) > 0 /\ Len(p.orig) = Len(p.bytes)
  /\ p.addr + Len(p.bytes) - 1 <= Len(Text)

(* Live patches do not overlap, whatever was reverted between them.        *)
Apart(P) ==
  \A i, j \in DOMAIN P :
    i # j /\ P[i].live /\ P[j].live => Span(P[i]) \cap Span(P[j]) = {}

Tabled(P) == P \in Seq(Patches) /\ (\A i \in DOMAIN P : Placed(P[i])) /\ Apart(P)

(* p is in memory, and over linked code only.                              *)
InPlace(t, p) ==
  \A k \in 1..Len(p.bytes) :
    t[p.addr + k - 1] = p.bytes[k] /\ Text[p.addr + k - 1] = p.orig[k]

Covered(P, a) == \E i \in DOMAIN P : P[i].live /\ a \in Span(P[i])
Inside(P, a)  == \E i \in DOMAIN P : P[i].live /\ a \in Span(P[i]) /\ a # P[i].addr

Overlaid(t, P) ==
  /\ \A i \in DOMAIN P : P[i].live => InPlace(t, P[i])
  /\ \A a \in Addrs : ~Covered(P, a) => t[a] = Text[a]

(* p replaces whole instructions by whole instructions.                    *)
Whole(t, p) == p.addr \in Boundaries(t) /\ span_insns(p.bytes) /\ span_insns(p.orig)

Aligned(t, P) ==
  /\ \A i \in DOMAIN P : P[i].live => Whole(t, P[i])
  /\ \A x \in Nat : ~Inside(P, x) => (x \in Boundaries(t) <=> x \in Boundaries(Text))

Code(t, P) == Overlaid(t, P) /\ Aligned(t, P)

(* .text is a sequence as long as it was linked, whatever is written.      *)
LEMMA MemorySeq ==
  /\ Len(Text) \in Nat /\ Addrs = 1..Len(Text)
  /\ Text \in Memory
  /\ \A t \in Memory : t \in Seq(Bytes) /\ Len(t) = Len(Text) /\ DOMAIN t = Addrs
<1>1. Text \in Seq(Bytes) /\ Len(Text) \in Nat /\ Addrs = 1..Len(Text)
  BY TextAssumption DEF Addrs
<1>2. Text \in Memory
  BY <1>1 DEF Memory
<1>3. ASSUME NEW t \in Memory PROVE t \in Seq(Bytes) /\ Len(t) = Len(Text) /\ DOMAIN t = Addrs
  <2>1. t \in [1..Len(Text) -> Bytes]
    BY <1>1 DEF Memory
  <2>2. t \in Seq(Bytes)
    BY <1>1, <2>1
  <2> QED BY <1>1, <2>1, <2>2
<1> QED BY <1>1, <1>2, <1>3

(* mem_write_direct changes the bytes of the span and no others.           *)
LEMMA WriteIs ==
  ASSUME NEW t \in Memory, NEW a \in Addrs, NEW b \in Seq(Bytes)
  PROVE  /\ Write(t, a, b) \in Memory
         /\ \A x \in Addrs : x \in a..(a + Len(b) - 1) => Write(t, a, b)[x] = b[x - a + 1]
         /\ \A x \in Addrs : x \notin a..(a + Len(b) - 1) => Write(t, a, b)[x] = t[x]
<1>1. DOMAIN t = Addrs /\ Addrs = 1..Len(Text) /\ Len(Text) \in Nat
  BY MemorySeq
<1>2. ASSUME NEW x \in Addrs, x \in a..(a + Len(b) - 1) PROVE b[x - a + 1] \in Bytes
  <2>1. x - a + 1 \in 1..Len(b)
    BY <1>1, <1>2
  <2> QED BY <2>1
<1> QED BY <1>1, <1>2 DEF Write, Memory

(* The bytes of a patch as SubSeq reads them back.                         *)
LEMMA ReadIs ==
  ASSUME NEW t \in Memory, NEW a \in Addrs, NEW n \in Nat \ {0}, a + n - 1 <= Len(Text)
  PROVE  /\ SubSeq(t, a, a + n - 1) \in Seq(Bytes)
         /\ Len(SubSeq(t, a, a + n - 1)) = n
         /\ \A k \in 1..n : SubSeq(t, a, a + n - 1)[k] = t[a + k - 1]
<1>1. t \in Seq(Bytes) /\ Len(t) = Len(Text) /\ Addrs = 1..Len(Text) /\ Len(Text) \in Nat
  BY MemorySeq
<1> DEFINE e == a + n - 1
<1>2. a \in 1..(Len(t) + 1) /\ e \in (a - 1)..Len(t) /\ a..e \subseteq 1..Len(t) /\ a <= e
  BY <1>1
<1>3. e - a + 1 = n
  BY <1>1
<1> HIDE DEF e
<1>4. /\ SubSeq(t, a, e) \in Seq(Bytes)
      /\ Len(SubSeq(t, a, e)) = e - a + 1
      /\ \A k \in 1..(e - a + 1) : SubSeq(t, a, e)[k] = t[a + k - 1]
  BY <1>1, <1>2
<1>5. /\ SubSeq(t, a, e) \in Seq(Bytes)
      /\ Len(SubSeq(t, a, e)) = n
      /\ \A k \in 1..n : SubSeq(t, a, e)[k] = t[a + k - 1]
  BY <1>3, <1>4
<1> QED BY <1>5 DEF e

(* A patch was taken back: its bytes were in memory as it wrote them, and  *)
(* what it had replaced is there now.                                      *)
Undone(t, u, p) ==
  /\ p.live
  /\ \A k \in 1..Len(p.bytes) : t[p.addr + k - 1] = p.bytes[k] /\ u[p.addr + k - 1] = p.orig[k]
  /\ \A a \in Addrs : a \notin Span(p) => u[a] = t[a]

(* fault_patch_revert either takes the patch back or changes nothing.      *)
LEMMA RevertedIs ==
  ASSUME NEW t \in Memory, NEW p, Placed(p)
  PROVE  /\ Reverted(t, p)[1] \in Memory
         /\ \/ Reverted(t, p) = <<t, p>>
            \/ /\ Reverted(t, p)[2] = [p EXCEPT !.live = FALSE]
               /\ Undone(t, Reverted(t, p)[1], p)
<1> DEFINE n == Len(p.bytes)
           s == SubSeq(t, p.addr, p.addr + n - 1)
           u == Write(t, p.addr, p.orig)
<1>0. /\ p.addr \in Addrs /\ p.bytes \in Seq(Bytes) /\ p.orig \in Seq(Bytes)
      /\ n \in Nat \ {0} /\ Len(p.orig) = n /\ p.addr + n - 1 <= Len(Text)
      /\ Addrs = 1..Len(Text) /\ Len(Text) \in Nat
  BY MemorySeq DEF Placed, Patches
<1>1. Len(s) = n /\ \A k \in 1..n : s[k] = t[p.addr + k - 1]
  BY <1>0, ReadIs, SMTT(30)
<1>2. /\ u \in Memory
      /\ \A x \in Addrs : x \in p.addr..(p.addr + n - 1) => u[x] = p.orig[x - p.addr + 1]
      /\ \A x \in Addrs : x \notin p.addr..(p.addr + n - 1) => u[x] = t[x]
  <2> DEFINE m == Len(p.orig)
  <2>1. /\ u \in Memory
        /\ \A x \in Addrs : x \in p.addr..(p.addr + m - 1) => u[x] = p.orig[x - p.addr + 1]
        /\ \A x \in Addrs : x \notin p.addr..(p.addr + m - 1) => u[x] = t[x]
    BY <1>0, WriteIs, ZenonT(60)
  <2>2. m = n
    BY <1>0
  <2> HIDE DEF m, n
  <2> QED BY <2>1, <2>2
<1>3. Reverted(t, p) = IF p.live /\ s = p.bytes THEN <<u, [p EXCEPT !.live = FALSE]>> ELSE <<t, p>>
  BY DEF Reverted
<1> HIDE DEF s, u
<1>4. CASE ~(p.live /\ s = p.bytes)
  BY <1>3, <1>4
<1>5. CASE p.live /\ s = p.bytes
  <2>1. ASSUME NEW k \in 1..n
        PROVE  t[p.addr + k - 1] = p.bytes[k] /\ u[p.addr + k - 1] = p.orig[k]
    <3> DEFINE x == p.addr + k - 1
    <3>1. x \in Addrs /\ x \in p.addr..(p.addr + n - 1) /\ x - p.addr + 1 = k
      BY <1>0
    <3>2. t[x] = p.bytes[k]
      BY <1>1, <1>5
    <3> HIDE DEF x
    <3>3. u[x] = p.orig[k]
      BY <1>2, <3>1
    <3> QED BY <3>2, <3>3 DEF x
  <2>2. ASSUME NEW a \in Addrs, a \notin Span(p) PROVE u[a] = t[a]
    BY <2>2, <1>2 DEF Span
  <2>3. Undone(t, u, p)
    BY <1>5, <2>1, <2>2 DEF Undone
  <2>4. Reverted(t, p)[1] = u /\ Reverted(t, p)[2] = [p EXCEPT !.live = FALSE]
    BY <1>3, <1>5
  <2> QED BY <1>2, <2>3, <2>4
<1> QED BY <1>4, <1>5

(* Taking patch i back, seen from the rest of the table.                   *)
Without(P, i) == [P EXCEPT ![i] = [P[i] EXCEPT !.live = FALSE]]

(* The table without a live patch.                                         *)
LEMMA WithoutIs ==
  ASSUME NEW P, Tabled(P), NEW i \in DOMAIN P
  PROVE  /\ Tabled(Without(P, i)) /\ DOMAIN Without(P, i) = DOMAIN P
         /\ Len(Without(P, i)) = Len(P)
         /\ \A j \in DOMAIN P : j # i => Without(P, i)[j] = P[j]
         /\ ~Without(P, i)[i].live
<1> DEFINE q == [P[i] EXCEPT !.live = FALSE]
           Q == Without(P, i)
<1>1. P \in Seq(Patches) /\ P[i] \in Patches /\ Placed(P[i])
  BY DEF Tabled
<1>2. q \in Patches /\ q.addr = P[i].addr /\ q.bytes = P[i].bytes /\ q.orig = P[i].orig /\ ~q.live
  BY <1>1 DEF Patches
<1>3. Placed(q)
  BY <1>1, <1>2 DEF Placed
<1>4. Q = [P EXCEPT ![i] = q]
  BY DEF Without
<1> HIDE DEF q, Q
<1>5. Q \in Seq(Patches) /\ DOMAIN Q = DOMAIN P /\ Len(Q) = Len(P) /\ Q[i] = q
      /\ \A j \in DOMAIN P : j # i => Q[j] = P[j]
  BY <1>1, <1>2, <1>4
<1>6. \A j \in DOMAIN Q : Placed(Q[j])
  BY <1>3, <1>5 DEF Tabled
<1>7. Apart(Q)
  <2> SUFFICES ASSUME NEW j \in DOMAIN Q, NEW k \in DOMAIN Q, j # k, Q[j].live, Q[k].live
               PROVE  Span(Q[j]) \cap Span(Q[k]) = {}
    BY DEF Apart
  <2>1. j # i /\ k # i
    BY <1>2, <1>5
  <2> QED BY <1>5, <2>1 DEF Tabled, Apart
<1> QED BY <1>2, <1>5, <1>6, <1>7 DEF Tabled, Q

(* The code is still the linked code with the other patches over it.       *)
LEMMA UndoneOverlaid ==
  ASSUME NEW t \in Memory, NEW u \in Memory, NEW P, Tabled(P), NEW i \in DOMAIN P,
         Undone(t, u, P[i]), Overlaid(t, P)
  PROVE  Overlaid(u, Without(P, i))
<1> DEFINE Q == Without(P, i)
           p == P[i]
<1>1. /\ Tabled(Q) /\ DOMAIN Q = DOMAIN P /\ ~Q[i].live
      /\ \A j \in DOMAIN P : j # i => Q[j] = P[j]
  BY WithoutIs
<1>a. Addrs = 1..Len(Text) /\ Len(Text) \in Nat
  BY MemorySeq
<1>b. /\ p.addr \in Addrs /\ Len(p.bytes) \in Nat /\ p.addr + Len(p.bytes) - 1 <= Len(Text)
      /\ Span(p) = p.addr..(p.addr + Len(p.bytes) - 1)
  BY DEF Tabled, Placed, Patches, Span
<1> HIDE DEF Q
<1>2. ASSUME NEW j \in DOMAIN Q, Q[j].live PROVE InPlace(u, Q[j])
  <2>1. j # i /\ j \in DOMAIN P /\ Q[j] = P[j] /\ P[j].live
    BY <1>1, <1>2
  <2>2. Span(P[j]) \cap Span(P[i]) = {}
    BY <2>1 DEF Tabled, Apart, Undone
  <2>3. InPlace(t, P[j])
    BY <2>1 DEF Overlaid
  <2>4. /\ P[j].addr \in Addrs /\ Len(P[j].bytes) \in Nat
        /\ P[j].addr + Len(P[j].bytes) - 1 <= Len(Text)
    BY <2>1 DEF Tabled, Placed, Patches
  <2>5. ASSUME NEW k \in 1..Len(P[j].bytes)
        PROVE  u[P[j].addr + k - 1] = t[P[j].addr + k - 1]
    <3> DEFINE x == P[j].addr + k - 1
    <3>1. x \in Span(P[j]) /\ x \in Addrs
      BY <2>4, <1>a DEF Span
    <3> HIDE DEF x
    <3>2. x \notin Span(P[i])
      BY <2>2, <3>1
    <3>3. u[x] = t[x]
      BY <3>1, <3>2 DEF Undone
    <3> QED BY <3>3 DEF x
  <2> QED BY <2>1, <2>3, <2>5 DEF InPlace
<1>3. ASSUME NEW a \in Addrs, ~Covered(Q, a) PROVE u[a] = Text[a]
  <2>1. CASE a \in Span(p)
    <3> DEFINE k == a - p.addr + 1
    <3>1. k \in 1..Len(p.bytes) /\ p.addr + k - 1 = a
      BY <1>a, <1>b, <2>1
    <3> HIDE DEF k
    <3>2. u[p.addr + k - 1] = p.orig[k]
      BY <3>1 DEF Undone
    <3>3. Text[p.addr + k - 1] = p.orig[k]
      BY <3>1 DEF Overlaid, Undone, InPlace
    <3> QED BY <3>1, <3>2, <3>3
  <2>2. CASE a \notin Span(p)
    <3>1. ~Covered(P, a)
      <4> SUFFICES ASSUME NEW j \in DOMAIN P, P[j].live, a \in Span(P[j]) PROVE FALSE
        BY DEF Covered
      <4>1. j # i
        BY <2>2
      <4> QED BY <1>1, <1>3, <4>1 DEF Covered
    <3>2. t[a] = Text[a]
      BY <3>1 DEF Overlaid
    <3>3. u[a] = t[a]
      BY <2>2 DEF Undone
    <3> QED BY <3>2, <3>3
  <2> QED BY <2>1, <2>2
<1> QED BY <1>2, <1>3 DEF Overlaid, Q

(* The code is still cut into instructions as the linker cut it, except    *)
(* inside the patches that are left.                                       *)
LEMMA UndoneAligned ==
  ASSUME NEW t \in Memory, NEW u \in Memory, NEW P, Tabled(P), NEW i \in DOMAIN P,
         Undone(t, u, P[i]), Code(t, P)
  PROVE  Aligned(u, Without(P, i))
<1> DEFINE Q == Without(P, i)
           p == P[i]
           a == p.addr
           m == Len(p.bytes)
<1>1. /\ Tabled(Q) /\ DOMAIN Q = DOMAIN P /\ ~Q[i].live
      /\ \A j \in DOMAIN P : j # i => Q[j] = P[j]
  BY WithoutIs
<1>2. /\ Addrs = 1..Len(Text) /\ Len(Text) \in Nat
      /\ t \in Seq(Bytes) /\ Len(t) = Len(Text) /\ u \in Seq(Bytes) /\ Len(u) = Len(Text)
      /\ Text \in Seq(Bytes)
  BY MemorySeq, TextAssumption
<1>3. /\ a \in 1..Len(Text) /\ p.bytes \in Seq(Bytes) /\ p.orig \in Seq(Bytes)
      /\ m \in Nat \ {0} /\ Len(p.orig) = m /\ a + m - 1 <= Len(Text)
      /\ Span(p) = a..(a + m - 1)
  BY <1>2 DEF Tabled, Placed, Patches, Span
<1>4. p.live /\ Whole(t, p) /\ InPlace(t, p)
  BY DEF Undone, Code, Aligned, Overlaid
<1>5. /\ \A k \in 1..m : t[a + k - 1] = p.bytes[k] /\ u[a + k - 1] = p.orig[k]
      /\ \A k \in 1..m : Text[a + k - 1] = p.orig[k]
      /\ \A x \in 1..Len(t) : x \notin a..(a + m - 1) => t[x] = u[x]
  BY <1>2, <1>3, <1>4 DEF Undone, InPlace
<1>6. a \in Boundaries(t) /\ span_insns(p.bytes) /\ span_insns(p.orig)
  BY <1>4 DEF Whole
<1>7. /\ a \in Boundaries(u)
      /\ \A x : x \notin (a + 1)..(a + m - 1) => (x \in Boundaries(t) <=> x \in Boundaries(u))
  <2> DEFINE c == p.bytes
             d == p.orig
  <2>1. /\ c \in Seq(Bytes) /\ d \in Seq(Bytes) /\ Len(c) = Len(d) /\ Len(c) > 0 /\ Len(c) = m
        /\ Len(t) = Len(u) /\ a \in Nat /\ a + Len(c) - 1 <= Len(t)
        /\ \A k \in 1..Len(c) : t[a + k - 1] = c[k] /\ u[a + k - 1] = d[k]
        /\ \A x \in 1..Len(t) : x \notin a..(a + Len(c) - 1) => t[x] = u[x]
        /\ span_insns(c) /\ span_insns(d)
    BY <1>2, <1>3, <1>5, <1>6
  <2> HIDE DEF c, d, a, m
  <2>2. /\ a \in Boundaries(u)
        /\ \A x : x \notin (a + 1)..(a + Len(c) - 1) => (x \in Boundaries(t) <=> x \in Boundaries(u))
    BY <1>2, <1>6, <2>1, SpliceSame
  <2> QED BY <2>1, <2>2
<1>a. ASSUME NEW j \in DOMAIN P, P[j].live, j # i PROVE Span(P[j]) \cap Span(p) = {}
  BY <1>4, <1>a DEF Tabled, Apart
<1> HIDE DEF Q
<1>8. ASSUME NEW j \in DOMAIN Q, Q[j].live PROVE Whole(u, Q[j])
  <2>1. j \in DOMAIN P /\ j # i /\ Q[j] = P[j] /\ P[j].live
    BY <1>1, <1>8
  <2>2. Whole(t, P[j])
    BY <2>1 DEF Code, Aligned
  <2>3. P[j].addr \in Span(P[j])
    BY <1>2, <2>1, SMTT(30) DEF Tabled, Placed, Patches, Span
  <2>4. P[j].addr \notin a..(a + m - 1)
    BY <1>a, <1>3, <2>1, <2>3
  <2>5. P[j].addr \notin (a + 1)..(a + m - 1)
    BY <1>3, <2>4
  <2>6. P[j].addr \in Boundaries(u)
    BY <1>7, <2>2, <2>5 DEF Whole
  <2> QED BY <2>1, <2>2, <2>6 DEF Whole
<1>9. ASSUME NEW x \in Nat, ~Inside(Q, x)
      PROVE  x \in Boundaries(u) <=> x \in Boundaries(Text)
  <2>1. CASE x \notin (a + 1)..(a + m - 1)
    <3>1. ~Inside(P, x)
      <4> SUFFICES ASSUME NEW j \in DOMAIN P, P[j].live, x \in Span(P[j]), x # P[j].addr
                   PROVE  FALSE
        BY DEF Inside
      <4>1. j # i
        BY <1>3, <2>1
      <4> QED BY <1>1, <1>9, <4>1 DEF Inside
    <3>2. x \in Boundaries(t) <=> x \in Boundaries(Text)
      BY <3>1 DEF Code, Aligned
    <3> QED BY <1>7, <2>1, <3>2
  <2>2. CASE x \in (a + 1)..(a + m - 1)
    <3>1. ~Inside(P, a)
      <4> SUFFICES ASSUME NEW j \in DOMAIN P, P[j].live, a \in Span(P[j]), a # P[j].addr
                   PROVE  FALSE
        BY DEF Inside
      <4>1. j # i
        OBVIOUS
      <4>2. a \in Span(p)
        BY <1>3
      <4> QED BY <1>a, <4>1, <4>2
    <3>2. a \in Boundaries(Text)
      BY <1>3, <1>6, <3>1 DEF Code, Aligned
    <3>3. \A y \in a..(a + m - 1) : u[y] = Text[y]
      <4> SUFFICES ASSUME NEW y \in a..(a + m - 1) PROVE u[y] = Text[y]
        OBVIOUS
      <4> DEFINE k == y - a + 1
      <4>1. k \in 1..m /\ a + k - 1 = y
        BY <1>3
      <4> HIDE DEF k
      <4>2. u[a + k - 1] = p.orig[k] /\ Text[a + k - 1] = p.orig[k]
        BY <1>5, <4>1
      <4> QED BY <4>1, <4>2
    <3> DEFINE e == a + m - 1
    <3>4. e \in Nat /\ e <= Len(u) /\ e <= Len(Text) /\ Len(u) = Len(Text) /\ x \in a..(e + 1)
      BY <1>2, <1>3, <2>2
    <3>5. (\A y \in a..e : u[y] = Text[y]) /\ (\A y \in a..e : Text[y] = u[y])
      BY <3>3
    <3> HIDE DEF e, a, m
    <3>6. x \in Boundaries(u) => x \in Boundaries(Text)
      BY <1>2, <1>7, <3>2, <3>4, <3>5, SameDecodes
    <3>7. x \in Boundaries(Text) => x \in Boundaries(u)
      BY <1>2, <1>7, <3>2, <3>4, <3>5, SameDecodes
    <3> QED BY <3>6, <3>7
  <2> QED BY <2>1, <2>2
<1> QED BY <1>8, <1>9 DEF Aligned, Q

(* What one call of fault_patch_revert makes of memory and table.          *)
Step(t, P, u, Q) ==
  /\ u \in Memory /\ Tabled(Q) /\ Len(Q) = Len(P)
  /\ Code(t, P) => Code(u, Q)

(* fault_patch_revert keeps the code what was linked plus the live patches. *)
LEMMA RevertKeeps ==
  ASSUME NEW t \in Memory, NEW P, Tabled(P), NEW i \in DOMAIN P
  PROVE  Step(t, P, Reverted(t, P[i])[1], [P EXCEPT ![i] = Reverted(t, P[i])[2]])
<1> DEFINE r == Reverted(t, P[i])
<1>0. Placed(P[i]) /\ P \in Seq(Patches)
  BY DEF Tabled
<1>1. /\ r[1] \in Memory
      /\ r = <<t, P[i]>> \/ (r[2] = [P[i] EXCEPT !.live = FALSE] /\ Undone(t, r[1], P[i]))
  BY <1>0, RevertedIs
<1> HIDE DEF r
<1>2. CASE r = <<t, P[i]>>
  <2>1. r[1] = t /\ r[2] = P[i]
    BY <1>2
  <2>2. [P EXCEPT ![i] = r[2]] = P
    BY <1>0, <2>1
  <2>3. Step(t, P, t, P)
    BY DEF Step
  <2>4. Step(t, P, r[1], [P EXCEPT ![i] = r[2]])
    BY <2>1, <2>2, <2>3
  <2> QED BY <2>4 DEF r
<1>3. CASE r[2] = [P[i] EXCEPT !.live = FALSE] /\ Undone(t, r[1], P[i])
  <2>1. [P EXCEPT ![i] = r[2]] = Without(P, i)
    BY <1>3 DEF Without
  <2>2. Tabled(Without(P, i)) /\ Len(Without(P, i)) = Len(P)
    BY WithoutIs
  <2>3. Code(t, P) => Overlaid(r[1], Without(P, i)) /\ Aligned(r[1], Without(P, i))
    BY <1>1, <1>3, UndoneOverlaid, UndoneAligned DEF Code
  <2>4. Step(t, P, r[1], Without(P, i))
    BY <1>1, <2>2, <2>3 DEF Step, Code
  <2> QED BY <2>1, <2>4 DEF r
<1> QED BY <1>1, <1>2, <1>3

-----------------------------------------------------------------------------
(* fault_patch_apply.                                                      *)

(* A request that has passed the gates, over what is there.                *)
New(t, req) ==
  [addr |-> req.addr, bytes |-> req.bytes, live |-> TRUE,
   orig |-> SubSeq(t, req.addr, req.addr + Len(req.bytes) - 1)]

(* What gates 1 to 6 of patch_gate leave of a request.                     *)
Passed(t, P, req) ==
  /\ req.addr \in Addrs /\ req.bytes \in Seq(Bytes) /\ Len(req.bytes) > 0
  /\ req.addr + Len(req.bytes) - 1 <= Len(Text)
  /\ req.addr \in Boundaries(t)
  /\ span_insns(req.bytes) /\ span_insns(New(t, req).orig)
  /\ \A i \in DOMAIN P : P[i].live => Span(P[i]) \cap Span(req) = {}

(* The table with the new patch.                                           *)
LEMMA NewTabled ==
  ASSUME NEW t \in Memory, NEW P, Tabled(P), NEW req, Passed(t, P, req)
  PROVE  /\ Tabled(Append(P, New(t, req)))
         /\ Placed(New(t, req)) /\ New(t, req).live
         /\ New(t, req).addr = req.addr /\ New(t, req).bytes = req.bytes
         /\ Span(New(t, req)) = Span(req)
         /\ \A k \in 1..Len(req.bytes) : New(t, req).orig[k] = t[req.addr + k - 1]
         /\ DOMAIN Append(P, New(t, req)) = 1..(Len(P) + 1) /\ DOMAIN P = 1..Len(P)
         /\ Len(Append(P, New(t, req))) = Len(P) + 1 /\ Len(P) \in Nat
         /\ Append(P, New(t, req))[Len(P) + 1] = New(t, req)
         /\ \A j \in DOMAIN P : Append(P, New(t, req))[j] = P[j]
<1> DEFINE p == New(t, req)
           Q == Append(P, p)
           n == Len(req.bytes)
<1>1. /\ req.addr \in Addrs /\ req.bytes \in Seq(Bytes) /\ n \in Nat \ {0}
      /\ req.addr + n - 1 <= Len(Text)
  BY DEF Passed
<1>2. p.addr = req.addr /\ p.bytes = req.bytes /\ p.live = TRUE
      /\ p.orig = SubSeq(t, req.addr, req.addr + n - 1)
  BY DEF New
<1>3. p.orig \in Seq(Bytes) /\ Len(p.orig) = n /\ \A k \in 1..n : p.orig[k] = t[req.addr + k - 1]
  <2> DEFINE a == req.addr
             s == SubSeq(t, a, a + n - 1)
  <2>1. a \in Addrs /\ n \in Nat \ {0} /\ a + n - 1 <= Len(Text)
    BY <1>1
  <2>2. p.orig = s
    BY <1>2
  <2> HIDE DEF a, n, p
  <2>3. s \in Seq(Bytes) /\ Len(s) = n /\ \A k \in 1..n : s[k] = t[a + k - 1]
    BY <2>1, ReadIs
  <2> HIDE DEF s
  <2>4. p.orig \in Seq(Bytes) /\ Len(p.orig) = n /\ \A k \in 1..n : p.orig[k] = t[a + k - 1]
    BY <2>2, <2>3
  <2> QED BY <2>4 DEF a
<1>4. p \in Patches
  BY <1>1, <1>2, <1>3 DEF New, Patches
<1>5. Placed(p)
  BY <1>1, <1>2, <1>3, <1>4 DEF Placed
<1>6. Span(p) = Span(req)
  BY <1>2 DEF Span
<1> HIDE DEF p
<1>7. P \in Seq(Patches)
  BY DEF Tabled
<1>8. /\ Q \in Seq(Patches) /\ DOMAIN Q = 1..(Len(P) + 1) /\ DOMAIN P = 1..Len(P) /\ Len(P) \in Nat
      /\ Q[Len(P) + 1] = p /\ (\A j \in DOMAIN P : Q[j] = P[j]) /\ Len(Q) = Len(P) + 1
  BY <1>4, <1>7
<1> HIDE DEF Q
<1>9. ASSUME NEW j \in DOMAIN Q PROVE j = Len(P) + 1 \/ j \in DOMAIN P
  BY <1>8
<1>10. \A j \in DOMAIN Q : Placed(Q[j])
  BY <1>5, <1>8, <1>9 DEF Tabled
<1>11. Apart(Q)
  <2> SUFFICES ASSUME NEW j \in DOMAIN Q, NEW k \in DOMAIN Q, j # k, Q[j].live, Q[k].live
               PROVE  Span(Q[j]) \cap Span(Q[k]) = {}
    BY DEF Apart
  <2>1. CASE j \in DOMAIN P /\ k \in DOMAIN P
    BY <2>1, <1>8 DEF Tabled, Apart
  <2>2. CASE j = Len(P) + 1
    BY <2>2, <1>6, <1>8, <1>9 DEF Passed
  <2>3. CASE k = Len(P) + 1
    BY <2>3, <1>6, <1>8, <1>9 DEF Passed
  <2> QED BY <2>1, <2>2, <2>3, <1>9
<1>12. Tabled(Q)
  BY <1>8, <1>10, <1>11 DEF Tabled
<1>13. /\ Tabled(Q) /\ Placed(p) /\ p.live
       /\ p.addr = req.addr /\ p.bytes = req.bytes /\ Span(p) = Span(req)
       /\ \A k \in 1..n : p.orig[k] = t[req.addr + k - 1]
       /\ DOMAIN Q = 1..(Len(P) + 1) /\ DOMAIN P = 1..Len(P)
       /\ Len(Q) = Len(P) + 1 /\ Len(P) \in Nat
       /\ Q[Len(P) + 1] = p /\ \A j \in DOMAIN P : Q[j] = P[j]
  BY <1>2, <1>3, <1>5, <1>6, <1>8, <1>12
<1> QED BY <1>13 DEF p, Q

(* The memory after the write, against the one before.                     *)
LEMMA NewWritten ==
  ASSUME NEW t \in Memory, NEW P, Tabled(P), NEW req, Passed(t, P, req)
  PROVE  /\ Write(t, req.addr, req.bytes) \in Memory
         /\ \A k \in 1..Len(req.bytes) :
              Write(t, req.addr, req.bytes)[req.addr + k - 1] = req.bytes[k]
         /\ \A x \in Addrs : x \notin Span(req) => Write(t, req.addr, req.bytes)[x] = t[x]
<1> DEFINE n == Len(req.bytes)
           u == Write(t, req.addr, req.bytes)
<1>1. /\ req.addr \in Addrs /\ req.bytes \in Seq(Bytes) /\ n \in Nat \ {0}
      /\ req.addr + n - 1 <= Len(Text) /\ Addrs = 1..Len(Text) /\ Len(Text) \in Nat
  BY MemorySeq DEF Passed
<1>2. /\ u \in Memory
      /\ \A x \in Addrs : x \in req.addr..(req.addr + n - 1) => u[x] = req.bytes[x - req.addr + 1]
      /\ \A x \in Addrs : x \notin req.addr..(req.addr + n - 1) => u[x] = t[x]
  BY <1>1, WriteIs
<1> HIDE DEF u
<1>3. ASSUME NEW k \in 1..n PROVE u[req.addr + k - 1] = req.bytes[k]
  <2> DEFINE x == req.addr + k - 1
  <2>1. x \in Addrs /\ x \in req.addr..(req.addr + n - 1) /\ x - req.addr + 1 = k
    BY <1>1
  <2> HIDE DEF x
  <2>2. u[x] = req.bytes[k]
    BY <1>2, <2>1
  <2> QED BY <2>2 DEF x
<1>4. \A x \in Addrs : x \notin Span(req) => u[x] = t[x]
  BY <1>2 DEF Span
<1>5. /\ u \in Memory
      /\ \A k \in 1..n : u[req.addr + k - 1] = req.bytes[k]
      /\ \A x \in Addrs : x \notin Span(req) => u[x] = t[x]
  BY <1>2, <1>3, <1>4
<1> QED BY <1>5 DEF u

(* After a patch, the code is what was linked with the live patches over   *)
(* it, the new one included.                                               *)
LEMMA NewOverlaid ==
  ASSUME NEW t \in Memory, NEW P, Tabled(P), NEW req, Passed(t, P, req), Overlaid(t, P)
  PROVE  Overlaid(Write(t, req.addr, req.bytes), Append(P, New(t, req)))
<1> DEFINE u == Write(t, req.addr, req.bytes)
           p == New(t, req)
           Q == Append(P, p)
<1>1. /\ Tabled(Q) /\ Placed(p) /\ p.live /\ p.addr = req.addr /\ p.bytes = req.bytes
      /\ Span(p) = Span(req)
      /\ \A k \in 1..Len(req.bytes) : p.orig[k] = t[req.addr + k - 1]
      /\ DOMAIN Q = 1..(Len(P) + 1) /\ DOMAIN P = 1..Len(P) /\ Len(P) \in Nat
      /\ Q[Len(P) + 1] = p /\ \A j \in DOMAIN P : Q[j] = P[j]
  BY NewTabled
<1>2. /\ u \in Memory
      /\ \A k \in 1..Len(req.bytes) : u[req.addr + k - 1] = req.bytes[k]
      /\ \A x \in Addrs : x \notin Span(req) => u[x] = t[x]
  BY NewWritten
<1>3. /\ req.addr \in Addrs /\ req.bytes \in Seq(Bytes) /\ Len(req.bytes) > 0
      /\ req.addr + Len(req.bytes) - 1 <= Len(Text)
      /\ Addrs = 1..Len(Text) /\ Len(Text) \in Nat
      /\ \A i \in DOMAIN P : P[i].live => Span(P[i]) \cap Span(req) = {}
  BY MemorySeq DEF Passed
<1> HIDE DEF u, p, Q
<1>4. ASSUME NEW j \in DOMAIN Q, Q[j].live PROVE InPlace(u, Q[j])
  <2>1. CASE j \in DOMAIN P
    <3> DEFINE q == P[j]
    <3>1. Q[j] = q /\ q.live /\ InPlace(t, q) /\ Span(q) \cap Span(req) = {}
      BY <1>1, <1>3, <1>4, <2>1 DEF Overlaid
    <3>2. q.addr \in Addrs /\ Len(q.bytes) \in Nat /\ q.addr + Len(q.bytes) - 1 <= Len(Text)
      BY <2>1 DEF Tabled, Placed, Patches
    <3> HIDE DEF q
    <3>3. ASSUME NEW k \in 1..Len(q.bytes) PROVE u[q.addr + k - 1] = t[q.addr + k - 1]
      <4> DEFINE x == q.addr + k - 1
      <4>1. x \in Span(q) /\ x \in Addrs
        BY <1>3, <3>2, SMTT(30) DEF Span
      <4> HIDE DEF x
      <4>2. u[x] = t[x]
        BY <1>2, <3>1, <4>1
      <4> QED BY <4>2 DEF x
    <3> QED BY <3>1, <3>3 DEF InPlace
  <2>2. CASE j = Len(P) + 1
    <3>1. ASSUME NEW k \in 1..Len(req.bytes)
          PROVE  Text[req.addr + k - 1] = t[req.addr + k - 1]
      <4> DEFINE x == req.addr + k - 1
      <4>1. x \in Span(req) /\ x \in Addrs
        BY <1>3 DEF Span
      <4> HIDE DEF x
      <4>2. ~Covered(P, x)
        BY <1>3, <4>1 DEF Covered
      <4>3. t[x] = Text[x]
        BY <4>1, <4>2 DEF Overlaid
      <4> QED BY <4>3 DEF x
    <3>2. InPlace(u, p)
      BY <1>1, <1>2, <3>1 DEF InPlace
    <3> QED BY <1>1, <2>2, <3>2
  <2> QED BY <1>1, <2>1, <2>2
<1>5. ASSUME NEW a \in Addrs, ~Covered(Q, a) PROVE u[a] = Text[a]
  <2>1. a \notin Span(req)
    <3>1. Len(P) + 1 \in DOMAIN Q
      BY <1>1
    <3> QED BY <1>1, <1>5, <3>1 DEF Covered
  <2>2. ~Covered(P, a)
    <3>1. \A j \in DOMAIN P : j \in DOMAIN Q
      BY <1>1
    <3> QED BY <1>1, <1>5, <3>1 DEF Covered
  <2> QED BY <1>2, <2>1, <2>2 DEF Overlaid
<1>6. Overlaid(u, Q)
  BY <1>4, <1>5 DEF Overlaid
<1> QED BY <1>6 DEF u, p, Q

(* The new patch moves no instruction boundary outside itself.             *)
LEMMA NewAligned ==
  ASSUME NEW t \in Memory, NEW P, Tabled(P), NEW req, Passed(t, P, req), Aligned(t, P)
  PROVE  Aligned(Write(t, req.addr, req.bytes), Append(P, New(t, req)))
<1> DEFINE u == Write(t, req.addr, req.bytes)
           p == New(t, req)
           Q == Append(P, p)
           a == req.addr
           d == req.bytes
           m == Len(d)
<1>1. /\ Tabled(Q) /\ Placed(p) /\ p.live /\ p.addr = a /\ p.bytes = d
      /\ Span(p) = Span(req)
      /\ \A k \in 1..m : p.orig[k] = t[a + k - 1]
      /\ DOMAIN Q = 1..(Len(P) + 1) /\ DOMAIN P = 1..Len(P) /\ Len(P) \in Nat
      /\ Q[Len(P) + 1] = p /\ \A j \in DOMAIN P : Q[j] = P[j]
  BY NewTabled
<1>2. /\ u \in Memory
      /\ \A k \in 1..m : u[a + k - 1] = d[k]
      /\ \A x \in Addrs : x \notin Span(req) => u[x] = t[x]
  BY NewWritten
<1>3. /\ a \in Addrs /\ d \in Seq(Bytes) /\ m > 0 /\ m \in Nat
      /\ a + m - 1 <= Len(Text)
      /\ Addrs = 1..Len(Text) /\ Len(Text) \in Nat
      /\ \A i \in DOMAIN P : P[i].live => Span(P[i]) \cap Span(req) = {}
      /\ Span(req) = a..(a + m - 1)
      /\ a \in Boundaries(t) /\ span_insns(d) /\ span_insns(p.orig)
  BY MemorySeq DEF Passed, Span
<1> HIDE DEF u, p, Q, a, d
<1>4. /\ a \in Boundaries(u)
      /\ \A x : x \notin (a + 1)..(a + m - 1) => (x \in Boundaries(t) <=> x \in Boundaries(u))
  <2> DEFINE c == p.orig
  <2>1. c \in Seq(Bytes) /\ Len(c) = m
    BY <1>1 DEF Placed, Patches
  <2>2. t \in Seq(Bytes) /\ u \in Seq(Bytes) /\ Len(t) = Len(Text) /\ Len(u) = Len(Text)
    BY <1>2, MemorySeq
  <2>3. /\ c \in Seq(Bytes) /\ d \in Seq(Bytes) /\ Len(c) = Len(d) /\ Len(c) > 0 /\ Len(c) = m
        /\ Len(t) = Len(u) /\ a \in Nat /\ a + Len(c) - 1 <= Len(t)
        /\ \A k \in 1..Len(c) : t[a + k - 1] = c[k] /\ u[a + k - 1] = d[k]
        /\ \A x \in 1..Len(t) : x \notin a..(a + Len(c) - 1) => t[x] = u[x]
        /\ span_insns(c) /\ span_insns(d)
    BY <1>1, <1>2, <1>3, <2>1, <2>2
  <2> HIDE DEF c, m
  <2>4. /\ a \in Boundaries(u)
        /\ \A x : x \notin (a + 1)..(a + Len(c) - 1) => (x \in Boundaries(t) <=> x \in Boundaries(u))
    BY <1>3, <2>2, <2>3, SpliceSame
  <2> QED BY <2>3, <2>4
<1> HIDE DEF m
<1>5. ASSUME NEW j \in DOMAIN Q, Q[j].live PROVE Whole(u, Q[j])
  <2>1. CASE j \in DOMAIN P
    <3> DEFINE q == P[j]
    <3>1. Q[j] = q /\ q.live /\ Whole(t, q) /\ Span(q) \cap Span(req) = {}
      BY <1>1, <1>3, <1>5, <2>1 DEF Aligned
    <3>2. q.addr \in Span(q)
      BY <1>3, <2>1, SMTT(30) DEF Tabled, Placed, Patches, Span
    <3> HIDE DEF q
    <3>3. q.addr \notin a..(a + m - 1)
      BY <1>3, <3>1, <3>2
    <3>4. q.addr \notin (a + 1)..(a + m - 1)
      BY <1>3, <3>3
    <3> QED BY <1>4, <3>1, <3>4 DEF Whole
  <2>2. CASE j = Len(P) + 1
    BY <1>1, <1>3, <1>4, <2>2 DEF Whole
  <2> QED BY <1>1, <2>1, <2>2
<1>6. ASSUME NEW x \in Nat, ~Inside(Q, x)
      PROVE  x \in Boundaries(u) <=> x \in Boundaries(Text)
  <2>1. x \notin (a + 1)..(a + m - 1)
    <3> SUFFICES ASSUME x \in (a + 1)..(a + m - 1) PROVE FALSE
      OBVIOUS
    <3>1. x \in Span(p) /\ x # p.addr
      BY <1>1, <1>3
    <3>2. Len(P) + 1 \in DOMAIN Q
      BY <1>1
    <3> QED BY <1>1, <1>6, <3>1, <3>2 DEF Inside
  <2>2. ~Inside(P, x)
    <3>1. \A j \in DOMAIN P : j \in DOMAIN Q
      BY <1>1
    <3> QED BY <1>1, <1>6, <3>1 DEF Inside
  <2>3. x \in Boundaries(t) <=> x \in Boundaries(Text)
    BY <2>2 DEF Aligned
  <2> QED BY <1>4, <2>1, <2>3
<1>7. Aligned(u, Q)
  BY <1>5, <1>6 DEF Aligned
<1> QED BY <1>7 DEF u, p, Q, a, d

(* A patch that passes the gates keeps the code what was linked plus the   *)
(* live patches.                                                           *)
LEMMA ApplyKeeps ==
  ASSUME NEW t \in Memory, NEW P, Tabled(P), NEW req, Passed(t, P, req)
  PROVE  /\ Write(t, req.addr, req.bytes) \in Memory
         /\ Tabled(Append(P, New(t, req)))
         /\ Code(t, P) => Code(Write(t, req.addr, req.bytes), Append(P, New(t, req)))
<1>1. Write(t, req.addr, req.bytes) \in Memory
  BY NewWritten
<1>2. Tabled(Append(P, New(t, req)))
  BY NewTabled
<1>3. Code(t, P) => Code(Write(t, req.addr, req.bytes), Append(P, New(t, req)))
  BY NewOverlaid, NewAligned DEF Code
<1> QED BY <1>1, <1>2, <1>3

-----------------------------------------------------------------------------
(* fault_patch_revert_all.                                                 *)

(* The memory after the last k slots have been looked at.                  *)
Undo(t, P) ==
  CHOOSE g : g = [k \in 0..Len(P) |->
                    IF k = 0 THEN t ELSE Reverted(g[k - 1], P[Len(P) + 1 - k])[1]]

IsUndo(f, t, P) ==
  /\ f \in [0..Len(P) -> Memory]
  /\ f[0] = t
  /\ \A k \in 1..Len(P) : f[k] = Reverted(f[k - 1], P[Len(P) + 1 - k])[1]

(* The loop over the table, newest first, has a run, and it is the one the *)
(* action names.                                                           *)
LEMMA UndoExists ==
  ASSUME NEW t \in Memory, NEW P, Tabled(P)
  PROVE  IsUndo(Undo(t, P), t, P)
<1> DEFINE f == Undo(t, P)
           N == Len(P)
           S == (0..N) \X Memory
           R(k, x) == IF k < N THEN <<k + 1, Reverted(x, P[N - k])[1]>> ELSE <<k, x>>
           F == [s \in S |-> R(s[1], s[2])]
           D(g) == [k \in 0..N |-> IF k = 0 THEN t ELSE Reverted(g[k - 1], P[N + 1 - k])[1]]
<1>1. N \in Nat /\ DOMAIN P = 1..N /\ \A i \in 1..N : Placed(P[i])
  BY DEF Tabled
<1>2. ASSUME NEW k \in 0..N, NEW x \in Memory PROVE R(k, x) \in S
  <2>1. CASE k < N
    <3>1. N - k \in 1..N /\ k + 1 \in 0..N
      BY <1>1, <2>1
    <3>2. Reverted(x, P[N - k])[1] \in Memory
      BY <1>1, <3>1, RevertedIs
    <3> QED BY <2>1, <3>1, <3>2
  <2>2. CASE ~(k < N)
    BY <2>2
  <2> QED BY <2>1, <2>2
<1>3. F \in [S -> S]
  BY <1>2
<1>4. <<0, t>> \in S
  BY <1>1
<1>5. \A k \in 0..N, x \in Memory : F[<<k, x>>] = R(k, x)
  OBVIOUS
<1> HIDE DEF F
<1>6. PICK r : IsRun(r, S, <<0, t>>, F, N)
  BY <1>1, <1>3, <1>4, RunExists
<1>7. r \in [0..N -> S] /\ r[0] = <<0, t>> /\ \A i \in 1..N : r[i] = F[r[i - 1]]
  BY <1>6 DEF IsRun
<1> DEFINE g == [k \in 0..N |-> r[k][2]]
           T == {k \in 0..N : r[k][1] = k}
<1>8. \A k \in 0..N : k \in T
  <2>1. 0 \in T
    BY <1>1, <1>7
  <2>2. ASSUME NEW k \in 0..(N - 1), k \in T PROVE k + 1 \in T
    <3>1. k + 1 \in 1..N /\ k + 1 \in 0..N /\ k + 1 - 1 = k /\ k < N /\ k \in 0..N
      BY <1>1
    <3>2. r[k] = <<k, r[k][2]>> /\ r[k][2] \in Memory
      BY <1>7, <2>2, <3>1
    <3>a. F[<<k, r[k][2]>>] = R(k, r[k][2])
      <4> HIDE DEF R
      <4> QED BY <1>5, <3>1, <3>2, Zenon
    <3>3. r[k + 1] = F[r[k]]
      <4> DEFINE j == k + 1
      <4>1. j \in 1..N /\ j - 1 = k
        BY <3>1
      <4> HIDE DEF j
      <4>2. r[j] = F[r[j - 1]]
        BY <1>7, <4>1, Zenon
      <4> QED BY <4>1, <4>2 DEF j
    <3>4. r[k + 1] = R(k, r[k][2])
      BY <3>2, <3>3, <3>a, Zenon
    <3> QED BY <3>1, <3>4
  <2> HIDE DEF T
  <2> QED BY <1>1, <2>1, <2>2, BoundedInduction
<1>9. /\ g \in [0..N -> Memory] /\ g[0] = t
      /\ \A k \in 1..N : g[k] = Reverted(g[k - 1], P[N + 1 - k])[1]
  <2>1. g \in [0..N -> Memory]
    BY <1>7
  <2>2. g[0] = t
    BY <1>1, <1>7
  <2>3. ASSUME NEW k \in 1..N PROVE g[k] = Reverted(g[k - 1], P[N + 1 - k])[1]
    <3>1. k - 1 \in 0..N /\ k \in 0..N /\ k - 1 < N /\ N - (k - 1) = N + 1 - k
      BY <1>1
    <3>2. r[k - 1] = <<k - 1, r[k - 1][2]>> /\ r[k - 1][2] \in Memory
      BY <1>7, <1>8, <3>1
    <3>a. F[<<k - 1, r[k - 1][2]>>] = R(k - 1, r[k - 1][2])
      <4> HIDE DEF R
      <4> QED BY <1>5, <3>1, <3>2, Zenon
    <3>b. r[k] = F[r[k - 1]]
      BY <1>7, Zenon
    <3>3. r[k] = R(k - 1, r[k - 1][2])
      BY <3>2, <3>a, <3>b, Zenon
    <3>4. r[k][2] = Reverted(r[k - 1][2], P[N - (k - 1)])[1]
      BY <3>1, <3>3
    <3> QED BY <3>1, <3>4
  <2> QED BY <2>1, <2>2, <2>3
<1> HIDE DEF g
<1>10. g = D(g)
  <2>1. ASSUME NEW k \in 0..N PROVE g[k] = D(g)[k]
    <3>1. D(g)[k] = IF k = 0 THEN t ELSE Reverted(g[k - 1], P[N + 1 - k])[1]
      OBVIOUS
    <3>2. CASE k = 0
      BY <1>9, <3>1, <3>2
    <3>3. CASE k # 0
      <4>1. k \in 1..N
        BY <1>1, <3>3
      <4> QED BY <1>9, <3>1, <3>3, <4>1
    <3> QED BY <3>2, <3>3
  <2>2. g = [k \in 0..N |-> g[k]] /\ D(g) = [k \in 0..N |-> D(g)[k]]
    BY <1>9
  <2> HIDE DEF D
  <2> QED BY <2>1, <2>2
<1>11. f = D(f)
  <2>1. f = CHOOSE h : h = D(h)
    BY DEF Undo
  <2> HIDE DEF D, f
  <2> QED BY <1>10, <2>1, Zenon
<1> HIDE DEF f
<1>12. \A k \in 0..N : f[k] = IF k = 0 THEN t ELSE Reverted(f[k - 1], P[N + 1 - k])[1]
  BY <1>11
<1>13. DOMAIN f = 0..N /\ f = [k \in 0..N |-> f[k]]
  BY <1>11
<1>14. f[0] = t /\ \A k \in 1..N : f[k] = Reverted(f[k - 1], P[N + 1 - k])[1]
  <2>1. ASSUME NEW k \in 1..N PROVE f[k] = Reverted(f[k - 1], P[N + 1 - k])[1]
    <3>1. k \in 0..N /\ k # 0
      BY <1>1
    <3> QED BY <1>12, <3>1
  <2> QED BY <1>1, <1>12, <2>1
<1> DEFINE U == {k \in 0..N : f[k] \in Memory}
<1>15. \A k \in 0..N : k \in U
  <2>1. 0 \in U
    BY <1>1, <1>14
  <2>2. ASSUME NEW k \in 0..(N - 1), k \in U PROVE k + 1 \in U
    <3>1. k + 1 \in 1..N /\ k + 1 \in 0..N /\ k + 1 - 1 = k /\ N + 1 - (k + 1) \in 1..N
      BY <1>1
    <3>2. f[k + 1] = Reverted(f[k], P[N + 1 - (k + 1)])[1] /\ f[k] \in Memory
      BY <1>14, <2>2, <3>1
    <3>3. f[k + 1] \in Memory
      BY <1>1, <3>1, <3>2, RevertedIs
    <3> QED BY <3>1, <3>3
  <2> HIDE DEF U
  <2> QED BY <1>1, <2>1, <2>2, BoundedInduction
<1>16. f \in [0..N -> Memory]
  BY <1>13, <1>15
<1>17. IsUndo(f, t, P)
  BY <1>14, <1>16 DEF IsUndo
<1> QED BY <1>17 DEF f

(* The table after the last k slots have been looked at.                   *)
Half(f, P, k) ==
  [i \in 1..Len(P) |-> IF i > Len(P) - k THEN Reverted(f[Len(P) - i], P[i])[2] ELSE P[i]]

(* The patches not looked at yet are in memory as they were.               *)
Untouched(t, u, P, k) ==
  \A i \in 1..(Len(P) - k) : P[i].live => \A a \in Span(P[i]) : u[a] = t[a]

(* One pass of fault_patch_revert_all is one fault_patch_revert.           *)
LEMMA HalfStep ==
  ASSUME NEW t \in Memory, NEW P, Tabled(P), NEW f, IsUndo(f, t, P), NEW k \in 0..(Len(P) - 1),
         Step(t, P, f[k], Half(f, P, k)), Untouched(t, f[k], P, k)
  PROVE  Step(t, P, f[k + 1], Half(f, P, k + 1)) /\ Untouched(t, f[k + 1], P, k + 1)
<1> DEFINE N == Len(P)
           j == N - k
           u == f[k]
           v == f[k + 1]
           H == Half(f, P, k)
           G == Half(f, P, k + 1)
<1>1. /\ N \in Nat /\ DOMAIN P = 1..N /\ P \in Seq(Patches) /\ \A i \in 1..N : Placed(P[i])
      /\ j \in 1..N /\ k \in 0..N /\ k + 1 \in 1..N /\ N + 1 - (k + 1) = j /\ N - j = k
      /\ k + 1 - 1 = k /\ N - (k + 1) = j - 1
  BY DEF Tabled
<1>2. u \in Memory /\ v = Reverted(u, P[j])[1]
  BY <1>1 DEF IsUndo
<1>3. /\ DOMAIN H = 1..N /\ DOMAIN G = 1..N
      /\ \A i \in 1..N : H[i] = IF i > j THEN Reverted(f[N - i], P[i])[2] ELSE P[i]
      /\ \A i \in 1..N : G[i] = IF i > j - 1 THEN Reverted(f[N - i], P[i])[2] ELSE P[i]
  BY <1>1 DEF Half
<1>4. Tabled(H) /\ Len(H) = N
  BY DEF Step
<1>a. G = [i \in 1..N |-> G[i]] /\ H = [i \in 1..N |-> H[i]]
  BY DEF Half
<1>b. /\ Untouched(t, u, P, k) <=>
           \A i \in 1..j : P[i].live => \A a \in Span(P[i]) : u[a] = t[a]
      /\ Untouched(t, v, P, k + 1) <=>
           \A i \in 1..(j - 1) : P[i].live => \A a \in Span(P[i]) : v[a] = t[a]
  BY <1>1 DEF Untouched
<1>c. Step(t, P, u, H) /\ Untouched(t, u, P, k)
  OBVIOUS
<1> HIDE DEF N, j, u, v, G, H
<1>5. H[j] = P[j] /\ G[j] = Reverted(u, P[j])[2]
  <2>1. j \in 1..N /\ ~(j > j) /\ j > j - 1 /\ f[N - j] = u
    BY <1>1 DEF u
  <2>2. H[j] = P[j] /\ G[j] = Reverted(f[N - j], P[j])[2]
    BY <1>3, <2>1
  <2> QED BY <2>1, <2>2
<1>6. G = [H EXCEPT ![j] = Reverted(u, H[j])[2]]
  <2> DEFINE r == Reverted(u, H[j])[2]
             E == [H EXCEPT ![j] = r]
  <2>1. G[j] = r
    BY <1>5
  <2>2. ASSUME NEW i \in 1..N, i # j PROVE G[i] = H[i]
    <3>1. CASE i > j
      <4>1. i > j - 1
        BY <1>1, <3>1
      <4> QED BY <1>3, <3>1, <4>1
    <3>2. CASE ~(i > j)
      <4>1. ~(i > j - 1)
        BY <1>1, <2>2, <3>2
      <4> QED BY <1>3, <3>2, <4>1
    <3> QED BY <3>1, <3>2
  <2> HIDE DEF r
  <2>4. DOMAIN E = 1..N /\ E[j] = r /\ \A i \in 1..N : i # j => E[i] = H[i]
    BY <1>1, <1>3
  <2>5. E = [i \in 1..N |-> E[i]]
    BY <1>3
  <2>6. \A i \in 1..N : E[i] = G[i]
    BY <2>1, <2>2, <2>4
  <2>7. E = G
    BY <1>a, <2>5, <2>6
  <2> QED BY <2>7 DEF r
<1>7. Step(u, H, v, G)
  <2>1. j \in DOMAIN H
    BY <1>1, <1>3
  <2>2. Step(u, H, Reverted(u, H[j])[1], [H EXCEPT ![j] = Reverted(u, H[j])[2]])
    BY <1>2, <1>4, <2>1, RevertKeeps
  <2>3. v = Reverted(u, H[j])[1]
    BY <1>2, <1>5
  <2> QED BY <1>6, <2>2, <2>3
<1>8. Step(t, P, v, G)
  BY <1>4, <1>7, <1>c DEF Step
<1>9. Untouched(t, v, P, k + 1)
  <2> SUFFICES ASSUME NEW i \in 1..(j - 1), P[i].live, NEW a \in Span(P[i])
               PROVE  v[a] = t[a]
    BY <1>b
  <2>1. i \in 1..j /\ i \in 1..N /\ i # j
    BY <1>1
  <2>2. u[a] = t[a]
    BY <1>b, <1>c, <2>1
  <2>3. /\ v \in Memory
        /\ Reverted(u, P[j]) = <<u, P[j]>> \/ Undone(u, v, P[j])
    BY <1>1, <1>2, RevertedIs
  <2>4. CASE Reverted(u, P[j]) = <<u, P[j]>>
    BY <1>2, <2>2, <2>4
  <2>5. CASE Undone(u, v, P[j])
    <3>1. Span(P[i]) \cap Span(P[j]) = {}
      BY <1>1, <2>1, <2>5 DEF Tabled, Apart, Undone
    <3>2. a \in Addrs
      <4>1. Placed(P[i]) /\ Addrs = 1..Len(Text) /\ Len(Text) \in Nat
        BY <1>1, <2>1, MemorySeq
      <4> QED BY <4>1 DEF Placed, Patches, Span
    <3>3. v[a] = u[a]
      BY <2>5, <3>1, <3>2 DEF Undone
    <3> QED BY <2>2, <3>3
  <2> QED BY <2>3, <2>4, <2>5
<1> QED BY <1>8, <1>9 DEF v, G

(* fault_patch_revert_all is a run of fault_patch_revert, and what it      *)
(* takes back was there when it was called.                                *)
LEMMA RevertAllKeeps ==
  ASSUME NEW t \in Memory, NEW P, Tabled(P), NEW f, IsUndo(f, t, P)
  PROVE  /\ Step(t, P, f[Len(P)], Half(f, P, Len(P)))
         /\ \A k \in 0..Len(P) : Untouched(t, f[k], P, k)
<1> DEFINE N == Len(P)
           T == {k \in 0..N : Step(t, P, f[k], Half(f, P, k)) /\ Untouched(t, f[k], P, k)}
<1>1. N \in Nat /\ DOMAIN P = 1..N /\ P \in Seq(Patches) /\ f[0] = t
  BY DEF Tabled, IsUndo
<1>2. 0 \in T
  <2>1. Half(f, P, 0) = P
    <3>1. Half(f, P, 0) = [i \in 1..N |-> P[i]]
      <4>1. \A i \in 1..N : ~(i > N - 0)
        BY <1>1
      <4> QED BY <4>1 DEF Half
    <3> QED BY <1>1, <3>1
  <2>2. Step(t, P, t, P)
    BY DEF Step
  <2>3. Untouched(t, t, P, 0)
    BY DEF Untouched
  <2>4. 0 \in 0..N
    BY <1>1
  <2> QED BY <1>1, <2>1, <2>2, <2>3, <2>4
<1>3. ASSUME NEW k \in 0..(N - 1), k \in T PROVE k + 1 \in T
  <2>1. k + 1 \in 0..N
    BY <1>1
  <2> QED BY <1>3, <2>1, HalfStep
<1> HIDE DEF T
<1>4. \A k \in 0..N : k \in T
  BY <1>1, <1>2, <1>3, BoundedInduction
<1>5. N \in T
  BY <1>1, <1>4
<1> QED BY <1>4, <1>5 DEF T

-----------------------------------------------------------------------------
(* The inductive invariant: the live patches of fault.c lie apart inside   *)
(* .text, the two tables are within their sizes, and, as long as nothing   *)
(* was patched by name, the code is the linked one with the live patches   *)
(* over it, cut into instructions as it was linked outside them.           *)
PatchInv ==
  /\ text \in Memory /\ Tabled(g_patch) /\ Len(g_patch) <= FAULT_PATCH_SLOTS
  /\ IsFiniteSet(slots) /\ Cardinality(slots) <= STATE_PATCH_MAX_SLOTS
  /\ \A s \in slots : s.addr \in Addrs /\ s.orig \in Seq(Bytes)
  /\ byName \/ (slots = {} /\ Code(text, g_patch))

(* A request names an address and at least one byte.                       *)
LEMMA RequestIs ==
  ASSUME NEW max \in Nat, NEW req \in Requests(max)
  PROVE  req.addr \in Addrs /\ req.bytes \in Seq(Bytes) /\ Len(req.bytes) \in Nat \ {0}
<1>1. PICK n \in 1..max : req \in [addr : Addrs, bytes : [1..n -> Bytes]]
  BY DEF Requests
<1>2. req.addr \in Addrs /\ req.bytes \in [1..n -> Bytes] /\ n \in Nat \ {0}
  BY <1>1
<1> DEFINE b == req.bytes
<1> HIDE DEF b
<1>3. b \in [1..n -> Bytes] /\ n \in Nat \ {0}
  BY <1>2 DEF b
<1>4. b \in Seq(Bytes)
  BY <1>3
<1>5. Len(b) = n
  BY <1>3, <1>4
<1> QED BY <1>2, <1>4, <1>5 DEF b

(* patch_gate says OK only to a request that has passed its gates.         *)
LEMMA GatePasses ==
  ASSUME PatchInv, NEW req, NEW stale,
         req.addr \in Addrs, req.bytes \in Seq(Bytes), Len(req.bytes) \in Nat \ {0},
         req.addr \in Boundaries(text), patch_gate(req, stale) = "OK"
  PROVE  Passed(text, g_patch, req)
<1> DEFINE e == req.addr + Len(req.bytes) - 1
           A == e \notin Addrs
           X == ~span_insns(SubSeq(text, req.addr, e))
           Y == ~span_insns(req.bytes)
           Z == \E i \in Live : Span(g_patch[i]) \cap Span(req) # {}
<1>1. patch_gate(req, stale) =
        IF A THEN "ERANGE" ELSE IF stale THEN "EEXPECT" ELSE IF X THEN "EBOUNDARY"
        ELSE IF Y THEN "EOPAQUE" ELSE IF Z THEN "EOVERLAP" ELSE "OK"
  BY DEF patch_gate
<1> HIDE DEF A, X, Y, Z
<1>2. ~A /\ ~X /\ ~Y /\ ~Z
  BY <1>1
<1>3. Addrs = 1..Len(Text) /\ Len(Text) \in Nat
  BY MemorySeq
<1>4. e <= Len(Text)
  BY <1>2, <1>3 DEF A
<1>5. span_insns(New(text, req).orig) /\ span_insns(req.bytes)
  BY <1>2 DEF X, Y, New
<1>6. \A i \in DOMAIN g_patch : g_patch[i].live => Span(g_patch[i]) \cap Span(req) = {}
  BY <1>2 DEF Z, Live
<1> QED BY <1>4, <1>5, <1>6 DEF Passed

(* fault_patch_apply, with whatever request.                               *)
LEMMA ApplyInv ==
  ASSUME PatchInv, NEW req \in Requests(FAULT_PATCH_MAX_BYTES), NEW stale, Apply(req, stale)
  PROVE  PatchInv'
<1>1. /\ req.addr \in Boundaries(text)
      /\ rc' = IF patch_gate(req, stale) = "OK" /\ fault_patch_full THEN "ENOSPC"
               ELSE patch_gate(req, stale)
      /\ UNCHANGED <<slots, byName>>
  BY DEF Apply
<1>2. CASE rc' # "OK"
  <2>1. UNCHANGED <<text, g_patch>>
    BY <1>2 DEF Apply
  <2> QED BY <1>1, <2>1 DEF PatchInv
<1>3. CASE rc' = "OK"
  <2>1. patch_gate(req, stale) = "OK" /\ ~fault_patch_full
    BY <1>1, <1>3
  <2>2. /\ text' = Write(text, req.addr, req.bytes)
        /\ g_patch' = Append(g_patch, New(text, req))
    BY <1>3 DEF Apply, New
  <2>3. Passed(text, g_patch, req)
    <3>1. req.addr \in Addrs /\ req.bytes \in Seq(Bytes) /\ Len(req.bytes) \in Nat \ {0}
      BY RequestIs, TextAssumption
    <3> QED BY <1>1, <2>1, <3>1, GatePasses
  <2>4. /\ text' \in Memory /\ Tabled(g_patch')
        /\ Code(text, g_patch) => Code(text', g_patch')
    BY <2>2, <2>3, ApplyKeeps DEF PatchInv
  <2>5. Len(g_patch') <= FAULT_PATCH_SLOTS
    <3>1. Len(g_patch') = Len(g_patch) + 1 /\ Len(g_patch) \in Nat
      BY <2>2, <2>3, NewTabled DEF PatchInv
    <3> QED BY <2>1, <3>1, TextAssumption DEF fault_patch_full
  <2>6. byName' \/ (slots' = {} /\ Code(text', g_patch'))
    BY <1>1, <2>4 DEF PatchInv
  <2> QED BY <1>1, <2>4, <2>5, <2>6 DEF PatchInv
<1> QED BY <1>2, <1>3

(* A step of reverts, of one patch or of all.                              *)
LEMMA StepInv ==
  ASSUME PatchInv, Step(text, g_patch, text', g_patch'), UNCHANGED <<slots, byName>>
  PROVE  PatchInv'
<1>1. byName' \/ (slots' = {} /\ Code(text', g_patch'))
  BY DEF PatchInv, Step
<1> QED BY <1>1 DEF PatchInv, Step

(* What fault_patch_revert_all does, in terms of its loop.                 *)
LEMMA RevertAllIs ==
  ASSUME fault_patch_revert_all
  PROVE  /\ text' = Undo(text, g_patch)[Len(g_patch)]
         /\ g_patch' = [i \in 1..Len(g_patch) |->
                          Reverted(Undo(text, g_patch)[Len(g_patch) - i], g_patch[i])[2]]
         /\ UNCHANGED <<slots, byName>>
BY DEF fault_patch_revert_all, Undo

(* fault_patch_revert and fault_patch_revert_all.                          *)
LEMMA RevertInv ==
  ASSUME PatchInv, fault_patch_revert \/ fault_patch_revert_all
  PROVE  PatchInv'
<1>1. CASE fault_patch_revert
  <2>1. PICK i \in DOMAIN g_patch :
          /\ text' = Reverted(text, g_patch[i])[1]
          /\ g_patch' = [g_patch EXCEPT ![i] = Reverted(text, g_patch[i])[2]]
    BY <1>1 DEF fault_patch_revert
  <2>2. Step(text, g_patch, text', g_patch')
    BY <2>1, RevertKeeps DEF PatchInv
  <2>3. UNCHANGED <<slots, byName>>
    BY <1>1 DEF fault_patch_revert
  <2> QED BY <2>2, <2>3, StepInv
<1>2. CASE fault_patch_revert_all
  <2> DEFINE f == Undo(text, g_patch)
  <2>1. /\ text' = f[Len(g_patch)]
        /\ g_patch' = [i \in 1..Len(g_patch) |-> Reverted(f[Len(g_patch) - i], g_patch[i])[2]]
        /\ UNCHANGED <<slots, byName>>
    BY <1>2, RevertAllIs
  <2>2. IsUndo(f, text, g_patch)
    BY UndoExists DEF PatchInv
  <2> HIDE DEF f
  <2>3. Step(text, g_patch, f[Len(g_patch)], Half(f, g_patch, Len(g_patch)))
    BY <2>2, RevertAllKeeps DEF PatchInv
  <2>4. g_patch' = Half(f, g_patch, Len(g_patch))
    <3>1. Len(g_patch) \in Nat
      BY DEF PatchInv, Tabled
    <3>2. \A i \in 1..Len(g_patch) : i > Len(g_patch) - Len(g_patch)
      BY <3>1
    <3> QED BY <2>1, <3>2 DEF Half
  <2> QED BY <2>1, <2>3, <2>4, StepInv
<1> QED BY <1>1, <1>2

(* patch_apply and patch_rollback keep the tables within their sizes.      *)
LEMMA ByNameInv ==
  ASSUME PatchInv, patch_apply \/ patch_rollback
  PROVE  PatchInv'
<1>0. /\ text \in Memory /\ IsFiniteSet(slots) /\ Cardinality(slots) <= STATE_PATCH_MAX_SLOTS
      /\ \A s \in slots : s.addr \in Addrs /\ s.orig \in Seq(Bytes)
      /\ STATE_PATCH_MAX_SLOTS \in Nat /\ STATE_PATCH_MAX_BYTES \in Nat
  BY TextAssumption DEF PatchInv
<1>1. CASE patch_apply
  <2>1. PICK req \in Requests(STATE_PATCH_MAX_BYTES) :
          /\ req.addr + Len(req.bytes) - 1 \in Addrs
          /\ Cardinality(slots) < STATE_PATCH_MAX_SLOTS
          /\ text' = Write(text, req.addr, req.bytes)
          /\ slots' = reduce_patch_apply(req.addr, req.bytes)
          /\ byName' = TRUE /\ UNCHANGED g_patch
    BY <1>1 DEF patch_apply
  <2>2. req.addr \in Addrs /\ req.bytes \in Seq(Bytes) /\ Len(req.bytes) \in Nat \ {0}
    BY <1>0, RequestIs
  <2>3. text' \in Memory
    BY <1>0, <2>1, <2>2, WriteIs
  <2> DEFINE o == SubSeq(text, req.addr, req.addr + Len(req.bytes) - 1)
             s == [addr |-> req.addr, bytes |-> req.bytes, orig |-> o]
  <2>4. o \in Seq(Bytes)
    <3> DEFINE a == req.addr
               n == Len(req.bytes)
    <3>1. a \in Addrs /\ n \in Nat \ {0} /\ a + n - 1 <= Len(Text)
      BY <2>1, <2>2, MemorySeq
    <3> HIDE DEF a, n
    <3>2. SubSeq(text, a, a + n - 1) \in Seq(Bytes)
      BY <1>0, <3>1, ReadIs
    <3> QED BY <3>2 DEF a, n
  <2>5. slots' = slots \cup {s}
    BY <2>1 DEF reduce_patch_apply
  <2>6. s.addr \in Addrs /\ s.orig \in Seq(Bytes)
    BY <2>2, <2>4
  <2> HIDE DEF s, o
  <2>7. IsFiniteSet(slots') /\ Cardinality(slots') <= STATE_PATCH_MAX_SLOTS
    <3>1. /\ IsFiniteSet(slots \cup {s})
          /\ Cardinality(slots \cup {s}) = IF s \in slots THEN Cardinality(slots) ELSE Cardinality(slots) + 1
      BY <1>0, FS_AddElement
    <3>2. Cardinality(slots) \in Nat
      BY <1>0, FS_CardinalityType
    <3> QED BY <1>0, <2>1, <2>5, <3>1, <3>2
  <2>8. \A x \in slots' : x.addr \in Addrs /\ x.orig \in Seq(Bytes)
    BY <1>0, <2>5, <2>6
  <2> QED BY <2>1, <2>3, <2>7, <2>8 DEF PatchInv
<1>2. CASE patch_rollback
  <2>1. PICK s \in slots :
          /\ text' = Write(text, s.addr, s.orig)
          /\ slots' = reduce_patch_rollback(s.addr)
          /\ UNCHANGED <<g_patch, byName>>
    BY <1>2 DEF patch_rollback
  <2>2. text' \in Memory
    BY <1>0, <2>1, WriteIs
  <2>3. slots' \subseteq slots
    BY <2>1 DEF reduce_patch_rollback
  <2>4. IsFiniteSet(slots') /\ Cardinality(slots') <= STATE_PATCH_MAX_SLOTS
    <3>1. IsFiniteSet(slots') /\ Cardinality(slots') <= Cardinality(slots)
      BY <1>0, <2>3, FS_Subset
    <3>2. Cardinality(slots) \in Nat /\ Cardinality(slots') \in Nat
      BY <1>0, <3>1, FS_CardinalityType
    <3> QED BY <1>0, <3>1, <3>2
  <2>5. byName
    BY <2>1 DEF PatchInv
  <2>6. \A x \in slots' : x.addr \in Addrs /\ x.orig \in Seq(Bytes)
    BY <1>0, <2>3
  <2> QED BY <2>1, <2>2, <2>4, <2>5, <2>6 DEF PatchInv
<1> QED BY <1>1, <1>2

(* The kernel as linked satisfies the invariant.                           *)
LEMMA InitPatch == Init => PatchInv
<1> SUFFICES ASSUME Init PROVE PatchInv
  OBVIOUS
<1>1. text = Text /\ g_patch = <<>> /\ slots = {} /\ text \in Memory
  BY MemorySeq DEF Init
<1>2. Tabled(g_patch) /\ Len(g_patch) <= FAULT_PATCH_SLOTS
  BY <1>1, TextAssumption DEF Tabled, Apart
<1>3. Code(text, g_patch)
  BY <1>1 DEF Code, Overlaid, Aligned
<1>4. IsFiniteSet(slots) /\ Cardinality(slots) <= STATE_PATCH_MAX_SLOTS
  BY <1>1, FS_EmptySet, TextAssumption
<1> QED BY <1>1, <1>2, <1>3, <1>4 DEF PatchInv

(* Every call of either tool keeps it.                                     *)
LEMMA NextPatch == PatchInv /\ [Next]_vars => PatchInv'
<1> SUFFICES ASSUME PatchInv, [Next]_vars PROVE PatchInv'
  OBVIOUS
<1>1. CASE fault_patch_apply
  BY <1>1, ApplyInv DEF fault_patch_apply
<1>2. CASE fault_patch_revert \/ fault_patch_revert_all
  BY <1>2, RevertInv
<1>3. CASE patch_apply \/ patch_rollback
  BY <1>3, ByNameInv
<1>4. CASE UNCHANGED vars
  BY <1>4 DEF vars, PatchInv
<1> QED BY <1>1, <1>2, <1>3, <1>4 DEF Next

(* PatchInv is an invariant of the two patch tools.                        *)
THEOREM PatchInvariance == Spec => []PatchInv
BY InitPatch, NextPatch, PTL DEF Spec

(* Where an address of the span is in the bytes of the patch.              *)
LEMMA SpanIndex ==
  ASSUME NEW p, Placed(p), NEW a \in Span(p)
  PROVE  a - p.addr + 1 \in 1..Len(p.bytes) /\ p.addr + (a - p.addr + 1) - 1 = a
<1> DEFINE x == p.addr
           n == Len(p.bytes)
<1>1. x \in Nat /\ n \in Nat /\ a \in x..(x + n - 1)
  BY MemorySeq DEF Span, Placed, Patches
<1> HIDE DEF x, n
<1>2. a - x + 1 \in 1..n /\ x + (a - x + 1) - 1 = a
  BY <1>1
<1> QED BY <1>2 DEF x, n

(* The invariant says what LinkedPlusLive does of the code in memory.      *)
LEMMA PatchLinked == PatchInv => LinkedPlusLive
<1> SUFFICES ASSUME PatchInv PROVE LinkedPlusLive
  OBVIOUS
<1>1. TypeOK
  BY DEF PatchInv, TypeOK, Memory, Live
<1>2. ASSUME ~byName PROVE BoundariesKept
  <2> SUFFICES ASSUME NEW a \in Boundaries(Text), a \notin Boundaries(text)
               PROVE  \E i \in Live : a \in Span(g_patch[i]) /\ a # g_patch[i].addr
    BY DEF BoundariesKept
  <2>1. a \in Nat
    BY BoundariesDecode, TextAssumption DEF Decodes
  <2>2. Inside(g_patch, a)
    BY <1>2, <2>1 DEF PatchInv, Code, Aligned
  <2> QED BY <2>2 DEF Inside, Live
<1>3. ASSUME ~byName, NEW a \in Addrs, ~\E i \in Live : a \in Span(g_patch[i])
      PROVE  text[a] = Text[a]
  <2>1. ~Covered(g_patch, a)
    BY <1>3 DEF Covered, Live
  <2> QED BY <1>3, <2>1 DEF PatchInv, Code, Overlaid
<1>4. ASSUME ~byName, NEW a \in Addrs, NEW i \in Live, a \in Span(g_patch[i])
      PROVE  text[a] = g_patch[i].bytes[a - g_patch[i].addr + 1]
  <2> DEFINE p == g_patch[i]
             k == a - p.addr + 1
  <2>1. i \in DOMAIN g_patch /\ p.live
    BY DEF Live
  <2>2. InPlace(text, p) /\ Placed(p)
    BY <1>4, <2>1 DEF PatchInv, Code, Overlaid, Tabled
  <2>3. k \in 1..Len(p.bytes) /\ p.addr + k - 1 = a
    BY <1>4, <2>2, SpanIndex
  <2> HIDE DEF k, p
  <2>4. text[p.addr + k - 1] = p.bytes[k]
    BY <2>2, <2>3 DEF InPlace
  <2>5. text[a] = p.bytes[k]
    BY <2>3, <2>4
  <2> QED BY <2>5 DEF k, p
<1>5. ASSUME ~byName, NEW a \in Addrs
      PROVE  text[a] = IF \E i \in Live : a \in Span(g_patch[i])
                       THEN LET p == g_patch[CHOOSE i \in Live : a \in Span(g_patch[i])]
                            IN p.bytes[a - p.addr + 1]
                       ELSE Text[a]
  <2> DEFINE c == CHOOSE i \in Live : a \in Span(g_patch[i])
  <2>1. CASE \E i \in Live : a \in Span(g_patch[i])
    <3>1. c \in Live /\ a \in Span(g_patch[c])
      BY <2>1, Zenon
    <3> HIDE DEF c
    <3>2. text[a] = g_patch[c].bytes[a - g_patch[c].addr + 1]
      BY <1>4, <1>5, <3>1
    <3> QED BY <2>1, <3>2, Zenon DEF c
  <2>2. CASE ~\E i \in Live : a \in Span(g_patch[i])
    BY <1>3, <1>5, <2>2, Zenon
  <2> QED BY <2>1, <2>2
<1> QED BY <1>1, <1>2, <1>5 DEF LinkedPlusLive

(* Memory is what the linker left with the live patches over it, and the   *)
(* linker's instruction boundaries outside them still are boundaries, for  *)
(* every .text and every sequence of fault_patch_apply, fault_patch_revert *)
(* and fault_patch_revert_all.                                             *)
THEOREM LinkedPlusLiveAlways == Spec => []LinkedPlusLive
BY PatchInvariance, PatchLinked, PTL

(* A patch that stops being live was in memory as written, in one revert   *)
(* or in the middle of fault_patch_revert_all, whatever patch_apply did.   *)
LEMMA RevertsOwn ==
  ASSUME PatchInv, [Next]_vars, NEW i \in Live \ Live', NEW a \in Span(g_patch[i])
  PROVE  text[a] = g_patch[i].bytes[a - g_patch[i].addr + 1]
<1> DEFINE p == g_patch[i]
           k == a - p.addr + 1
<1>1. i \in DOMAIN g_patch /\ p.live /\ ~(i \in DOMAIN g_patch' /\ g_patch'[i].live)
  BY DEF Live
<1>2. Placed(p) /\ text \in Memory /\ Tabled(g_patch) /\ g_patch \in Seq(Patches)
  BY <1>1 DEF PatchInv, Tabled
<1>3. k \in 1..Len(p.bytes) /\ p.addr + k - 1 = a
  BY <1>2, SpanIndex
<1>4. ASSUME NEW t \in Memory, ~Reverted(t, p)[2].live
      PROVE  t[a] = p.bytes[k]
  <2>1. Reverted(t, p) = <<t, p>> \/ Undone(t, Reverted(t, p)[1], p)
    BY <1>2, RevertedIs
  <2>2. Reverted(t, p) # <<t, p>>
    BY <1>1, <1>4
  <2>3. Undone(t, Reverted(t, p)[1], p)
    BY <2>1, <2>2
  <2> HIDE DEF k, p
  <2>4. t[p.addr + k - 1] = p.bytes[k]
    BY <1>3, <2>3 DEF Undone
  <2> QED BY <1>3, <2>4
<1>5. CASE fault_patch_revert
  <2>1. PICK j \in DOMAIN g_patch : g_patch' = [g_patch EXCEPT ![j] = Reverted(text, g_patch[j])[2]]
    BY <1>5 DEF fault_patch_revert
  <2>2. j = i /\ g_patch'[i] = Reverted(text, p)[2] /\ i \in DOMAIN g_patch'
    BY <1>1, <2>1
  <2>3. ~Reverted(text, p)[2].live
    BY <1>1, <2>2
  <2> QED BY <1>2, <1>4, <2>3
<1>6. CASE fault_patch_revert_all
  <2> DEFINE f == Undo(text, g_patch)
             N == Len(g_patch)
  <2>1. g_patch' = [x \in 1..N |-> Reverted(f[N - x], g_patch[x])[2]]
    BY <1>6, RevertAllIs
  <2>2. IsUndo(f, text, g_patch)
    BY <1>2, UndoExists
  <2> HIDE DEF f
  <2>3. i \in 1..N /\ N \in Nat /\ N - i \in 0..N /\ N - (N - i) = i
    BY <1>1, <1>2
  <2>4. ~Reverted(f[N - i], p)[2].live
    BY <1>1, <2>1, <2>3
  <2>5. f[N - i] \in Memory
    BY <2>2, <2>3 DEF IsUndo
  <2>6. f[N - i][a] = p.bytes[k]
    BY <1>4, <2>4, <2>5
  <2>7. Untouched(text, f[N - i], g_patch, N - i)
    BY <1>2, <2>2, <2>3, RevertAllKeeps
  <2>8. i \in 1..(N - (N - i))
    BY <2>3
  <2>9. f[N - i][a] = text[a]
    BY <1>1, <2>7, <2>8 DEF Untouched
  <2> QED BY <2>6, <2>9
<1>7. CASE fault_patch_apply
  <2>1. PICK req \in Requests(FAULT_PATCH_MAX_BYTES), stale \in BOOLEAN : Apply(req, stale)
    BY <1>7 DEF fault_patch_apply
  <2>2. g_patch' = g_patch \/ g_patch' = Append(g_patch, New(text, req))
    BY <2>1 DEF Apply, New
  <2>3. i \in DOMAIN g_patch' /\ g_patch'[i] = g_patch[i]
    BY <1>1, <1>2, <2>2
  <2> QED BY <1>1, <2>3
<1>8. CASE patch_apply \/ patch_rollback \/ UNCHANGED vars
  <2>1. g_patch' = g_patch
    BY <1>8 DEF patch_apply, patch_rollback, vars
  <2> QED BY <1>1, <2>1
<1> QED BY <1>5, <1>6, <1>7, <1>8 DEF Next

(* No revert replaces bytes that its patch did not write: neither by id    *)
(* nor by fault_patch_revert_all, whose earlier passes have changed memory *)
(* since it was called, and whatever the other patch tool wrote.           *)
THEOREM RevertsOnlyOwnBytes == Spec => RevertOnlyOwnBytes
<1>1. PatchInv /\ [Next]_vars =>
        [\A i \in Live \ Live' : \A a \in Span(g_patch[i]) :
           text[a] = g_patch[i].bytes[a - g_patch[i].addr + 1]]_vars
  BY RevertsOwn
<1> QED BY <1>1, PatchInvariance, PTL DEF Spec, RevertOnlyOwnBytes

-----------------------------------------------------------------------------
(* The fault conversation.                                                 *)

Counter == [rip : Addrs \cup {0}, tries : Nat]
Indices == 0 .. FAULTCHAT_RIP_SLOTS - 1
Table   == [Indices -> Counter]
Chats   == [transport : BOOLEAN, enabled : BOOLEAN, busy : BOOLEAN, off : BOOLEAN,
            seen : Nat, diagnoses : Nat, patches : Nat, rip_table : Table, rip_next : Nat]

ChatType ==
  /\ count \in Nat /\ before \in Nat /\ requests \in Nat /\ written \in Nat
  /\ plan \in BOOLEAN /\ struck \in BOOLEAN
  /\ asked \in [Addrs -> Nat]
  /\ fc \in Chats

(* The fault a request is about is the newest, and there is one.           *)
ClaimInv ==
  /\ fc.seen <= count
  /\ before <= count
  /\ count > 0 => last \in Addrs

(* The diagnoses counted are within the budget and cover the requests      *)
(* sent; each address counted took one of them.                            *)
BudgetInv ==
  /\ fc.diagnoses <= FAULTCHAT_MAX_DIAGNOSES
  /\ requests <= fc.diagnoses
  /\ fc.rip_next <= fc.diagnoses
  /\ written <= fc.patches
  /\ fc.patches <= FAULTCHAT_MAX_PATCHES

(* The counters in use are the first rip_next ones, one per address, none  *)
(* over the limit; an address was asked about no oftener than its counter  *)
(* says, and not at all if it has none.                                    *)
TableOK(t, next, ask) ==
  /\ \A i \in Indices : i >= next => t[i].tries = 0
  /\ \A i, j \in Indices :
       t[i].tries # 0 /\ t[j].tries # 0 /\ t[i].rip = t[j].rip => i = j
  /\ \A i \in Indices : t[i].tries <= FAULTCHAT_MAX_PER_RIP
  /\ \A a \in Addrs : ask[a] > 0 => \E i \in Indices : t[i].rip = a /\ ask[a] <= t[i].tries

TableInv == TableOK(fc.rip_table, fc.rip_next, asked)

(* A machine that faulted under a request has a newer fault than the       *)
(* request, or the answer has come and the module is off.                  *)
StruckInv == struck => IF before = 0 THEN fc.off ELSE count # before

IInv == ChatType /\ ClaimInv /\ BudgetInv /\ TableInv /\ StruckInv

-----------------------------------------------------------------------------
(* Incrementing the counter of an address in the table.                    *)
LEMMA CountAgain ==
  ASSUME NEW t \in Table, NEW n \in Nat, NEW ask \in [Addrs -> Nat], NEW rip \in Addrs,
         NEW s \in Indices, NEW u \in Table, TableOK(t, n, ask),
         t[s].tries # 0, t[s].rip = rip, t[s].tries < FAULTCHAT_MAX_PER_RIP,
         u[s] = [rip |-> rip, tries |-> t[s].tries + 1],
         \A i \in Indices \ {s} : u[i] = t[i]
  PROVE  TableOK(u, n, [ask EXCEPT ![rip] = @ + 1])
<1> USE RipSlotsAssumption
<1>1. t[s] \in Counter /\ t[s].tries \in Nat /\ t[s].rip \in Addrs \cup {0}
      /\ \A i \in Indices : t[i].tries \in Nat
  BY DEF Table, Counter
<1>3. /\ u[s].rip = rip /\ u[s].tries = t[s].tries + 1
      /\ \A i \in Indices \ {s} : u[i] = t[i]
      /\ \A i \in Indices : u[i].rip = t[i].rip /\ (u[i].tries = 0 <=> t[i].tries = 0)
                            /\ u[i].tries >= t[i].tries
  BY <1>1 DEF Table
<1>4. \A i \in Indices : i >= n => u[i].tries = 0
  BY <1>3 DEF TableOK
<1>5. \A i, j \in Indices : u[i].tries # 0 /\ u[j].tries # 0 /\ u[i].rip = u[j].rip => i = j
  BY <1>3 DEF TableOK
<1>6. \A i \in Indices : u[i].tries <= FAULTCHAT_MAX_PER_RIP
  BY <1>1, <1>3 DEF TableOK
<1>7. ASSUME NEW a \in Addrs, [ask EXCEPT ![rip] = @ + 1][a] > 0
      PROVE  \E i \in Indices : u[i].rip = a /\ [ask EXCEPT ![rip] = @ + 1][a] <= u[i].tries
  <2>1. CASE a = rip
    <3>1. ask[rip] <= t[s].tries
      <4>1. CASE ask[rip] > 0
        <5>1. PICK i \in Indices : t[i].rip = rip /\ ask[rip] <= t[i].tries
          BY <4>1 DEF TableOK
        <5>2. i = s
          BY <1>1, <4>1, <5>1 DEF TableOK
        <5> QED
          BY <5>1, <5>2
      <4>2. CASE ~ ask[rip] > 0
        BY <1>1, <4>2
      <4> QED
        BY <4>1, <4>2
    <3>2. ask[rip] + 1 <= u[s].tries
      BY <1>1, <1>3, <3>1
    <3> QED
      BY <1>3, <2>1, <3>2
  <2>2. CASE a # rip
    <3>1. ask[a] > 0
      BY <1>7, <2>2
    <3>2. PICK i \in Indices : t[i].rip = a /\ ask[a] <= t[i].tries
      BY <3>1 DEF TableOK
    <3>3. i # s /\ u[i] = t[i]
      BY <1>3, <2>2, <3>2
    <3> QED
      BY <2>2, <3>2, <3>3
  <2> QED
    BY <2>1, <2>2
<1> HIDE DEF TableOK
<1> QED
  BY <1>4, <1>5, <1>6, <1>7 DEF TableOK

(* Giving an address without a counter the next one.                       *)
LEMMA CountFirst ==
  ASSUME NEW t \in Table, NEW n \in Nat, NEW ask \in [Addrs -> Nat], NEW rip \in Addrs,
         NEW u, TableOK(t, n, ask), n < FAULTCHAT_RIP_SLOTS, FAULTCHAT_MAX_PER_RIP > 0,
         \A i \in Indices : t[i].tries # 0 => t[i].rip # rip,
         u = [t EXCEPT ![n] = [rip |-> rip, tries |-> 1]]
  PROVE  u \in Table /\ TableOK(u, n + 1, [ask EXCEPT ![rip] = @ + 1])
<1> USE RipSlotsAssumption
<1>1. n \in Indices /\ \A i \in Indices : t[i].tries \in Nat
  BY DEF Table, Counter, Indices
<1>2. u \in Table
  BY <1>1 DEF Table, Counter
<1>3. /\ u[n].rip = rip /\ u[n].tries = 1
      /\ \A i \in Indices \ {n} : u[i] = t[i]
      /\ t[n].tries = 0
  BY <1>1 DEF Table, TableOK
<1>4. \A i \in Indices : i >= n + 1 => u[i].tries = 0
  BY <1>3 DEF TableOK, Indices
<1>5. \A i, j \in Indices : u[i].tries # 0 /\ u[j].tries # 0 /\ u[i].rip = u[j].rip => i = j
  BY <1>3 DEF TableOK
<1>6. \A i \in Indices : u[i].tries <= FAULTCHAT_MAX_PER_RIP
  BY <1>1, <1>3 DEF TableOK
<1>7. ASSUME NEW a \in Addrs, [ask EXCEPT ![rip] = @ + 1][a] > 0
      PROVE  \E i \in Indices : u[i].rip = a /\ [ask EXCEPT ![rip] = @ + 1][a] <= u[i].tries
  <2>1. CASE a = rip
    <3>1. ask[rip] = 0
      <4> SUFFICES ASSUME ask[rip] > 0 PROVE FALSE
        OBVIOUS
      <4>1. PICK i \in Indices : t[i].rip = rip /\ ask[rip] <= t[i].tries
        BY DEF TableOK
      <4> QED
        BY <1>1, <4>1
    <3> QED
      BY <1>1, <1>3, <2>1, <3>1
  <2>2. CASE a # rip
    <3>1. ask[a] > 0
      BY <1>7, <2>2
    <3>2. PICK i \in Indices : t[i].rip = a /\ ask[a] <= t[i].tries
      BY <3>1 DEF TableOK
    <3>3. i # n /\ u[i] = t[i]
      BY <1>1, <1>3, <3>1, <3>2
    <3> QED
      BY <2>2, <3>2, <3>3
  <2> QED
    BY <2>1, <2>2
<1> QED
  BY <1>2, <1>4, <1>5, <1>6, <1>7 DEF TableOK

(* The table covers fewer requests too: the pump counts attempts that      *)
(* send nothing.                                                           *)
LEMMA CountedUnsent ==
  ASSUME NEW t \in Table, NEW n \in Nat, NEW ask \in [Addrs -> Nat], NEW rip \in Addrs,
         TableOK(t, n, [ask EXCEPT ![rip] = @ + 1])
  PROVE  TableOK(t, n, ask)
<1> SUFFICES ASSUME NEW a \in Addrs, ask[a] > 0
             PROVE  \E i \in Indices : t[i].rip = a /\ ask[a] <= t[i].tries
  BY DEF TableOK
<1>1. [ask EXCEPT ![rip] = @ + 1][a] >= ask[a] /\ [ask EXCEPT ![rip] = @ + 1][a] \in Nat
  OBVIOUS
<1>2. PICK i \in Indices : t[i].rip = a /\ [ask EXCEPT ![rip] = @ + 1][a] <= t[i].tries
  BY <1>1 DEF TableOK
<1> QED
  BY <1>1, <1>2 DEF Table, Counter

(* rip_bump and rip_tries together: an address below the limit is counted  *)
(* once more, in its own counter or in the next free one, and nothing else *)
(* of the module's state changes.                                          *)
LEMMA BumpKeeps ==
  ASSUME NEW f \in Chats, NEW ask \in [Addrs -> Nat], NEW rip \in Addrs,
         TableOK(f.rip_table, f.rip_next, ask), f.rip_next < FAULTCHAT_RIP_SLOTS,
         rip_tries(f, rip) < FAULTCHAT_MAX_PER_RIP
  PROVE  /\ rip_bump(f, rip) \in Chats
         /\ rip_bump(f, rip).rip_next <= f.rip_next + 1
         /\ TableOK(rip_bump(f, rip).rip_table, rip_bump(f, rip).rip_next,
                    [ask EXCEPT ![rip] = @ + 1])
         /\ rip_bump(f, rip).seen = f.seen
         /\ rip_bump(f, rip).diagnoses = f.diagnoses
         /\ rip_bump(f, rip).patches = f.patches
<1> DEFINE g == rip_bump(f, rip)
           t == f.rip_table
           S == RipSlots(f, rip)
           s == CHOOSE i \in S : TRUE
<1>1. t \in Table /\ DOMAIN t = Indices /\ f.rip_next \in Nat
  BY DEF Chats, Table
<1>2. S = {i \in Indices : t[i].tries # 0 /\ t[i].rip = rip}
  BY <1>1 DEF RipSlots
<1>3. CASE S # {}
  <2>1. s \in S
    BY <1>3
  <2>2. s \in Indices /\ t[s].tries # 0 /\ t[s].rip = rip
    BY <1>2, <2>1
  <2>3. t[s].tries < FAULTCHAT_MAX_PER_RIP
    BY <1>3 DEF rip_tries
  <2> HIDE DEF s
  <2> DEFINE u == [t EXCEPT ![s] = [rip |-> rip, tries |-> t[s].tries + 1]]
  <2>4. u \in Table /\ TableOK(u, f.rip_next, [ask EXCEPT ![rip] = @ + 1])
    <3>1. /\ TableOK(t, f.rip_next, ask) /\ u \in Table
          /\ u[s] = [rip |-> rip, tries |-> t[s].tries + 1]
          /\ \A i \in Indices \ {s} : u[i] = t[i]
      BY <1>1, <2>2 DEF Table, Counter
    <3> HIDE DEF t, u
    <3> QED
      BY <1>1, <2>2, <2>3, <3>1, CountAgain
  <2>5. g = [f EXCEPT !.rip_table = [t EXCEPT ![s] = [t[s] EXCEPT !.tries = t[s].tries + 1]]]
    BY <1>3 DEF rip_bump, s
  <2>6. [t[s] EXCEPT !.tries = t[s].tries + 1] = [rip |-> rip, tries |-> t[s].tries + 1]
    BY <1>1, <2>2 DEF Table, Counter
  <2>7. g = [f EXCEPT !.rip_table = u]
    BY <2>5, <2>6
  <2> HIDE DEF u
  <2>8. g \in Chats
    BY <2>4, <2>7 DEF Chats
  <2>9. /\ g.rip_table = u /\ g.rip_next = f.rip_next
        /\ g.seen = f.seen /\ g.diagnoses = f.diagnoses /\ g.patches = f.patches
    BY <2>7 DEF Chats
  <2> QED
    BY <1>1, <2>4, <2>8, <2>9
<1>4. CASE S = {}
  <2>1. \A i \in Indices : t[i].tries # 0 => t[i].rip # rip
    BY <1>2, <1>4
  <2>2. FAULTCHAT_MAX_PER_RIP > 0
    BY <1>4 DEF rip_tries
  <2>3. f.rip_next % FAULTCHAT_RIP_SLOTS = f.rip_next
    BY <1>1, RipSlotsAssumption
  <2> DEFINE u == [t EXCEPT ![f.rip_next] = [rip |-> rip, tries |-> 1]]
  <2>4. u \in Table /\ TableOK(u, f.rip_next + 1, [ask EXCEPT ![rip] = @ + 1])
    BY <1>1, <2>1, <2>2, CountFirst
  <2>5. g = [f EXCEPT !.rip_table = u, !.rip_next = f.rip_next + 1]
    BY <1>4, <2>3 DEF rip_bump
  <2> HIDE DEF u
  <2>6. g \in Chats
    <3>1. f.rip_next + 1 \in Nat
      BY <1>1
    <3> QED
      BY <2>4, <2>5, <3>1 DEF Chats
  <2>7. /\ g.rip_table = u /\ g.rip_next = f.rip_next + 1
        /\ g.seen = f.seen /\ g.diagnoses = f.diagnoses /\ g.patches = f.patches
    BY <2>5 DEF Chats
  <2> QED
    BY <1>1, <2>4, <2>6, <2>7
<1> QED
  BY <1>3, <1>4

(* The module as faultchat_bind leaves it.                                 *)
LEMMA InitIInv == ChatInit => IInv
<1> SUFFICES ASSUME ChatInit PROVE IInv
  OBVIOUS
<1> USE RipSlotsAssumption DEF ChatInit, Bound, NoRip
<1>1. fc \in Chats
  BY DEF Chats, Table, Counter, Indices
<1>2. ChatType
  BY <1>1 DEF ChatType
<1>3. ClaimInv /\ BudgetInv /\ StruckInv
  BY DEF ClaimInv, BudgetInv, StruckInv
<1>4. TableInv
  BY DEF TableInv, TableOK, Indices
<1> QED
  BY <1>2, <1>3, <1>4 DEF IInv

(* A fault that is survived leaves the module alone and makes the answer   *)
(* of a request in flight an answer about another machine.                 *)
LEMMA SurviveIInv == ASSUME IInv, NEW rip \in Addrs, Survive(rip) PROVE IInv'
<1> USE DEF IInv, Survive
<1>1. ChatType'
  <2>1. plan' \in BOOLEAN /\ struck' \in BOOLEAN
    BY DEF ChatType
  <2>2. count' \in Nat
    BY DEF ChatType
  <2> QED
    BY <2>1, <2>2 DEF ChatType
<1>2. ClaimInv'
  <2>1. fc.seen \in Nat
    BY DEF ChatType, Chats
  <2> QED
    BY <2>1 DEF ChatType, ClaimInv
<1>3. BudgetInv' /\ TableInv'
  BY DEF BudgetInv, TableInv
<1>4. StruckInv'
  BY DEF ChatType, ClaimInv, StruckInv
<1> QED
  BY <1>1, <1>2, <1>3, <1>4

(* The pump claims every fault, and counts a diagnosis before sending.     *)
LEMMA PumpIInv == ASSUME IInv, faultchat_pump PROVE IInv'
<1> DEFINE f == [fc EXCEPT !.seen = count]
           d == [f EXCEPT !.diagnoses = @ + 1]
           g == rip_bump(d, last)
<1> USE RipSlotsAssumption
<1>1. /\ fc \in Chats /\ count \in Nat /\ asked \in [Addrs -> Nat]
      /\ before = 0 /\ count # fc.seen /\ fc.seen \in Nat /\ ~ fc.off
      /\ UNCHANGED <<code, count, last, plan, written, struck>>
  BY DEF IInv, ChatType, Chats, faultchat_pump
<1>2. last \in Addrs /\ count > 0
  BY <1>1 DEF IInv, ClaimInv
<1>3. /\ f \in Chats /\ f.seen = count /\ f.diagnoses = fc.diagnoses /\ f.patches = fc.patches
      /\ f.rip_table = fc.rip_table /\ f.rip_next = fc.rip_next /\ f.off = fc.off
  BY <1>1 DEF Chats
<1>4. ~ struck
  BY <1>1 DEF IInv, StruckInv, ChatType
<1>5. CASE /\ fc' \in {f, [f EXCEPT !.off = TRUE]}
           /\ UNCHANGED <<before, asked, requests>>
  <2>1. /\ fc' \in Chats /\ fc'.seen = count /\ fc'.diagnoses = fc.diagnoses
        /\ fc'.patches = fc.patches /\ fc'.rip_table = fc.rip_table
        /\ fc'.rip_next = fc.rip_next
    <3> HIDE DEF f
    <3>1. CASE fc' = f
      BY <1>3, <3>1
    <3>2. CASE fc' = [f EXCEPT !.off = TRUE]
      BY <1>3, <3>2 DEF Chats
    <3> QED
      BY <1>5, <3>1, <3>2
  <2> HIDE DEF f
  <2>2. ChatType'
    BY <1>1, <1>5, <2>1 DEF IInv, ChatType
  <2>3. ClaimInv' /\ BudgetInv' /\ TableInv' /\ StruckInv'
    BY <1>1, <1>2, <1>4, <1>5, <2>1 DEF IInv, ClaimInv, BudgetInv, TableInv, StruckInv
  <2> QED
    BY <2>2, <2>3 DEF IInv
<1>6. CASE /\ f.diagnoses < FAULTCHAT_MAX_DIAGNOSES
           /\ rip_tries(f, last) < FAULTCHAT_MAX_PER_RIP
           /\ \/ fc' = g /\ UNCHANGED <<before, asked, requests>>
              \/ /\ fc' = [g EXCEPT !.busy = TRUE]
                 /\ before' = count
                 /\ asked' = [asked EXCEPT ![last] = @ + 1]
                 /\ requests' = requests + 1
  <2>1. /\ d \in Chats /\ d.diagnoses = fc.diagnoses + 1 /\ d.seen = count
        /\ d.patches = fc.patches /\ d.rip_table = fc.rip_table /\ d.rip_next = fc.rip_next
        /\ fc.diagnoses \in Nat /\ fc.patches \in Nat /\ fc.rip_next \in Nat
    <3>1. fc.diagnoses \in Nat /\ fc.patches \in Nat /\ fc.rip_next \in Nat
      BY <1>1 DEF Chats
    <3>2. fc.diagnoses + 1 \in Nat
      BY <3>1
    <3>3. d = [f EXCEPT !.diagnoses = fc.diagnoses + 1]
      BY <1>3
    <3> HIDE DEF f, d
    <3> QED
      BY <1>3, <3>1, <3>2, <3>3 DEF Chats
  <2>2. rip_tries(d, last) = rip_tries(f, last)
    BY <1>3, <2>1 DEF rip_tries, RipSlots
  <2>3. fc.rip_next < FAULTCHAT_RIP_SLOTS
    BY <1>3, <1>6, <2>1 DEF IInv, BudgetInv
  <2> HIDE DEF d, f
  <2>4. /\ g \in Chats
        /\ g.rip_next <= fc.rip_next + 1
        /\ TableOK(g.rip_table, g.rip_next, [asked EXCEPT ![last] = @ + 1])
        /\ g.seen = count /\ g.diagnoses = fc.diagnoses + 1 /\ g.patches = fc.patches
    <3>1. TableOK(d.rip_table, d.rip_next, asked) /\ d.rip_next < FAULTCHAT_RIP_SLOTS
      BY <2>1, <2>3 DEF IInv, TableInv
    <3>2. /\ g \in Chats
          /\ g.rip_next <= d.rip_next + 1
          /\ TableOK(g.rip_table, g.rip_next, [asked EXCEPT ![last] = @ + 1])
          /\ g.seen = d.seen /\ g.diagnoses = d.diagnoses /\ g.patches = d.patches
      <4>1. g = rip_bump(d, last) /\ rip_tries(d, last) < FAULTCHAT_MAX_PER_RIP
        BY <1>6, <2>2
      <4>2. d \in Chats /\ asked \in [Addrs -> Nat] /\ last \in Addrs
        BY <1>1, <1>2, <2>1
      <4> QED
        BY <3>1, <4>1, <4>2, BumpKeeps
    <3> QED
      BY <2>1, <3>2
  <2> HIDE DEF g
  <2>5. /\ fc' \in Chats /\ fc'.rip_table = g.rip_table /\ fc'.rip_next = g.rip_next
        /\ fc'.seen = count /\ fc'.diagnoses = fc.diagnoses + 1 /\ fc'.patches = fc.patches
    <3>1. CASE fc' = g
      BY <2>4, <3>1
    <3>2. CASE fc' = [g EXCEPT !.busy = TRUE]
      BY <2>4, <3>2 DEF Chats
    <3> QED
      BY <1>6, <3>1, <3>2
  <2>6. TableInv'
    <3>1. CASE asked' = asked
      <4>1. g.rip_table \in Table /\ g.rip_next \in Nat
        BY <2>4 DEF Chats
      <4> QED
        BY <1>1, <1>2, <2>4, <2>5, <3>1, <4>1, CountedUnsent DEF TableInv
    <3>2. CASE asked' = [asked EXCEPT ![last] = @ + 1]
      BY <2>4, <2>5, <3>2 DEF TableInv
    <3> QED
      BY <1>6, <3>1, <3>2
  <2>7. ChatType'
    BY <1>1, <1>2, <1>6, <2>5 DEF IInv, ChatType
  <2>8. BudgetInv'
    <3>1. g.rip_next \in Nat
      BY <2>4 DEF Chats
    <3> QED
      BY <1>1, <1>3, <1>6, <2>1, <2>4, <2>5, <3>1 DEF IInv, ChatType, BudgetInv
  <2>9. ClaimInv'
    BY <1>1, <1>2, <1>6, <2>5 DEF IInv, ClaimInv
  <2>10. StruckInv'
    BY <1>1, <1>4 DEF StruckInv
  <2> QED
    BY <2>6, <2>7, <2>8, <2>9, <2>10 DEF IInv
<1> QED
  BY <1>5, <1>6 DEF faultchat_pump

(* A reply is applied within the patch budget, and only when no fault came *)
(* after the request; otherwise the module goes off.                       *)
LEMMA AnswerIInv == ASSUME IInv, Answer PROVE IInv'
<1> USE RipSlotsAssumption
<1>1. /\ fc \in Chats /\ before # 0 /\ before' = 0
      /\ UNCHANGED <<count, last, asked, requests, struck>>
  BY DEF IInv, ChatType, Answer
<1>2. /\ Idle \in Chats /\ Idle.seen = fc.seen /\ Idle.diagnoses = fc.diagnoses
      /\ Idle.patches = fc.patches /\ Idle.rip_table = fc.rip_table
      /\ Idle.rip_next = fc.rip_next
  BY <1>1 DEF Idle, Chats
<1>3. CASE /\ \/ fc' = Idle /\ count = before
              \/ fc' = latch_off(Idle) /\ count # before
           /\ written' = written
           /\ plan' \in BOOLEAN
  <2>1. /\ fc' \in Chats /\ fc'.seen = fc.seen /\ fc'.diagnoses = fc.diagnoses
        /\ fc'.patches = fc.patches /\ fc'.rip_table = fc.rip_table
        /\ fc'.rip_next = fc.rip_next
    BY <1>2, <1>3 DEF latch_off, Chats
  <2>2. struck => fc'.off
    <3>1. struck => fc' = latch_off(Idle)
      BY <1>1, <1>3 DEF IInv, StruckInv
    <3> QED
      BY <1>2, <3>1 DEF latch_off, Chats
  <2>3. ChatType'
    BY <1>1, <1>3, <2>1 DEF IInv, ChatType
  <2>4. ClaimInv' /\ BudgetInv' /\ TableInv'
    BY <1>1, <1>3, <2>1 DEF IInv, ChatType, ClaimInv, BudgetInv, TableInv
  <2>5. StruckInv'
    BY <1>1, <2>2 DEF StruckInv
  <2> QED
    BY <2>3, <2>4, <2>5 DEF IInv
<1>4. CASE /\ fc.patches < FAULTCHAT_MAX_PATCHES
           /\ fc' = [Idle EXCEPT !.patches = fc.patches + 1]
           /\ written' \in {written, written + 1}
           /\ plan' \in BOOLEAN
           /\ count = before
  <2>1. fc.patches \in Nat /\ fc.patches + 1 \in Nat
    BY <1>1 DEF Chats
  <2>2. /\ fc' \in Chats /\ fc'.seen = fc.seen /\ fc'.diagnoses = fc.diagnoses
        /\ fc'.patches = fc.patches + 1 /\ fc'.rip_table = fc.rip_table
        /\ fc'.rip_next = fc.rip_next
    BY <1>2, <1>4, <2>1 DEF Chats
  <2>3. ~ struck
    BY <1>1, <1>4 DEF IInv, StruckInv
  <2>4. ChatType'
    <3>1. plan' \in BOOLEAN
      BY <1>4, Zenon DEF IInv, ChatType
    <3>2. written' \in Nat
      BY <1>4 DEF IInv, ChatType
    <3> QED
      BY <1>1, <2>2, <3>1, <3>2 DEF IInv, ChatType
  <2>5. ClaimInv' /\ TableInv' /\ StruckInv'
    <3>1. ClaimInv'
      BY <1>1, <2>2 DEF IInv, ChatType, ClaimInv
    <3>2. TableInv'
      BY <1>1, <2>2 DEF IInv, TableInv
    <3>3. StruckInv'
      BY <1>1, <2>3 DEF StruckInv
    <3> QED
      BY <3>1, <3>2, <3>3
  <2>6. BudgetInv'
    BY <1>1, <1>4, <2>1, <2>2 DEF IInv, ChatType, BudgetInv
  <2> QED
    BY <2>4, <2>5, <2>6 DEF IInv
<1>5. CASE count # before
  <2>1. plan' = plan /\ plan \in BOOLEAN
    BY <1>5 DEF Answer, IInv, ChatType
  <2> QED
    BY <1>3, <1>5, <2>1 DEF Answer
<1>6. CASE count = before /\ Unanswered
  <2>1. plan' = plan /\ plan \in BOOLEAN
    BY <1>6 DEF Unanswered, IInv, ChatType
  <2> QED
    BY <1>3, <1>6, <2>1 DEF Unanswered
<1>7. CASE count = before /\ Obey
  <2>1. plan' \in BOOLEAN
    BY <1>7 DEF Obey, faultchat_apply_fix
  <2>2. CASE fc' = Idle /\ UNCHANGED <<code, written>>
    BY <1>3, <1>7, <2>1, <2>2
  <2>3. CASE faultchat_apply_patch /\ ~ fc.patches >= FAULTCHAT_MAX_PATCHES
    <3>1. PICK accepted \in BOOLEAN :
            /\ Counted(accepted)
            /\ written' = written \/ (accepted /\ written' = written + 1)
      <4>1. CASE fault_patch_apply /\ Counted(rc' = "OK")
                 /\ written' = IF rc' = "OK" THEN written + 1 ELSE written
        BY <4>1
      <4>2. CASE fault_patch_revert /\ Counted(g_patch' # g_patch) /\ UNCHANGED written
        BY <4>2
      <4>3. CASE Counted(TRUE) /\ UNCHANGED written
        BY <4>3
      <4> QED
        BY <2>3, <4>1, <4>2, <4>3 DEF faultchat_apply_patch
    <3>2. CASE accepted
      <4>1. fc.patches < FAULTCHAT_MAX_PATCHES
        BY <1>1, <2>3 DEF Chats
      <4>2. fc' = [Idle EXCEPT !.patches = fc.patches + 1]
        BY <1>2, <3>1, <3>2 DEF Counted
      <4> QED
        BY <1>4, <1>7, <2>1, <3>1, <4>1, <4>2
    <3>3. CASE ~ accepted
      <4>1. fc' = [Idle EXCEPT !.patches = Idle.patches]
        BY <3>1, <3>3 DEF Counted
      <4>2. fc' = Idle
        BY <1>2, <4>1 DEF Chats
      <4> QED
        BY <1>3, <1>7, <2>1, <3>1, <3>3, <4>2
    <3> QED
      BY <3>2, <3>3
  <2>4. CASE faultchat_apply_patch /\ fc.patches >= FAULTCHAT_MAX_PATCHES
    BY <2>2, <2>4 DEF faultchat_apply_patch
  <2> QED
    BY <1>7, <2>2, <2>3, <2>4 DEF Obey
<1> QED
  BY <1>5, <1>6, <1>7 DEF Answer

(* Switching the module on or off, and the tools used by hand, change no   *)
(* counter.                                                                *)
LEMMA ByHandIInv ==
  ASSUME IInv, t_fault_patch \/ t_fault_recover \/ \E on \in BOOLEAN : faultchat_enable(on)
  PROVE  IInv'
<1>1. CASE t_fault_patch \/ t_fault_recover
  <2>1. plan' \in BOOLEAN
    BY <1>1 DEF IInv, ChatType, t_fault_patch, t_fault_recover
  <2>2. UNCHANGED <<count, last, fc, before, asked, requests, written, struck>>
    BY <1>1 DEF t_fault_patch, t_fault_recover
  <2> QED
    BY <2>1, <2>2 DEF IInv, ChatType, ClaimInv, BudgetInv, TableInv, StruckInv
<1>2. ASSUME NEW on \in BOOLEAN, faultchat_enable(on) PROVE IInv'
  <2>1. /\ fc' \in Chats /\ fc'.seen = fc.seen /\ fc'.diagnoses = fc.diagnoses
        /\ fc'.patches = fc.patches /\ fc'.rip_table = fc.rip_table
        /\ fc'.rip_next = fc.rip_next /\ fc'.off = fc.off
    BY <1>2 DEF IInv, ChatType, Chats, faultchat_enable
  <2>2. UNCHANGED <<count, last, plan, before, asked, requests, written, struck>>
    BY <1>2 DEF faultchat_enable
  <2> QED
    BY <2>1, <2>2 DEF IInv, ChatType, ClaimInv, BudgetInv, TableInv, StruckInv
<1> QED
  BY <1>1, <1>2

(* Every step of the conversation keeps the invariant.                     *)
LEMMA NextIInv == IInv /\ [ChatNext]_allvars => IInv'
<1> SUFFICES ASSUME IInv, [ChatNext]_allvars PROVE IInv'
  OBVIOUS
<1>1. CASE UNCHANGED allvars
  BY <1>1 DEF allvars, IInv, ChatType, ClaimInv, BudgetInv, TableInv, StruckInv
<1>2. CASE \E rip \in Addrs : Survive(rip)
  BY <1>2, SurviveIInv
<1>3. CASE faultchat_pump
  BY <1>3, PumpIInv
<1>4. CASE Answer
  BY <1>4, AnswerIInv
<1>5. CASE t_fault_patch \/ t_fault_recover \/ \E on \in BOOLEAN : faultchat_enable(on)
  BY <1>5, ByHandIInv
<1> QED
  BY <1>1, <1>2, <1>3, <1>4, <1>5 DEF ChatNext

(* IInv is an invariant of the conversation.                               *)
THEOREM Invariance == ChatSpec => []IInv
BY InitIInv, NextIInv, PTL DEF ChatSpec

(* In one boot, faultchat_pump asks about no address more than             *)
(* FAULTCHAT_MAX_PER_RIP times and sends no more than                      *)
(* FAULTCHAT_MAX_DIAGNOSES requests, and faultchat_apply_patch writes no   *)
(* more than FAULTCHAT_MAX_PATCHES patches.                                *)
THEOREM UnattendedBoundedAlways == ChatSpec => []UnattendedBounded
<1>1. IInv => UnattendedBounded
  <2> SUFFICES ASSUME IInv PROVE UnattendedBounded
    OBVIOUS
  <2> USE RipSlotsAssumption
  <2>1. fc.rip_table \in Table /\ fc.diagnoses \in Nat /\ fc.patches \in Nat
    BY DEF IInv, ChatType, Chats
  <2>2. ASSUME NEW a \in Addrs PROVE asked[a] <= FAULTCHAT_MAX_PER_RIP
    <3>1. asked[a] \in Nat
      BY DEF IInv, ChatType
    <3>2. CASE asked[a] > 0
      <4>1. PICK i \in Indices : asked[a] <= fc.rip_table[i].tries
        BY <3>2 DEF IInv, TableInv, TableOK
      <4>2. fc.rip_table[i].tries <= FAULTCHAT_MAX_PER_RIP /\ fc.rip_table[i].tries \in Nat
        BY <2>1 DEF IInv, TableInv, TableOK, Table, Counter
      <4> QED
        BY <3>1, <4>1, <4>2
    <3>3. CASE ~ asked[a] > 0
      BY <3>1, <3>3
    <3> QED
      BY <3>2, <3>3
  <2>3. requests <= FAULTCHAT_MAX_DIAGNOSES /\ written <= FAULTCHAT_MAX_PATCHES
    BY <2>1 DEF IInv, ChatType, BudgetInv
  <2> QED
    BY <2>2, <2>3 DEF UnattendedBounded
<1> QED
  BY <1>1, Invariance, PTL

(* Once the machine has faulted with a request in flight, Answer and       *)
(* faultchat_pump do nothing on the model's word until the next boot.      *)
THEOREM AnswersForThisMachine == ChatSpec => AnswerForThisMachine
<1>1. IInv /\ [ChatNext]_allvars =>
        [struck => /\ requests' = requests /\ written' = written
                   /\ before # 0 /\ before' = 0 => UNCHANGED <<code, plan>>]_allvars
  <2> SUFFICES ASSUME IInv, [ChatNext]_allvars, struck
               PROVE  /\ requests' = requests /\ written' = written
                      /\ before # 0 /\ before' = 0 => UNCHANGED <<code, plan>>
    BY DEF allvars
  <2>1. CASE UNCHANGED allvars
    BY <2>1 DEF allvars
  <2>2. CASE \E rip \in Addrs : Survive(rip)
    BY <2>2 DEF Survive
  <2>3. CASE faultchat_pump
    BY <2>3 DEF faultchat_pump, IInv, StruckInv
  <2>4. CASE Answer
    BY <2>4 DEF Answer, IInv, StruckInv
  <2>5. CASE t_fault_patch \/ t_fault_recover \/ \E on \in BOOLEAN : faultchat_enable(on)
    BY <2>5 DEF t_fault_patch, t_fault_recover, faultchat_enable
  <2> QED
    BY <2>1, <2>2, <2>3, <2>4, <2>5 DEF ChatNext
<1> QED
  BY <1>1, Invariance, PTL DEF ChatSpec, AnswerForThisMachine

-----------------------------------------------------------------------------
(* The conversation edits .text only through fault_patch: the model's      *)
(* replies and the two tools make steps of CodePatch or none.              *)
LEMMA ChatStepPatches == [ChatNext]_allvars => [Next]_vars
<1> SUFFICES ASSUME [ChatNext]_allvars PROVE [Next]_vars
  OBVIOUS
<1>1. CASE UNCHANGED allvars
  BY <1>1 DEF allvars, code, vars
<1>2. CASE (\E rip \in Addrs : Survive(rip)) \/ faultchat_pump \/ t_fault_recover
             \/ \E on \in BOOLEAN : faultchat_enable(on)
  BY <1>2 DEF Survive, faultchat_pump, t_fault_recover, faultchat_enable, code, vars
<1>3. CASE t_fault_patch
  BY <1>3 DEF t_fault_patch, Next
<1>4. CASE Answer
  <2>1. UNCHANGED code \/ Obey
    BY <1>4 DEF Answer, Unanswered
  <2>2. CASE UNCHANGED code
    BY <2>2 DEF code, vars
  <2>3. CASE Obey
    <3>1. UNCHANGED code \/ faultchat_apply_patch
      BY <2>3 DEF Obey
    <3>2. UNCHANGED code \/ Next
      BY <3>1 DEF faultchat_apply_patch, Next
    <3> QED BY <3>2 DEF code, vars
  <2> QED BY <2>1, <2>2, <2>3
<1> QED BY <1>1, <1>2, <1>3, <1>4 DEF ChatNext

(* The fault conversation implements the rules of code patching, whatever  *)
(* the model replies: faultchat_apply_patch has no way around patch_gate.  *)
THEOREM ChatImplementsPatching == ChatSpec => Spec
<1>1. ChatInit => Init
  BY DEF ChatInit
<1> QED BY <1>1, ChatStepPatches, PTL DEF ChatSpec, Spec

(* So under a conversation, too, the kernel's code is what was linked plus *)
(* the live patches, and all of them can be taken back.                    *)
THEOREM CodeUnderConversation == ChatSpec => []LinkedPlusLive
BY ChatImplementsPatching, LinkedPlusLiveAlways, PTL

-----------------------------------------------------------------------------
(* Fault handling.                                                         *)

Fixes == {"TRAP", "REFAULT", "NO_PLAN", "VECTOR", "REFUSED", "EXHAUSTED", "WRONG_VECTOR",
          "OK", "NO_CODE", "UNDECODABLE", "RIP_WINDOW"}
Escapes == {"VECTOR", "NO_GUARD", "GUARD_SPENT", "GUARD_CORRUPT", "GUARD_FOREIGN", "ESCAPED"}
GoesOn == {"OK", "TRAP", "ESCAPED"}

Records == [seq : Nat, vector : Vectors, rip : Rips,
            fix : Fixes \cup Escapes \cup {"unset"}, recovered : BOOLEAN]
Entries == [vector : Vectors, rip : Rips, became : GoesOn \cup {"?", "halted"}]

(* Types of what FaultTypeOK leaves open.                                  *)
HandlerType ==
  /\ in_handler \in Frames \cup {NULL}
  /\ g_ring \in [0 .. FAULT_RING_SIZE - 1 -> Records \cup {NULL}]
  /\ log \in Seq(Entries)
  /\ g_plan = NULL \/ g_plan \in [action : {"REFUSE", "SKIP", "SET_REG", "SET_REG_SKIP", "SET_RIP"},
                                  scope : {"any", "DE", "BP"}, uses : Nat]
  /\ g_refaults \in Nat

(* Every slot of the guard stack below the top, or below the place a guard *)
(* will pop to, has been written.                                          *)
WrittenInv ==
  /\ \A i \in 0 .. g_gdepth - 1 : g_guards[i] \in GuardAddrs
  /\ \A a \in GuardAddrs : \A i \in 0 .. mem[a].depth - 1 : g_guards[i] \in GuardAddrs

(* A guard that still has its magic was armed on the stack it lies on.     *)
HomeInv ==
  /\ cpu = current
  /\ \A a \in GuardAddrs : mem[a].magic => mem[a].stack = a[1]

(* With one arming fiber the guard stack is its live calls, all intact but *)
(* for what a stray store did to their contexts.                           *)
OneInv ==
  \A f \in Fibers : armers = {f} =>
    /\ g_gdepth = nest[f]
    /\ \A g \in Fibers \ {f} : nest[g] = 0
    /\ \A i \in 1 .. nest[f] : /\ g_guards[i - 1] = <<f, i>>
                               /\ mem[<<f, i>>].depth = i - 1
                               /\ mem[<<f, i>>].magic

(* A fault being handled is the newest one, and nothing is decided of it.  *)
HandlerInv ==
  halt = "no" /\ in_handler # NULL =>
    /\ g_count > 0
    /\ log[g_count] = [vector |-> in_handler.vector, rip |-> in_handler.rip, became |-> "?"]

(* Record `r` is a true account of the i-th fault, `e` in the history.     *)
Tells(r, i, e) ==
  /\ r \in Records
  /\ r.seq = i
  /\ r.vector = e.vector
  /\ r.rip = e.rip
  /\ r.recovered <=> e.became \in GoesOn
  /\ r.recovered => r.fix = e.became

(* The last FAULT_RING_SIZE faults have theirs.                            *)
RingInv ==
  \A i \in 1 .. g_count : i > g_count - FAULT_RING_SIZE =>
    Tells(g_ring[(i - 1) % FAULT_RING_SIZE], i, log[i])

(* Faults decided so far.                                                  *)
Decided == IF in_handler = NULL THEN g_count ELSE g_count - 1

(* The re-fault counter is at least the length of the run of in-place      *)
(* recoveries of one address the history ends with.                        *)
RefaultInv ==
  halt = "no" =>
    \A i \in 1 .. Decided :
      (\A j \in i .. Decided : log[j].rip = log[i].rip /\ log[j].became = "OK") =>
        g_refault_rip = log[i].rip /\ g_refaults >= Decided - i + 1

(* The guard part of the state, and what is known of it.                   *)
GuardInv ==
  /\ armers \in ArmerSets
  /\ current \in Fibers
  /\ cpu \in Fibers
  /\ nest \in [Fibers -> 0 .. FRAMES_MAX]
  /\ mem \in [GuardAddrs -> Guard]
  /\ g_guards \in [0 .. FAULT_GUARD_DEPTH_MAX - 1 -> GuardAddrs \cup {NULL}]
  /\ g_gdepth \in 0 .. FAULT_GUARD_DEPTH_MAX
  /\ g_escapes \in 0 .. FAULT_ESCAPE_MAX
  /\ WrittenInv
  /\ HomeInv
  /\ OneInv

(* The record part of the state, and what is known of it.                  *)
RecordInv ==
  /\ g_count \in 0 .. FAULTS_MAX
  /\ Len(log) = g_count
  /\ HandlerType
  /\ HandlerInv
  /\ RingInv
  /\ RefaultInv
  /\ RecoveryLoopEnds

FInv == GuardInv /\ RecordInv

-----------------------------------------------------------------------------
(* A set of armers with one member is the singleton of a fiber.            *)
LEMMA TheArmer ==
  ASSUME OneArmer, armers \in ArmerSets
  PROVE  \E f \in Fibers : armers = {f}
<1>1. armers \in SUBSET Fibers
  BY CodeAssumption
<1>2. IsFiniteSet(armers)
  BY <1>1, CodeAssumption, FS_Subset
<1> QED
  BY <1>1, <1>2, FS_Singleton DEF OneArmer

(* The model's bound on live guarded calls keeps each stack's within it.   *)
LEMMA RoomForFrame ==
  ASSUME GuardInv, CallsLive < FRAMES_MAX
  PROVE  nest[cpu] < FRAMES_MAX
<1> DEFINE Nested == {a \in GuardAddrs : a[2] <= nest[a[1]]}
           Mine == {cpu} \X (1 .. FRAMES_MAX)
<1> SUFFICES ASSUME ~ nest[cpu] < FRAMES_MAX PROVE FALSE
  OBVIOUS
<1>1. nest[cpu] = FRAMES_MAX /\ cpu \in Fibers /\ FRAMES_MAX \in Nat \ {0}
  BY SizeAssumption DEF GuardInv
<1>2. Mine \subseteq Nested
  BY <1>1 DEF GuardAddrs
<1>3. IsFiniteSet(1 .. FRAMES_MAX) /\ Cardinality(1 .. FRAMES_MAX) = FRAMES_MAX
  BY <1>1, FS_Interval
<1>4. IsFiniteSet(Mine) /\ Cardinality(Mine) = FRAMES_MAX
  <2>1. IsFiniteSet({cpu}) /\ Cardinality({cpu}) = 1
    BY FS_Singleton
  <2>2. Cardinality(Mine) = 1 * FRAMES_MAX /\ IsFiniteSet(Mine)
    BY <1>3, <2>1, FS_Product, ZenonT(60)
  <2> QED
    BY <1>1, <2>2
<1>5. IsFiniteSet(Nested)
  <2>1. IsFiniteSet(GuardAddrs)
    BY <1>3, CodeAssumption, FS_Product DEF GuardAddrs
  <2>2. Nested \in SUBSET GuardAddrs
    OBVIOUS
  <2> QED
    BY <2>1, <2>2, FS_Subset
<1>6. Cardinality(Mine) <= Cardinality(Nested)
  BY <1>2, <1>5, FS_Subset
<1>7. Cardinality(Nested) \in Nat
  BY <1>5, FS_CardinalityType
<1> QED
  BY <1>1, <1>4, <1>6, <1>7 DEF CallsLive

(* Arming, running and leaving guarded calls, and a switch of fibers,      *)
(* leave the records alone.                                                *)
LEMMA RecordsKept ==
  ASSUME RecordInv, UNCHANGED <<records, g_refault_rip, g_refaults, in_handler>>,
         halt' \in {halt, "DOUBLE", "LOST"}, g_plan' \in {g_plan, NULL} \cup Plans
  PROVE  RecordInv'
<1> USE DEF RecordInv, records
<1>1. HandlerType'
  BY PlanAssumption, SizeAssumption DEF HandlerType
<1>2. HandlerInv' /\ RefaultInv'
  BY DEF HandlerInv, RefaultInv, Decided
<1>3. RingInv' /\ RecoveryLoopEnds'
  BY DEF RingInv, RecoveryLoopEnds
<1> QED
  BY <1>1, <1>2, <1>3

(* The guard part does not depend on the records.                          *)
LEMMA GuardsKept ==
  ASSUME GuardInv, UNCHANGED <<armers, current, cpu, nest, mem, guards>>
  PROVE  GuardInv'
BY DEF GuardInv, WrittenInv, HomeInv, OneInv, guards

(* At boot nothing is armed and nothing has faulted.                       *)
LEMMA InitFInv == FaultInit => FInv
<1> SUFFICES ASSUME FaultInit PROVE GuardInv /\ RecordInv
  BY DEF FInv
<1> USE SizeAssumption, CodeAssumption DEF FaultInit
<1>1. GuardInv
  <2>1. mem \in [GuardAddrs -> Guard]
    BY DEF Guard
  <2>2. WrittenInv /\ HomeInv /\ OneInv
    BY DEF WrittenInv, HomeInv, OneInv
  <2>3. /\ nest \in [Fibers -> 0 .. FRAMES_MAX]
        /\ g_gdepth \in 0 .. FAULT_GUARD_DEPTH_MAX
        /\ g_escapes \in 0 .. FAULT_ESCAPE_MAX
    OBVIOUS
  <2>4. g_guards \in [0 .. FAULT_GUARD_DEPTH_MAX - 1 -> GuardAddrs \cup {NULL}]
    OBVIOUS
  <2> QED
    BY <2>1, <2>2, <2>3, <2>4 DEF GuardInv
<1>2. RecordInv
  BY DEF RecordInv, HandlerType, HandlerInv, RingInv, RefaultInv, Decided, RecoveryLoopEnds
<1> QED
  BY <1>1, <1>2

(* The scheduler moves the CPU and `current` together.                     *)
LEMMA YieldFInv == ASSUME FInv, Yield PROVE FInv'
<1>1. GuardInv'
  BY DEF FInv, GuardInv, Yield, WrittenInv, HomeInv, OneInv, guards
<1>2. RecordInv'
  BY RecordsKept DEF FInv, Yield, policy
<1> QED
  BY <1>1, <1>2 DEF FInv

(* A guard is armed on the running stack, above every live one of it.      *)
LEMMA RunFInv == ASSUME FInv, fault_guard_run PROVE FInv'
<1> DEFINE a == <<cpu, nest[cpu] + 1>>
           g == [magic |-> TRUE, sound |-> TRUE, depth |-> g_gdepth, code |-> 0, stack |-> current]
<1> USE SizeAssumption, CodeAssumption
<1>1. GuardInv
  BY DEF FInv
<1>2. nest[cpu] + 1 \in 1 .. FRAMES_MAX
  BY <1>1, RoomForFrame, SMTT(30) DEF GuardInv, fault_guard_run
<1>3. a \in GuardAddrs
  BY <1>1, <1>2 DEF GuardAddrs, GuardInv
<1>4. g \in Guard
  BY <1>1 DEF Guard, GuardInv, fault_guard_run
<1>5. /\ cpu \in armers /\ g_gdepth \in 0 .. FAULT_GUARD_DEPTH_MAX - 1
      /\ mem' = [mem EXCEPT ![a] = g]
      /\ g_guards' = [g_guards EXCEPT ![g_gdepth] = a]
      /\ g_gdepth' = g_gdepth + 1
      /\ nest' = [nest EXCEPT ![cpu] = @ + 1]
      /\ UNCHANGED <<armers, current, cpu, g_escapes>>
  BY <1>1 DEF fault_guard_run, GuardInv
<1> HIDE DEF g
<1>6. WrittenInv'
  <2> USE <1>1, <1>3, <1>4, <1>5 DEF GuardInv, WrittenInv
  <2>1. g.depth = g_gdepth
    BY DEF g
  <2>2. \A i \in 0 .. g_gdepth' - 1 : g_guards'[i] \in GuardAddrs
    BY SMTT(30)
  <2>3. ASSUME NEW b \in GuardAddrs, NEW i \in 0 .. mem'[b].depth - 1
        PROVE  g_guards'[i] \in GuardAddrs
    <3>1. CASE b = a
      BY <2>1, <2>2, <3>1, SMTT(30)
    <3>2. CASE b # a
      <4>1. mem'[b] = mem[b] /\ mem[b] \in Guard
        BY <3>2
      <4>2. mem[b].depth \in 0 .. FAULT_GUARD_DEPTH_MAX - 1
        BY <4>1 DEF Guard
      <4>3. i \in 0 .. mem[b].depth - 1
        BY <4>1
      <4>4. i \in 0 .. FAULT_GUARD_DEPTH_MAX - 1
        BY <4>2, <4>3, SMTT(30)
      <4>5. g_guards[i] \in GuardAddrs
        BY <4>3
      <4> QED
        BY <4>4, <4>5
    <3> QED
      BY <3>1, <3>2
  <2> HIDE <1>1, <1>3, <1>4, <1>5
  <2> QED
    BY <2>2, <2>3
<1>7. HomeInv'
  BY <1>1, <1>3, <1>5 DEF GuardInv, HomeInv, g
<1>8. OneInv'
  <2> SUFFICES ASSUME NEW f \in Fibers, armers' = {f}
               PROVE  /\ g_gdepth' = nest'[f]
                      /\ \A h \in Fibers \ {f} : nest'[h] = 0
                      /\ \A i \in 1 .. nest'[f] : /\ g_guards'[i - 1] = <<f, i>>
                                                  /\ mem'[<<f, i>>].depth = i - 1
                                                  /\ mem'[<<f, i>>].magic
    BY DEF OneInv
  <2>1. cpu = f
    BY <1>5
  <2>9. /\ g_gdepth = nest[f]
        /\ \A h \in Fibers \ {f} : nest[h] = 0
        /\ \A i \in 1 .. nest[f] : /\ g_guards[i - 1] = <<f, i>>
                                   /\ mem[<<f, i>>].depth = i - 1
                                   /\ mem[<<f, i>>].magic
    BY <1>1, <1>5 DEF GuardInv, OneInv
  <2>2. nest'[f] = nest[f] + 1 /\ nest[f] \in Nat
    BY <1>1, <1>5, <2>1 DEF GuardInv
  <2>3. \A h \in Fibers \ {f} : nest'[h] = 0
    BY <1>1, <1>5, <2>1, <2>9 DEF GuardInv
  <2>4. ASSUME NEW i \in 1 .. nest'[f]
        PROVE  /\ g_guards'[i - 1] = <<f, i>>
               /\ mem'[<<f, i>>].depth = i - 1
               /\ mem'[<<f, i>>].magic
    <3>1. CASE i = nest[f] + 1
      BY <1>1, <1>3, <1>5, <2>1, <2>2, <2>9, <3>1, SMTT(30) DEF GuardInv, g
    <3>2. CASE i # nest[f] + 1
      <4>1. i \in 1 .. nest[f] /\ <<f, i>> # a /\ <<f, i>> \in GuardAddrs
        BY <1>1, <2>1, <2>2, <3>2, SMTT(30) DEF GuardInv, GuardAddrs
      <4>2. mem'[<<f, i>>] = mem[<<f, i>>]
        BY <1>1, <1>5, <4>1 DEF GuardInv
      <4>3. g_guards'[i - 1] = g_guards[i - 1]
        BY <1>1, <1>5, <2>1, <2>2, <2>9, <4>1, SMTT(30) DEF GuardInv
      <4> QED
        BY <2>9, <4>1, <4>2, <4>3
    <3> QED
      BY <3>1, <3>2
  <2> QED
    BY <1>5, <2>2, <2>3, <2>4, <2>9
<1>9. GuardInv'
  BY <1>1, <1>2, <1>3, <1>4, <1>5, <1>6, <1>7, <1>8, SMTT(30) DEF GuardInv
<1>10. RecordInv'
  BY RecordsKept DEF FInv, fault_guard_run, policy
<1> QED
  BY <1>9, <1>10 DEF FInv

(* Leaving a guarded call, by returning or by an escape: with one arming   *)
(* fiber it must be that fiber's innermost.                                *)
LEMMA TailKeeps ==
  ASSUME GuardInv, NEW a \in GuardAddrs, NEW m \in [GuardAddrs -> Guard],
         \A b \in GuardAddrs : /\ m[b].depth = mem[b].depth
                               /\ m[b].magic = mem[b].magic
                               /\ m[b].stack = mem[b].stack,
         GuardTail(a, m),
         \A f \in Fibers : armers = {f} => a = <<f, nest[f]>>,
         UNCHANGED <<armers, current, cpu, g_guards>>,
         g_escapes' \in 0 .. FAULT_ESCAPE_MAX
  PROVE  GuardInv'
<1> USE SizeAssumption
<1>1. /\ g_gdepth' = mem[a].depth
      /\ mem' = [m EXCEPT ![a].magic = FALSE]
      /\ nest' = [nest EXCEPT ![a[1]] = a[2] - 1]
      /\ mem[a] \in Guard
      /\ nest \in [Fibers -> 0 .. FRAMES_MAX]
  BY DEF GuardTail, GuardInv
<1>2. a[1] \in Fibers /\ a[2] \in 1 .. FRAMES_MAX /\ a = <<a[1], a[2]>>
  BY DEF GuardAddrs
<1>3. \A b \in GuardAddrs : /\ mem'[b].depth = mem[b].depth
                            /\ mem'[b].stack = mem[b].stack
                            /\ mem'[b].magic => mem[b].magic
                            /\ b # a => mem'[b].magic = mem[b].magic
  BY <1>1 DEF Guard
<1>4. mem' \in [GuardAddrs -> Guard]
  BY <1>1 DEF Guard
<1>5. nest' \in [Fibers -> 0 .. FRAMES_MAX]
  BY <1>1, <1>2
<1>6. g_gdepth' \in 0 .. FAULT_GUARD_DEPTH_MAX
  BY <1>1 DEF Guard
<1>7. WrittenInv'
  <2>1. \A i \in 0 .. g_gdepth' - 1 : g_guards'[i] \in GuardAddrs
    BY <1>1 DEF GuardInv, WrittenInv
  <2>2. \A b \in GuardAddrs : \A i \in 0 .. mem'[b].depth - 1 : g_guards'[i] \in GuardAddrs
    BY <1>3 DEF GuardInv, WrittenInv
  <2> QED
    BY <2>1, <2>2 DEF WrittenInv
<1>8. HomeInv'
  BY <1>3 DEF GuardInv, HomeInv
<1>9. OneInv'
  <2> SUFFICES ASSUME NEW f \in Fibers, armers' = {f}
               PROVE  /\ g_gdepth' = nest'[f]
                      /\ \A h \in Fibers \ {f} : nest'[h] = 0
                      /\ \A i \in 1 .. nest'[f] : /\ g_guards'[i - 1] = <<f, i>>
                                                  /\ mem'[<<f, i>>].depth = i - 1
                                                  /\ mem'[<<f, i>>].magic
    BY DEF OneInv
  <2>1. /\ \A h \in Fibers \ {f} : nest[h] = 0
        /\ \A i \in 1 .. nest[f] : /\ g_guards[i - 1] = <<f, i>>
                                   /\ mem[<<f, i>>].depth = i - 1
                                   /\ mem[<<f, i>>].magic
    BY SMTT(30) DEF GuardInv, OneInv
  <2>2. a = <<f, nest[f]>> /\ nest[f] \in 1 .. FRAMES_MAX
    BY <1>2
  <2>3. nest'[f] = nest[f] - 1 /\ \A h \in Fibers \ {f} : nest'[h] = 0
    BY <1>1, <2>1, <2>2
  <2>4. g_gdepth' = nest[f] - 1
    BY <1>1, <2>1, <2>2
  <2>5. ASSUME NEW i \in 1 .. nest'[f]
        PROVE  /\ g_guards'[i - 1] = <<f, i>>
               /\ mem'[<<f, i>>].depth = i - 1
               /\ mem'[<<f, i>>].magic
    <3>1. i \in 1 .. nest[f] /\ i # nest[f] /\ <<f, i>> \in GuardAddrs /\ <<f, i>> # a
      BY <2>2, <2>3 DEF GuardAddrs
    <3> QED
      BY <1>3, <2>1, <3>1
  <2> QED
    BY <2>3, <2>4, <2>5
<1> QED
  BY <1>4, <1>5, <1>6, <1>7, <1>8, <1>9 DEF GuardInv

(* A body that returns pops its own guard.                                 *)
LEMMA ReturnFInv == ASSUME FInv, BodyReturns PROVE FInv'
<1>1. Here \in GuardAddrs
  BY SizeAssumption DEF FInv, GuardInv, BodyReturns, Here, GuardAddrs
<1>2. ASSUME NEW f \in Fibers, armers = {f} PROVE Here = <<f, nest[f]>>
  BY <1>2 DEF FInv, GuardInv, OneInv, BodyReturns, Here
<1>3. GuardInv'
  BY <1>1, <1>2, TailKeeps DEF FInv, GuardInv, BodyReturns
<1>4. RecordInv'
  BY RecordsKept DEF FInv, BodyReturns, policy
<1> QED
  BY <1>3, <1>4 DEF FInv

(* A stray store spoils a context, not the fields an escape decides by.    *)
LEMMA ScribbleFInv == ASSUME FInv, Scribble PROVE FInv'
<1>1. Here \in GuardAddrs
  BY SizeAssumption DEF FInv, GuardInv, Scribble, Here, GuardAddrs
<1>2. /\ mem' \in [GuardAddrs -> Guard]
      /\ \A b \in GuardAddrs : /\ mem'[b].depth = mem[b].depth
                               /\ mem'[b].magic = mem[b].magic
                               /\ mem'[b].stack = mem[b].stack
  <2>1. mem \in [GuardAddrs -> Guard] /\ mem' = [mem EXCEPT ![Here].sound = FALSE]
    BY DEF FInv, GuardInv, Scribble
  <2> DEFINE g == [mem[Here] EXCEPT !.sound = FALSE]
  <2>2. mem[Here] \in Guard
    BY <1>1, <2>1
  <2>3. g \in Guard /\ g.depth = mem[Here].depth /\ g.magic = mem[Here].magic
                     /\ g.stack = mem[Here].stack
    BY <2>2 DEF Guard
  <2>4. mem' = [b \in GuardAddrs |-> IF b = Here THEN g ELSE mem[b]]
    BY <1>1, <2>1
  <2> HIDE DEF g
  <2> QED BY <2>1, <2>3, <2>4
<1>3. WrittenInv' /\ HomeInv'
  BY <1>2 DEF FInv, GuardInv, WrittenInv, HomeInv, Scribble, guards
<1>4. OneInv'
  <2>1. \A f \in Fibers : \A i \in 1 .. nest[f] : <<f, i>> \in GuardAddrs
    BY SizeAssumption DEF FInv, GuardInv, GuardAddrs
  <2> QED
    BY <1>2, <2>1 DEF FInv, GuardInv, OneInv, Scribble, guards
<1>5. GuardInv'
  BY <1>2, <1>3, <1>4 DEF FInv, GuardInv, Scribble, guards
<1>6. RecordInv'
  BY RecordsKept DEF FInv, Scribble, policy
<1> QED
  BY <1>5, <1>6 DEF FInv

(* An escape that escape_allowed accepts goes to the running stack, and    *)
(* with one arming fiber to its innermost live call.                       *)
LEMMA EscapeHome ==
  ASSUME GuardInv, escape_allowed = "OK"
  PROVE  /\ Top \in GuardAddrs /\ Top[1] = current /\ g_escapes < FAULT_ESCAPE_MAX
         /\ \A f \in Fibers : armers = {f} =>
              f = current /\ nest[f] > 0 /\ Top = <<f, nest[f]>>
<1>1. /\ g_gdepth > 0 /\ g_escapes < FAULT_ESCAPE_MAX
      /\ mem[Top].magic /\ mem[Top].stack = current
  <2>1. escape_allowed = "OK" => /\ ~ g_gdepth <= 0 /\ ~ g_escapes >= FAULT_ESCAPE_MAX
                                 /\ mem[Top].magic /\ mem[Top].stack = current
    BY DEF escape_allowed
  <2> QED
    BY <2>1, SizeAssumption, SMT DEF GuardInv
<1>2. Top \in GuardAddrs
  BY <1>1, SizeAssumption DEF GuardInv, WrittenInv, Top
<1>3. Top[1] = current
  BY <1>1, <1>2 DEF GuardInv, HomeInv
<1>4. ASSUME NEW f \in Fibers, armers = {f}
      PROVE  nest[f] > 0 /\ Top = <<f, nest[f]>>
  <2>1. /\ g_gdepth = nest[f]
        /\ \A i \in 1 .. nest[f] : /\ g_guards[i - 1] = <<f, i>>
                                   /\ mem[<<f, i>>].depth = i - 1
                                   /\ mem[<<f, i>>].magic
    BY <1>4 DEF GuardInv, OneInv
  <2>2. nest[f] > 0 /\ nest[f] \in 1 .. nest[f]
    BY <1>1, <2>1 DEF GuardInv
  <2> QED
    BY <2>1, <2>2 DEF Top
<1> QED
  BY <1>1, <1>2, <1>3, <1>4

(* So the escape itself keeps the guard part.                              *)
LEMMA UnwindKeeps ==
  ASSUME GuardInv, escape_allowed = "OK", Unwind, UNCHANGED armers
  PROVE  GuardInv'
<1> DEFINE m == [mem EXCEPT ![Top].code = 1]
<1>1. /\ Top \in GuardAddrs /\ Top[1] = current /\ g_escapes < FAULT_ESCAPE_MAX
      /\ \A f \in Fibers : armers = {f} => Top = <<f, nest[f]>>
  BY EscapeHome
<1>2. m \in [GuardAddrs -> Guard]
  BY <1>1 DEF GuardInv, Guard
<1>3. \A b \in GuardAddrs : /\ m[b].depth = mem[b].depth
                            /\ m[b].magic = mem[b].magic
                            /\ m[b].stack = mem[b].stack
  BY <1>1 DEF GuardInv, Guard
<1>4. GuardTail(Top, m) /\ UNCHANGED <<current, g_guards>>
  BY DEF Unwind
<1>5. cpu' = cpu /\ g_escapes' \in 0 .. FAULT_ESCAPE_MAX
  BY <1>1, SizeAssumption DEF GuardInv, HomeInv, Unwind
<1> HIDE DEF m
<1> QED
  BY <1>1, <1>2, <1>3, <1>4, <1>5, TailKeeps

(* Giving up a guarded call without a fault.                               *)
LEMMA AbortFInv == ASSUME FInv, fault_guard_abort PROVE FInv'
<1>1. GuardInv'
  <2>1. CASE Unwind
    BY <2>1, UnwindKeeps DEF FInv, fault_guard_abort
  <2>2. CASE UNCHANGED <<current, cpu, nest, mem, guards>>
    BY <2>2, GuardsKept DEF FInv, fault_guard_abort
  <2> QED
    BY <2>1, <2>2 DEF fault_guard_abort
<1>2. RecordInv'
  BY RecordsKept DEF FInv, fault_guard_abort, policy
<1> QED
  BY <1>1, <1>2 DEF FInv

(* Arming and clearing a plan, and a fault inside the handler, touch       *)
(* neither the guards nor the history.                                     *)
LEMMA PlanFInv ==
  ASSUME FInv, fault_plan_arm \/ fault_plan_clear \/ FaultInHandler
  PROVE  FInv'
<1>1. GuardInv'
  BY GuardsKept DEF FInv, fault_plan_arm, fault_plan_clear, FaultInHandler
<1>2. RecordInv'
  BY RecordsKept DEF FInv, fault_plan_arm, fault_plan_clear, FaultInHandler, policy
<1> QED
  BY <1>1, <1>2 DEF FInv

(* A new fault takes the ring slot of the oldest record.                   *)
LEMMA NoteFInv == ASSUME FInv, isr_dispatch PROVE FInv'
<1> USE SizeAssumption, NullAssumption
<1>1. GuardInv'
  BY GuardsKept DEF FInv, isr_dispatch
<1>2. PICK fr \in Frames : in_handler' = fr /\ fault_note(fr)
  BY DEF isr_dispatch
<1> DEFINE r == [seq |-> g_count + 1, vector |-> fr.vector, rip |-> fr.rip,
                 fix |-> "unset", recovered |-> FALSE]
           e == [vector |-> fr.vector, rip |-> fr.rip, became |-> "?"]
<1>3. r.seq = g_count + 1 /\ ~ r.recovered /\ r.vector = e.vector /\ r.rip = e.rip
      /\ e.became = "?"
  OBVIOUS
<1>4. g_count \in Nat /\ r \in Records /\ e \in Entries
  BY DEF FInv, RecordInv, Frames, Records, Entries
<1>5. /\ g_count' = g_count + 1
      /\ g_ring' = [g_ring EXCEPT ![g_count % FAULT_RING_SIZE] = r]
      /\ log' = Append(log, e)
      /\ g_count + 1 \in 0 .. FAULTS_MAX
      /\ in_handler' = fr /\ fr # NULL /\ in_handler = NULL /\ halt = "no"
      /\ UNCHANGED <<policy, halt>>
  BY <1>2, <1>4 DEF fault_note, isr_dispatch, Running, FInv, RecordInv
<1> HIDE DEF r
<1>6. /\ log \in Seq(Entries) /\ Len(log) = g_count
      /\ g_ring \in [0 .. FAULT_RING_SIZE - 1 -> Records \cup {NULL}]
  BY DEF FInv, RecordInv, HandlerType
<1>7. /\ log' \in Seq(Entries) /\ Len(log') = g_count + 1
      /\ log'[g_count + 1] = e
      /\ \A i \in 1 .. g_count : log'[i] = log[i]
  BY <1>4, <1>5, <1>6
<1>8. HandlerType'
  BY <1>4, <1>5, <1>6, <1>7, SlotInRing DEF FInv, RecordInv, HandlerType, policy
<1>9. HandlerInv'
  BY <1>4, <1>5, <1>7 DEF HandlerInv
<1> HIDE DEF e
<1>10. RingInv'
  <2> SUFFICES ASSUME NEW i \in 1 .. g_count', i > g_count' - FAULT_RING_SIZE
               PROVE  Tells(g_ring'[(i - 1) % FAULT_RING_SIZE], i, log'[i])
    BY DEF RingInv
  <2>1. CASE i = g_count + 1
    <3>1. g_ring'[(i - 1) % FAULT_RING_SIZE] = r
      <4>1. g_count % FAULT_RING_SIZE \in 0 .. FAULT_RING_SIZE - 1
        BY <1>4, SlotInRing
      <4>2. i - 1 = g_count
        BY <1>4, <2>1
      <4> QED
        BY <1>5, <1>6, <4>1, <4>2
    <3>2. log'[i] = e /\ r.seq = i
      BY <1>3, <1>7, <2>1
    <3>3. e.became \notin GoesOn
      BY <1>3 DEF GoesOn
    <3>4. Tells(r, i, e)
      BY <1>3, <1>4, <3>2, <3>3, Zenon DEF Tells
    <3> QED
      BY <3>1, <3>2, <3>4
  <2>2. CASE i # g_count + 1
    <3>1. i \in 1 .. g_count /\ i > g_count - FAULT_RING_SIZE
      BY <1>4, <1>5, <2>2
    <3>1a. /\ i - 1 \in Nat /\ g_count \in Nat /\ FAULT_RING_SIZE \in Nat \ {0}
           /\ i - 1 < g_count /\ g_count < (i - 1) + FAULT_RING_SIZE
      BY <1>4, <1>5, <3>1, SMTT(30)
    <3>2. (i - 1) % FAULT_RING_SIZE # g_count % FAULT_RING_SIZE
      BY <3>1a, SlotsDistinct
    <3>3. (i - 1) % FAULT_RING_SIZE \in 0 .. FAULT_RING_SIZE - 1
      BY <1>4, <3>1, SlotInRing
    <3>4. g_ring'[(i - 1) % FAULT_RING_SIZE] = g_ring[(i - 1) % FAULT_RING_SIZE]
      BY <1>5, <1>6, <3>2, <3>3
    <3> QED
      BY <1>7, <3>1, <3>4 DEF FInv, RecordInv, RingInv
  <2> QED
    BY <2>1, <2>2
<1>11. RefaultInv'
  <2>1. Decided = g_count /\ Decided' = g_count
    BY <1>4, <1>5 DEF Decided
  <2> QED
    BY <1>5, <1>7, <2>1, SMTT(30) DEF FInv, RecordInv, RefaultInv, policy
<1>12. RecoveryLoopEnds'
  <2> SUFFICES ASSUME NEW i \in 1 .. Len(log') - FAULT_REFAULT_MAX,
                      \A j \in i .. i + FAULT_REFAULT_MAX :
                        log'[j].rip = log'[i].rip /\ log'[j].became = "OK"
               PROVE  FALSE
    BY DEF RecoveryLoopEnds
  <2>1. CASE i + FAULT_REFAULT_MAX = g_count + 1
    BY <1>3, <1>4, <1>7, <2>1
  <2>2. CASE i + FAULT_REFAULT_MAX # g_count + 1
    <3>1. i \in 1 .. Len(log) - FAULT_REFAULT_MAX
      BY <1>4, <1>6, <1>7, <2>2
    <3>2. \A j \in i .. i + FAULT_REFAULT_MAX : log'[j] = log[j]
      BY <1>4, <1>6, <1>7, <3>1
    <3>3. i \in i .. i + FAULT_REFAULT_MAX
      BY <3>1
    <3> QED
      BY <3>1, <3>2, <3>3 DEF FInv, RecordInv, RecoveryLoopEnds
  <2> QED
    BY <2>1, <2>2
<1>13. RecordInv'
  BY <1>5, <1>7, <1>8, <1>9, <1>10, <1>11, <1>12 DEF RecordInv
<1> QED
  BY <1>1, <1>13 DEF FInv

(* The verdicts of fault_recover and fault_escape: a recovery in place is  *)
(* within the re-fault limit, and an escape is one escape_allowed accepts. *)
LEMMA Verdicts ==
  ASSUME RecordInv, NEW fr \in Frames
  PROVE  /\ RecoverFix(fr) \in Fixes /\ EscapeFix(fr) \in Escapes
         /\ RecoverFix(fr) = "OK" => Refaults(fr) <= FAULT_REFAULT_MAX
         /\ EscapeFix(fr) = "ESCAPED" => escape_allowed = "OK"
         /\ Refaults(fr) \in Nat /\ Refaults(fr) >= 1
<1>1. fr.rip \in Rips
  BY DEF Frames
<1>2. step_over(fr) \in Fixes
  BY <1>1, CodeAssumption DEF step_over, Fixes
<1>3. fault_apply_plan(fr) \in Fixes
  BY <1>2 DEF fault_apply_plan, Fixes
<1>4. RecoverFix(fr) \in Fixes
  BY <1>3 DEF RecoverFix, Fixes
<1>5. escape_allowed \in Escapes \cup {"OK"}
  BY DEF escape_allowed, Escapes
<1>6. EscapeFix(fr) \in Escapes
  BY <1>5 DEF EscapeFix, Escapes
<1>7. EscapeFix(fr) = "ESCAPED" => escape_allowed = "OK"
  <2>1. escape_allowed # "ESCAPED"
    BY DEF escape_allowed
  <2> QED
    BY <2>1 DEF EscapeFix
<1>8. Refaults(fr) \in Nat /\ Refaults(fr) >= 1
  BY DEF Refaults, RecordInv, HandlerType
<1>9. RecoverFix(fr) = "OK" => Refaults(fr) <= FAULT_REFAULT_MAX
  BY <1>8, SizeAssumption DEF RecoverFix
<1> QED
  BY <1>4, <1>6, <1>7, <1>8, <1>9

(* Deciding a fault completes its record and its history entry, and counts *)
(* it against its address.                                                 *)
LEMMA DisposeRecords == ASSUME FInv, Dispose PROVE RecordInv'
<1> DEFINE fr  == in_handler
           fix == RecoverFix(fr)
           esc == EscapeFix(fr)
           on  == fix \in {"OK", "TRAP"} \/ esc = "ESCAPED"
           b   == IF on THEN RecordFix(fix, esc) ELSE "halted"
           s   == (g_count - 1) % FAULT_RING_SIZE
           old == g_ring[s]
           new == [old EXCEPT !.fix = RecordFix(fix, esc),
                              !.recovered = RecordFix(fix, esc) \in GoesOn]
           e   == [log[g_count] EXCEPT !.became = b]
<1> USE SizeAssumption
<1>1. /\ RecordInv /\ fr \in Frames /\ g_count \in Nat /\ g_count > 0
      /\ log \in Seq(Entries) /\ Len(log) = g_count
      /\ g_ring \in [0 .. FAULT_RING_SIZE - 1 -> Records \cup {NULL}]
      /\ log[g_count] = [vector |-> fr.vector, rip |-> fr.rip, became |-> "?"]
      /\ halt = "no" /\ in_handler # NULL
  BY DEF FInv, RecordInv, HandlerType, HandlerInv, Dispose
<1>2. /\ fix \in Fixes /\ esc \in Escapes
      /\ fix = "OK" => Refaults(fr) <= FAULT_REFAULT_MAX
      /\ Refaults(fr) \in Nat /\ Refaults(fr) >= 1
  BY <1>1, Verdicts
<1>3. /\ g_ring' = [g_ring EXCEPT ![s] = new]
      /\ log' = [log EXCEPT ![g_count].became = b]
      /\ g_count' = g_count
      /\ g_refaults' = Refaults(fr) /\ g_refault_rip' = fr.rip
      /\ g_plan' = PlanAfter(fix)
      /\ \/ in_handler' = NULL /\ halt' = halt /\ on
         \/ in_handler' = in_handler /\ halt' # "no" /\ ~ on
  <2>1. Disposition(fix, esc)
    BY DEF Dispose
  <2>2. g_ring' = [g_ring EXCEPT ![s] = new] /\ g_count' = g_count
        /\ log' = [log EXCEPT ![g_count].became = b]
    BY <2>1 DEF Disposition, GoesOn
  <2>3. fix \notin {"OK", "TRAP"} /\ esc # "ESCAPED" => fix # "no" /\ esc # "no"
    BY <1>2 DEF Fixes, Escapes
  <2>4. \/ in_handler' = NULL /\ halt' = halt /\ on
        \/ in_handler' = in_handler /\ halt' # "no" /\ ~ on
    BY <2>3 DEF Dispose, Unwind
  <2> QED
    BY <2>2, <2>4 DEF Dispose
<1>4. /\ on <=> RecordFix(fix, esc) \in GoesOn
      /\ RecordFix(fix, esc) \in Fixes \cup Escapes
      /\ RecordFix(fix, esc) = "OK" => fix = "OK"
  BY <1>2 DEF RecordFix, Fixes, Escapes, GoesOn
<1>5. Tells(old, g_count, log[g_count]) /\ s \in 0 .. FAULT_RING_SIZE - 1
  <2>1. g_count \in 1 .. g_count /\ g_count > g_count - FAULT_RING_SIZE /\ g_count - 1 \in Nat
    BY <1>1
  <2>2. s \in 0 .. FAULT_RING_SIZE - 1
    BY <2>1, SlotInRing
  <2>3. RingInv
    BY <1>1 DEF RecordInv
  <2> QED
    BY <2>1, <2>2, <2>3 DEF RingInv
<1>6. b \in GoesOn \cup {"halted"} /\ (b \in GoesOn <=> on) /\ (b = "OK" => fix = "OK")
      /\ (on => b = RecordFix(fix, esc))
  BY <1>4 DEF GoesOn
<1>7. e \in Entries /\ e.vector = fr.vector /\ e.rip = fr.rip /\ e.became = b
  BY <1>1, <1>6 DEF Entries, Frames, GoesOn
<1>8. Tells(new, g_count, e)
  <2>1. /\ new \in Records /\ new.seq = g_count
        /\ new.vector = fr.vector /\ new.rip = fr.rip
        /\ new.fix = RecordFix(fix, esc)
        /\ new.recovered = (RecordFix(fix, esc) \in GoesOn)
    <3>1. /\ old \in Records /\ old.seq = g_count
          /\ old.vector = fr.vector /\ old.rip = fr.rip
      BY <1>1, <1>5 DEF Tells
    <3> HIDE DEF old, fix, esc, fr
    <3> DEFINE v == RecordFix(fix, esc)
    <3>2. v \in Fixes \cup Escapes
      BY <1>4
    <3> HIDE DEF v
    <3>3. CASE v \in GoesOn
      <4>1. new = [old EXCEPT !.fix = v, !.recovered = TRUE]
        BY <3>3 DEF v
      <4> HIDE DEF new
      <4>2. /\ new \in Records /\ new.seq = old.seq /\ new.vector = old.vector
            /\ new.rip = old.rip /\ new.fix = v /\ new.recovered = TRUE
        BY <3>1, <3>2, <4>1 DEF Records
      <4> QED
        BY <3>1, <3>3, <4>2 DEF v
    <3>4. CASE v \notin GoesOn
      <4>1. new = [old EXCEPT !.fix = v, !.recovered = FALSE]
        <5>1. (v \in GoesOn) = FALSE
          BY <3>4
        <5>2. new = [old EXCEPT !.fix = v, !.recovered = v \in GoesOn]
          BY DEF v
        <5> QED
          BY <5>1, <5>2
      <4> HIDE DEF new
      <4>2. /\ new \in Records /\ new.seq = old.seq /\ new.vector = old.vector
            /\ new.rip = old.rip /\ new.fix = v /\ new.recovered = FALSE
        BY <3>1, <3>2, <4>1 DEF Records
      <4> QED
        <5>1. (v \in GoesOn) = FALSE
          BY <3>4
        <5>2. new.recovered = (v \in GoesOn)
          BY <4>2, <5>1
        <5> QED
          BY <3>1, <4>2, <5>2 DEF v
    <3> QED
      BY <3>3, <3>4
  <2> HIDE DEF new, e, b, fix, esc, fr, on
  <2> QED
    BY <1>4, <1>6, <1>7, <2>1, Zenon DEF Tells
<1> HIDE DEF fix, esc, on, b, new, old
<1>9. /\ log' \in Seq(Entries) /\ Len(log') = g_count
      /\ log'[g_count] = e
      /\ \A i \in 1 .. g_count - 1 : log'[i] = log[i]
  BY <1>1, <1>3, <1>7
<1> HIDE DEF e
<1>10. HandlerType'
  <2>1. new \in Records
    BY <1>8 DEF Tells
  <2>2. g_ring' \in [0 .. FAULT_RING_SIZE - 1 -> Records \cup {NULL}]
    BY <1>1, <1>3, <1>5, <2>1
  <2>3. g_plan' = NULL \/ g_plan' \in
          [action : {"REFUSE", "SKIP", "SET_REG", "SET_REG_SKIP", "SET_RIP"},
           scope : {"any", "DE", "BP"}, uses : Nat]
    <3>1. CASE g_plan = NULL
      BY <1>3, <3>1 DEF PlanAfter
    <3>2. CASE g_plan # NULL
      <4>1. g_plan \in [action : {"REFUSE", "SKIP", "SET_REG", "SET_REG_SKIP", "SET_RIP"},
                        scope : {"any", "DE", "BP"}, uses : Nat]
        BY <1>1, <3>2 DEF RecordInv, HandlerType
      <4>2. \/ g_plan' \in {g_plan, NULL}
            \/ g_plan.uses > 1 /\ g_plan' = [g_plan EXCEPT !.uses = g_plan.uses - 1]
        <5>1. g_plan.uses \in Nat
          BY <4>1
        <5> QED
          BY <1>3, <5>1 DEF PlanAfter
      <4> QED
        BY <4>1, <4>2
    <3> QED
      BY <3>1, <3>2
  <2> QED
    BY <1>1, <1>2, <1>3, <1>9, <2>2, <2>3 DEF HandlerType
<1>11. HandlerInv'
  BY <1>3 DEF HandlerInv
<1>12. RingInv'
  <2> SUFFICES ASSUME NEW i \in 1 .. g_count', i > g_count' - FAULT_RING_SIZE
               PROVE  Tells(g_ring'[(i - 1) % FAULT_RING_SIZE], i, log'[i])
    BY DEF RingInv
  <2>1. CASE i = g_count
    <3>1. g_ring'[(i - 1) % FAULT_RING_SIZE] = new
      BY <1>1, <1>3, <1>5, <2>1
    <3> QED
      BY <1>8, <1>9, <2>1, <3>1
  <2>2. CASE i # g_count
    <3>1. i \in 1 .. g_count - 1 /\ i > g_count - FAULT_RING_SIZE /\ i \in 1 .. g_count
      BY <1>1, <1>3, <2>2
    <3>0. i - 1 \in Nat
      BY <1>1, <3>1
    <3>2. (i - 1) % FAULT_RING_SIZE # s
      BY <1>1, <3>1, SlotsDistinct, SMTT(30)
    <3>3. (i - 1) % FAULT_RING_SIZE \in 0 .. FAULT_RING_SIZE - 1
      BY <3>0, SlotInRing
    <3>4. g_ring'[(i - 1) % FAULT_RING_SIZE] = g_ring[(i - 1) % FAULT_RING_SIZE]
      BY <1>1, <1>3, <3>2, <3>3
    <3>5. Tells(g_ring[(i - 1) % FAULT_RING_SIZE], i, log[i])
      BY <1>1, <3>1 DEF RecordInv, RingInv
    <3> QED
      BY <1>9, <3>1, <3>4, <3>5
  <2> QED
    BY <2>1, <2>2
<1>13. b = "OK" => \A i \in 1 .. g_count :
         (\A j \in i .. g_count : log'[j].rip = log'[i].rip /\ log'[j].became = "OK") =>
           g_refault_rip' = log'[i].rip /\ g_refaults' >= g_count - i + 1
  <2> SUFFICES ASSUME b = "OK", NEW i \in 1 .. g_count,
                      \A j \in i .. g_count : log'[j].rip = log'[i].rip /\ log'[j].became = "OK"
               PROVE  g_refault_rip' = log'[i].rip /\ g_refaults' >= g_count - i + 1
    OBVIOUS
  <2>1. log'[i].rip = fr.rip
    BY <1>1, <1>7, <1>9
  <2>2. CASE i = g_count
    BY <1>1, <1>2, <1>3, <2>1, <2>2
  <2>3. CASE i # g_count
    <3>1. i \in 1 .. g_count - 1 /\ Decided = g_count - 1
      BY <1>1, <2>3 DEF Decided
    <3>2. \A j \in i .. g_count - 1 : log'[j] = log[j] /\ j \in i .. g_count
      BY <1>1, <1>9, <3>1
    <3>3. i \in i .. g_count - 1
      BY <1>1, <3>1
    <3>4. \A j \in i .. Decided : log[j].rip = log[i].rip /\ log[j].became = "OK"
      BY <3>1, <3>2, <3>3
    <3>5. g_refault_rip = log[i].rip /\ g_refaults >= Decided - i + 1
      BY <1>1, <3>1, <3>4 DEF RecordInv, RefaultInv
    <3>6. g_refault_rip = fr.rip /\ g_refaults >= g_count - i /\ g_refaults # 0
      BY <1>1, <2>1, <3>1, <3>2, <3>3, <3>5 DEF RecordInv, HandlerType
    <3>7. Refaults(fr) = g_refaults + 1
      BY <3>6 DEF Refaults
    <3> QED
      BY <1>1, <1>3, <2>1, <3>6, <3>7 DEF RecordInv, HandlerType
  <2> QED
    BY <2>2, <2>3
<1>14. RefaultInv'
  <2>1. CASE halt' # "no"
    BY <2>1 DEF RefaultInv
  <2>2. CASE halt' = "no"
    <3>1. Decided' = g_count
      BY <1>3, <2>2 DEF Decided
    <3>2. CASE b = "OK"
      BY <1>13, <3>1, <3>2 DEF RefaultInv
    <3>3. CASE b # "OK"
      <4>1. \A i \in 1 .. g_count : g_count \in i .. g_count
        BY <1>1
      <4>2. log'[g_count].became # "OK"
        BY <1>7, <1>9, <3>3
      <4> QED
        BY <3>1, <4>1, <4>2 DEF RefaultInv
    <3> QED
      BY <3>2, <3>3
  <2> QED
    BY <2>1, <2>2
<1>15. RecoveryLoopEnds'
  <2> SUFFICES ASSUME NEW i \in 1 .. Len(log') - FAULT_REFAULT_MAX,
                      \A j \in i .. i + FAULT_REFAULT_MAX :
                        log'[j].rip = log'[i].rip /\ log'[j].became = "OK"
               PROVE  FALSE
    BY DEF RecoveryLoopEnds
  <2>0. i \in 1 .. g_count - FAULT_REFAULT_MAX /\ i \in Nat /\ FAULT_REFAULT_MAX \in Nat
    BY <1>1, <1>9
  <2>1. CASE i + FAULT_REFAULT_MAX = g_count
    <3>1. b = "OK"
      BY <1>1, <1>7, <1>9, <2>1
    <3>2. i \in 1 .. g_count /\ g_count - i + 1 = FAULT_REFAULT_MAX + 1
      BY <1>1, <2>0, <2>1
    <3>3. g_refaults' >= FAULT_REFAULT_MAX + 1
      BY <1>13, <2>1, <3>1, <3>2
    <3> QED
      BY <1>2, <1>3, <1>6, <3>1, <3>3
  <2>2. CASE i + FAULT_REFAULT_MAX # g_count
    <3>1. i \in 1 .. Len(log) - FAULT_REFAULT_MAX
      BY <1>1, <1>9, <2>2
    <3>2. \A j \in i .. i + FAULT_REFAULT_MAX : log'[j] = log[j]
      <4>1. \A j \in i .. i + FAULT_REFAULT_MAX : j \in 1 .. g_count - 1
        BY <1>1, <2>0, <2>2
      <4> QED
        BY <1>9, <4>1
    <3>3. i \in i .. i + FAULT_REFAULT_MAX
      BY <3>1
    <3> QED
      BY <1>1, <3>1, <3>2, <3>3 DEF RecordInv, RecoveryLoopEnds
  <2> QED
    BY <2>1, <2>2
<1> QED
  BY <1>1, <1>3, <1>9, <1>10, <1>11, <1>12, <1>14, <1>15 DEF RecordInv

(* Deciding a fault leaves the guards as they were or escapes to one.      *)
LEMMA DisposeFInv == ASSUME FInv, Dispose PROVE FInv'
<1>1. GuardInv'
  <2>1. CASE UNCHANGED <<current, cpu, nest, mem, guards>>
    BY <2>1, GuardsKept DEF FInv, Dispose
  <2>2. CASE EscapeFix(in_handler) = "ESCAPED" /\ Unwind
    <3>1. escape_allowed = "OK"
      BY <2>2, Verdicts DEF FInv, RecordInv, HandlerType, Dispose
    <3> QED
      BY <2>2, <3>1, UnwindKeeps DEF FInv, Dispose
  <2> QED
    BY <2>1, <2>2 DEF Dispose
<1> QED
  BY <1>1, DisposeRecords DEF FInv

(* Every step keeps the invariant.                                         *)
LEMMA NextFInv == FInv /\ [FaultNext]_faultVars => FInv'
<1> SUFFICES ASSUME FInv, [FaultNext]_faultVars PROVE FInv'
  OBVIOUS
<1>1. ASSUME UNCHANGED faultVars PROVE FInv'
  <2>1. GuardInv'
    BY <1>1, GuardsKept DEF FInv, faultVars
  <2>2. RecordInv'
    BY <1>1, RecordsKept DEF FInv, faultVars, policy
  <2> QED
    BY <2>1, <2>2 DEF FInv
<1>2. CASE Yield
  BY <1>2, YieldFInv
<1>3. CASE fault_guard_run
  BY <1>3, RunFInv
<1>4. CASE BodyReturns
  BY <1>4, ReturnFInv
<1>5. CASE Scribble
  BY <1>5, ScribbleFInv
<1>6. CASE fault_plan_arm \/ fault_plan_clear \/ FaultInHandler
  BY <1>6, PlanFInv
<1>7. CASE fault_guard_abort
  BY <1>7, AbortFInv
<1>8. CASE isr_dispatch
  BY <1>8, NoteFInv
<1>9. CASE Dispose
  BY <1>9, DisposeFInv
<1> QED
  BY <1>1, <1>2, <1>3, <1>4, <1>5, <1>6, <1>7, <1>8, <1>9 DEF FaultNext, Halted

(* FInv is an invariant of the kernel's fault handling.                    *)
THEOREM FInvariance == FaultSpec => []FInv
BY InitFInv, NextFInv, PTL DEF FaultSpec

(* After any sequence of guarded calls, switches, faults and escapes, the  *)
(* CPU is on the stack of the fiber the scheduler believes is running, and *)
(* with one arming fiber g_guards is exactly its live guarded calls        *)
(* (fault_guard_run, fault_escape and fault_guard_abort).                  *)
THEOREM CpuStaysHomeAlways == FaultSpec => []CpuStaysHome
<1>1. FInv => CpuStaysHome
  <2> SUFFICES ASSUME FInv PROVE CpuStaysHome
    OBVIOUS
  <2>1. FaultTypeOK /\ cpu = current
    BY DEF FInv, GuardInv, RecordInv, HomeInv, FaultTypeOK
  <2>2. GuardStackIsLive
    <3> SUFFICES ASSUME OneArmer
                 PROVE  \E f \in Fibers :
                          /\ g_gdepth = nest[f]
                          /\ \A g \in Fibers \ {f} : nest[g] = 0
                          /\ \A i \in 1 .. nest[f] : /\ g_guards[i - 1] = <<f, i>>
                                                     /\ mem[<<f, i>>].depth = i - 1
      BY DEF GuardStackIsLive
    <3>1. PICK f \in Fibers : armers = {f}
      BY TheArmer DEF FInv, GuardInv
    <3>2. /\ g_gdepth = nest[f]
          /\ \A g \in Fibers \ {f} : nest[g] = 0
          /\ \A i \in 1 .. nest[f] : /\ g_guards[i - 1] = <<f, i>>
                                     /\ mem[<<f, i>>].depth = i - 1
                                     /\ mem[<<f, i>>].magic
      BY <3>1 DEF FInv, GuardInv, OneInv
    <3>3. \A i \in 1 .. nest[f] : /\ g_guards[i - 1] = <<f, i>>
                                  /\ mem[<<f, i>>].depth = i - 1
      BY <3>2
    <3> QED
      BY <3>2, <3>3
  <2> QED
    BY <2>1, <2>2 DEF CpuStaysHome
<1> QED
  BY <1>1, FInvariance, PTL

(* Whatever fault_note and the two writers of the newest record do, the    *)
(* ring is the tail of the fault history (fault_ring_at, fault_by_seq).    *)
THEOREM RingIsHistoryAlways == FaultSpec => []RingIsHistory
<1>1. FInv => RingIsHistory
  <2> SUFFICES ASSUME FInv, NEW back \in 0 .. FAULT_RING_SIZE - 1, back < g_count
               PROVE  LET i == g_count - back
                          r == g_ring[(i - 1) % FAULT_RING_SIZE]
                      IN /\ r.seq = i
                         /\ r.vector = log[i].vector /\ r.rip = log[i].rip
                         /\ r.recovered <=> log[i].became \in {"OK", "TRAP", "ESCAPED"}
                         /\ r.recovered => r.fix = log[i].became
    BY DEF RingIsHistory
  <2> DEFINE i == g_count - back
  <2>1. i \in 1 .. g_count /\ i > g_count - FAULT_RING_SIZE
    BY SizeAssumption DEF FInv, RecordInv
  <2> HIDE DEF i
  <2>2. Tells(g_ring[(i - 1) % FAULT_RING_SIZE], i, log[i])
    BY <2>1 DEF FInv, RecordInv, RingInv
  <2> QED
    BY <2>2, Zenon DEF Tells, GoesOn, i
<1> QED
  BY <1>1, FInvariance, PTL

(* No address is recovered in place more than FAULT_REFAULT_MAX times in a *)
(* row by fault_recover, whatever plans are armed between the faults.      *)
THEOREM RecoveryLoopEndsAlways == FaultSpec => []RecoveryLoopEnds
<1>1. FInv => RecoveryLoopEnds
  BY DEF FInv, RecordInv
<1> QED
  BY <1>1, FInvariance, PTL

(* fault_escape and fault_guard_abort resume the innermost call of         *)
(* fault_guard_run on the running stack, which has not returned, as long   *)
(* as one fiber's code arms guards.                                        *)
THEOREM EscapesLandOnLiveCalls == FaultSpec => EscapeLandsOnLiveCall
<1>1. FInv /\ [FaultNext]_faultVars =>
        [OneArmer /\ g_escapes' # g_escapes => nest[cpu] > 0 /\ Top = Here]_faultVars
  <2> SUFFICES ASSUME FInv, [FaultNext]_faultVars, OneArmer, g_escapes' # g_escapes
               PROVE  nest[cpu] > 0 /\ Top = Here
    BY DEF faultVars
  <2>1. escape_allowed = "OK"
    <3>1. CASE fault_guard_abort
      BY <3>1 DEF fault_guard_abort
    <3>2. CASE Dispose
      <4>1. EscapeFix(in_handler) = "ESCAPED"
        BY <3>2 DEF Dispose, guards
      <4> QED
        BY <3>2, <4>1, Verdicts DEF FInv, RecordInv, HandlerType, Dispose
    <3> QED
      BY <3>1, <3>2 DEF FaultNext, Yield, fault_guard_run, BodyReturns, Scribble, fault_plan_arm,
           fault_plan_clear, isr_dispatch, FaultInHandler, Halted, guards, faultVars
  <2>2. PICK f \in Fibers : armers = {f}
    BY TheArmer DEF FInv, GuardInv
  <2>3. f = current /\ nest[f] > 0 /\ Top = <<f, nest[f]>>
    BY <2>1, <2>2, EscapeHome DEF FInv
  <2> QED
    BY <2>3 DEF FInv, GuardInv, HomeInv, Here
<1> QED
  BY <1>1, FInvariance, PTL DEF FaultSpec, EscapeLandsOnLiveCall

(* A recoverable fault under an intact guard of the running stack halts    *)
(* the machine only when the escape budget is spent, as long as one        *)
(* fiber's code arms guards (isr_dispatch falling through to its halt).    *)
THEOREM GuardedActionsNeverHalt == FaultSpec => GuardedActionNeverHalts
<1>1. FInv /\ [FaultNext]_faultVars =>
        [(OneArmer /\ halt = "no" /\ halt' \notin {"no", "DOUBLE"}) =>
           \/ nest[current] = 0
           \/ g_escapes >= FAULT_ESCAPE_MAX
           \/ ~mem[<<current, nest[current]>>].sound
           \/ ~fault_is_recoverable(in_handler.vector)]_faultVars
  <2> SUFFICES ASSUME FInv, [FaultNext]_faultVars, OneArmer, halt = "no", halt' \notin {"no", "DOUBLE"},
                      nest[current] # 0, ~ g_escapes >= FAULT_ESCAPE_MAX,
                      fault_is_recoverable(in_handler.vector),
                      mem[<<current, nest[current]>>].sound
               PROVE  FALSE
    BY DEF faultVars
  <2>1. PICK f \in Fibers : armers = {f}
    BY TheArmer DEF FInv, GuardInv
  <2>2. /\ g_gdepth = nest[f]
        /\ \A g \in Fibers \ {f} : nest[g] = 0
        /\ \A i \in 1 .. nest[f] : /\ g_guards[i - 1] = <<f, i>>
                                   /\ mem[<<f, i>>].depth = i - 1
                                   /\ mem[<<f, i>>].magic
    BY <2>1 DEF FInv, GuardInv, OneInv
  <2>3. f = current /\ cpu = current /\ nest[f] \in 1 .. FRAMES_MAX /\ nest[f] \in 1 .. nest[f]
    BY <2>2, SizeAssumption DEF FInv, GuardInv, HomeInv
  <2>4. Top = <<f, nest[f]>> /\ Top \in GuardAddrs
    BY <2>2, <2>3 DEF Top, GuardAddrs
  <2>5. mem[Top].magic /\ mem[Top].stack = current /\ mem[Top].sound
    <3>1. mem[Top].magic /\ mem[Top].sound
      BY <2>2, <2>3, <2>4
    <3> QED
      BY <2>3, <2>4, <3>1 DEF FInv, GuardInv, HomeInv
  <2>6. Dispose /\ EscapeFix(in_handler) # "ESCAPED"
    BY <2>4, <2>5 DEF FaultNext, Yield, fault_guard_run, BodyReturns, Scribble, fault_plan_arm, Dispose,
      fault_plan_clear, isr_dispatch, FaultInHandler, fault_guard_abort, Unwind, Halted, faultVars
  <2>7. escape_allowed = "OK"
    BY <2>2, <2>3, <2>5 DEF escape_allowed
  <2>8. Top[1] = cpu /\ ~ Top[2] > nest[cpu]
    BY <2>3, <2>4
  <2>9. EscapeFix(in_handler) = "ESCAPED"
    BY <2>5, <2>7, <2>8 DEF EscapeFix
  <2> QED
    BY <2>6, <2>9
<1> QED
  BY <1>1, FInvariance, PTL DEF FaultSpec, GuardedActionNeverHalts
=============================================================================
