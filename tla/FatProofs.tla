----------------------------- MODULE FatProofs -----------------------------
(***************************************************************************)
(* No cluster of the disk belongs to two files, and no live entry leads    *)
(* into free space (Fat!ChainsSound), for every volume, device and         *)
(* sequence of operations, device errors and losses of power.              *)
(*                                                                         *)
(* A volume is seen here as a record of what reads return and of all that  *)
(* a loss of power may leave: the table in use, the tables that may be on  *)
(* the medium, the data sectors, the claims of every record that may be    *)
(* on the medium, the inodes in core.  It is Good when each of the tables  *)
(* serves all of the claims: their chains are whole and no two have a      *)
(* cluster in common.  A plan is Safe when it leads from a good volume     *)
(* through good volumes, and what it does on an error leads to one.  The   *)
(* file follows the code upwards: chains and claims, single steps, the     *)
(* plans of fat.c and fat_dir.c, the sectors and log of the device, and    *)
(* the invariant IInv of the specification.                                *)
(***************************************************************************)
EXTENDS Fat, LoopLemmas, FiniteSetTheorems

-----------------------------------------------------------------------------
(* Tables and chains.                                                      *)

Links == Clus \cup {FREE, EOC}
Tables == [Clus -> Links]

(* The constants, as the lemmas use them.                                  *)
LEMMA ConstFacts ==
  /\ UNITS \in Nat /\ UNITS >= 1 /\ CLUSTERS \in Nat /\ CLUSTERS >= 1
  /\ Root \in Clus /\ FREE \notin Clus /\ EOC \notin Clus /\ FREE # EOC
  /\ \A c \in Clus : c \in Nat /\ c >= 2 /\ c <= CLUSTERS + 1
BY FatConstants DEF Clus, Root, FREE, EOC

(* One pass of chain_at's loop.                                            *)
AfterIn(fat, c, s) == IF s = <<>> THEN c ELSE fat[Last(s)]
FollowIn(fat, c, s) ==
  IF AfterIn(fat, c, s) \in Clus THEN Append(s, AfterIn(fat, c, s)) ELSE s

(* The loop that follows a chain makes CLUSTERS passes and collects        *)
(* clusters.                                                               *)
LEMMA ChainIs ==
  ASSUME NEW fat \in Tables, NEW c \in Links
  PROVE  \E w \in [0..CLUSTERS -> Seq(Clus)] :
           /\ Chain(fat, c) = w[CLUSTERS] /\ w[0] = <<>>
           /\ \A k \in 1..CLUSTERS : w[k] = FollowIn(fat, c, w[k - 1])
<1> DEFINE S == Seq(Clus)
           F == [s \in S |-> FollowIn(fat, c, s)]
           D(g) == [k \in 0..CLUSTERS |->
                      IF k = 0 THEN <<>> ELSE FollowIn(fat, c, g[k - 1])]
           w == CHOOSE g : g = D(g)
<1>0. CLUSTERS \in Nat
  BY ConstFacts
<1>1. ASSUME NEW s \in S PROVE FollowIn(fat, c, s) \in S
  BY DEF FollowIn
<1>2. F \in [S -> S] /\ \A s \in S : F[s] = FollowIn(fat, c, s)
  BY <1>1
<1> HIDE DEF F
<1>3. PICK g : IsRun(g, S, <<>>, F, CLUSTERS)
  <2>1. <<>> \in S
    OBVIOUS
  <2> HIDE DEF S, D, w
  <2> QED BY <1>0, <1>2, <2>1, RunExists
<1>4. ASSUME NEW k \in 0..CLUSTERS
      PROVE  g[k] = IF k = 0 THEN <<>> ELSE FollowIn(fat, c, g[k - 1])
  <2>1. CASE k = 0
    BY <1>3, <2>1 DEF IsRun
  <2>2. CASE k # 0
    <3>1. k \in 1..CLUSTERS /\ k - 1 \in 0..CLUSTERS
      BY <1>0, <2>2
    <3>2. g[k - 1] \in S /\ g[k] = F[g[k - 1]]
      BY <1>3, <3>1 DEF IsRun
    <3> QED BY <2>2, <3>1, <3>2, <1>2
  <2> QED BY <2>1, <2>2
<1>5. g = D(g)
  <2>1. g = [k \in 0..CLUSTERS |-> g[k]]
    BY <1>3 DEF IsRun
  <2>2. \A k \in 0..CLUSTERS : D(g)[k] = IF k = 0 THEN <<>> ELSE FollowIn(fat, c, g[k - 1])
    OBVIOUS
  <2>3. D(g) = [k \in 0..CLUSTERS |-> D(g)[k]]
    OBVIOUS
  <2> HIDE DEF D
  <2>4. \A k \in 0..CLUSTERS : g[k] = D(g)[k]
    BY <1>4, <2>2, Zenon
  <2> QED BY <2>1, <2>3, <2>4
<1>6. w = D(w)
  <2> HIDE DEF D
  <2> QED BY <1>5, Zenon
<1>7. Chain(fat, c) = w[CLUSTERS]
  BY DEF Chain, FollowIn, AfterIn
<1> HIDE DEF w
<1>8. w[0] = <<>> /\ \A k \in 1..CLUSTERS : w[k] = FollowIn(fat, c, w[k - 1])
  <2>1. \A k \in 0..CLUSTERS : D(w)[k] = IF k = 0 THEN <<>> ELSE FollowIn(fat, c, w[k - 1])
    OBVIOUS
  <2> HIDE DEF D
  <2>2. \A k \in 0..CLUSTERS : w[k] = IF k = 0 THEN <<>> ELSE FollowIn(fat, c, w[k - 1])
    BY <1>6, <2>1, Zenon
  <2> QED BY <1>0, <2>2
<1> DEFINE T == {k \in 0..CLUSTERS : w[k] \in S}
<1>9. 0 \in T
  <2>1. 0 \in 0..CLUSTERS /\ <<>> \in S
    BY <1>0
  <2> HIDE DEF S
  <2> QED BY <1>8, <2>1
<1>10. ASSUME NEW k \in 0..(CLUSTERS - 1), k \in T PROVE k + 1 \in T
  <2>1. k + 1 \in 1..CLUSTERS /\ (k + 1) - 1 = k /\ w[k] \in S
    BY <1>0, <1>10
  <2>2. w[k + 1] = FollowIn(fat, c, w[k])
    BY <1>8, <2>1
  <2> QED BY <1>1, <2>1, <2>2
<1> HIDE DEF T
<1>11. \A k \in 0..CLUSTERS : k \in T
  BY <1>0, <1>9, <1>10, BoundedInduction
<1>12. w = [k \in 0..CLUSTERS |-> w[k]]
  <2>1. D(w) = [k \in 0..CLUSTERS |-> D(w)[k]]
    OBVIOUS
  <2> HIDE DEF D
  <2> QED BY <1>6, <2>1
<1>13. w \in [0..CLUSTERS -> S]
  BY <1>11, <1>12 DEF T
<1> QED BY <1>7, <1>8, <1>13

(* A chain as it should be: every cluster once, each entry naming the      *)
(* next, the last one the end-of-chain mark.                               *)
Path(F, s) ==
  /\ s \in Seq(Clus) /\ s # <<>>
  /\ \A j, k \in 1..Len(s) : s[j] = s[k] => j = k
  /\ \A k \in 1..(Len(s) - 1) : F[s[k]] = s[k + 1]
  /\ F[s[Len(s)]] = EOC

(* A chain is of clusters, and starts where it is asked to.                *)
LEMMA ChainType ==
  ASSUME NEW fat \in Tables, NEW c \in Links
  PROVE  /\ Chain(fat, c) \in Seq(Clus)
         /\ c \notin Clus => Chain(fat, c) = <<>>
         /\ c \in Clus => Len(Chain(fat, c)) >= 1 /\ Chain(fat, c)[1] = c
<1>0. CLUSTERS \in Nat /\ CLUSTERS >= 1
  BY ConstFacts
<1>1. PICK w \in [0..CLUSTERS -> Seq(Clus)] :
           /\ Chain(fat, c) = w[CLUSTERS] /\ w[0] = <<>>
           /\ \A k \in 1..CLUSTERS : w[k] = FollowIn(fat, c, w[k - 1])
  BY ChainIs
<1> DEFINE OK(k) == /\ c \notin Clus => w[k] = <<>>
                    /\ c \in Clus /\ k >= 1 => Len(w[k]) >= 1 /\ w[k][1] = c
           T == {k \in 0..CLUSTERS : OK(k)}
<1>2. 0 \in T
  BY <1>0, <1>1
<1>3. ASSUME NEW k \in 0..(CLUSTERS - 1), k \in T PROVE k + 1 \in T
  <2>1. k + 1 \in 1..CLUSTERS /\ (k + 1) - 1 = k /\ k \in 0..CLUSTERS /\ k + 1 \in 0..CLUSTERS
    BY <1>0
  <2>2. w[k + 1] = FollowIn(fat, c, w[k])
    BY <1>1, <2>1
  <2>3. w[k] \in Seq(Clus) /\ w[k + 1] \in Seq(Clus)
    BY <1>1, <2>1
  <2>4. CASE c \notin Clus
    BY <1>3, <2>1, <2>2, <2>3, <2>4 DEF FollowIn, AfterIn
  <2>5. CASE c \in Clus /\ w[k] = <<>>
    <3>1. w[k + 1] = Append(<<>>, c)
      BY <2>2, <2>5 DEF FollowIn, AfterIn
    <3>2. Len(w[k + 1]) >= 1 /\ w[k + 1][1] = c
      BY <2>5, <3>1
    <3> QED BY <2>1, <2>5, <3>2
  <2>6. CASE c \in Clus /\ w[k] # <<>>
    <3>1. k # 0
      BY <1>1, <2>6
    <3>2. Len(w[k]) >= 1 /\ w[k][1] = c
      BY <1>3, <2>1, <2>6, <3>1
    <3>3. Len(w[k + 1]) >= 1 /\ w[k + 1][1] = c
      BY <2>2, <2>3, <3>2 DEF FollowIn
    <3> QED BY <2>1, <2>6, <3>3
  <2> QED BY <2>4, <2>5, <2>6
<1> HIDE DEF T
<1>4. \A k \in 0..CLUSTERS : k \in T
  BY <1>0, <1>2, <1>3, BoundedInduction
<1>5. CLUSTERS \in T /\ CLUSTERS \in 0..CLUSTERS
  BY <1>0, <1>4
<1>6. OK(CLUSTERS)
  BY <1>5 DEF T
<1> QED BY <1>0, <1>1, <1>5, <1>6

(* A chain without repetition fits the volume, so the guard against loops  *)
(* never cuts it.                                                          *)
LEMMA PathShort ==
  ASSUME NEW F, NEW s, Path(F, s)
  PROVE  Len(s) \in 1..CLUSTERS
<1>1. s \in [1..Len(s) -> Clus] /\ Len(s) \in Nat /\ Len(s) # 0
  BY DEF Path
<1>2. CLUSTERS \in Nat
  BY ConstFacts
<1>3. IsFiniteSet(Clus) /\ Cardinality(Clus) = CLUSTERS
  <2>1. 2 \in Int /\ CLUSTERS + 1 \in Int
    BY <1>2
  <2>2. IsFiniteSet(2..(CLUSTERS + 1)) /\ Cardinality(2..(CLUSTERS + 1)) = IF 2 > CLUSTERS + 1 THEN 0 ELSE (CLUSTERS + 1) - 2 + 1
    BY <2>1, FS_Interval
  <2> QED BY <1>2, <2>2, ConstFacts DEF Clus
<1>4. IsFiniteSet(1..Len(s)) /\ Cardinality(1..Len(s)) = Len(s)
  <2>1. 1 \in Int /\ Len(s) \in Int
    BY <1>1
  <2>2. IsFiniteSet(1..Len(s)) /\ Cardinality(1..Len(s)) = IF 1 > Len(s) THEN 0 ELSE Len(s) - 1 + 1
    BY <2>1, FS_Interval
  <2> QED BY <1>1, <2>2
<1>5. s \in Injection(1..Len(s), Clus)
  BY <1>1 DEF Path, Injection, IsInjective
<1>6. Cardinality(1..Len(s)) <= Cardinality(Clus)
  BY <1>3, <1>4, <1>5, FS_Injection, Zenon
<1> QED BY <1>1, <1>2, <1>3, <1>4, <1>6

(* Following such a chain from its first cluster gives the whole of it.    *)
LEMMA PathIsChain ==
  ASSUME NEW F \in Tables, NEW s, Path(F, s)
  PROVE  s[1] \in Clus /\ Chain(F, s[1]) = s
<1>0. CLUSTERS \in Nat /\ CLUSTERS >= 1 /\ EOC \notin Clus
  BY ConstFacts
<1>1. s \in Seq(Clus) /\ Len(s) \in 1..CLUSTERS
  BY PathShort DEF Path
<1>2. s[1] \in Clus /\ s[1] \in Links
  BY <1>1 DEF Links
<1>3. PICK w \in [0..CLUSTERS -> Seq(Clus)] :
           /\ Chain(F, s[1]) = w[CLUSTERS] /\ w[0] = <<>>
           /\ \A k \in 1..CLUSTERS : w[k] = FollowIn(F, s[1], w[k - 1])
  BY <1>2, ChainIs
<1> DEFINE m(k) == IF k <= Len(s) THEN k ELSE Len(s)
           OK(k) == Len(w[k]) = m(k) /\ \A j \in 1..m(k) : w[k][j] = s[j]
           T == {k \in 0..CLUSTERS : OK(k)}
<1>4. 0 \in T
  BY <1>0, <1>1, <1>3, SMTT(30)
<1>5. ASSUME NEW k \in 0..(CLUSTERS - 1), k \in T PROVE k + 1 \in T
  <2>1. k + 1 \in 1..CLUSTERS /\ (k + 1) - 1 = k /\ k \in 0..CLUSTERS /\ k + 1 \in 0..CLUSTERS
    BY <1>0
  <2>2. w[k + 1] = FollowIn(F, s[1], w[k])
    BY <1>3, <2>1
  <2>3. w[k] \in Seq(Clus) /\ w[k + 1] \in Seq(Clus)
    BY <1>3, <2>1
  <2>4. OK(k)
    BY <1>5
  <2>5. CASE k = 0
    <3>1. w[k] = <<>>
      BY <1>3, <2>5
    <3>2. w[k + 1] = Append(<<>>, s[1])
      BY <2>2, <3>1, <1>2 DEF FollowIn, AfterIn
    <3>3. Len(w[k + 1]) = 1 /\ w[k + 1][1] = s[1]
      BY <3>2
    <3> QED BY <1>1, <2>1, <2>5, <3>3
  <2>6. CASE k # 0 /\ k < Len(s)
    <3>1. Len(w[k]) = k /\ w[k] # <<>> /\ Last(w[k]) = s[k]
      BY <2>1, <2>3, <2>4, <2>6 DEF Last
    <3>2. AfterIn(F, s[1], w[k]) = s[k + 1] /\ s[k + 1] \in Clus
      BY <1>1, <2>1, <2>6, <3>1 DEF AfterIn, Path
    <3>3. w[k + 1] = Append(w[k], s[k + 1])
      BY <2>2, <3>2 DEF FollowIn
    <3>4. OK(k + 1)
      BY <2>1, <2>3, <2>4, <2>6, <3>1, <3>2, <3>3
    <3> QED BY <2>1, <3>4
  <2>7. CASE k >= Len(s)
    <3>1. Len(w[k]) = Len(s) /\ w[k] # <<>> /\ Last(w[k]) = s[Len(s)]
      BY <1>1, <2>1, <2>3, <2>4, <2>7 DEF Last
    <3>2. AfterIn(F, s[1], w[k]) = EOC
      BY <3>1 DEF AfterIn, Path
    <3>3. w[k + 1] = w[k]
      BY <1>0, <2>2, <3>2 DEF FollowIn
    <3> QED BY <1>1, <2>1, <2>4, <2>7, <3>3
  <2> QED BY <1>1, <2>1, <2>5, <2>6, <2>7
<1>6. T = {k \in 0..CLUSTERS : OK(k)}
  OBVIOUS
<1> HIDE DEF T
<1>7. \A k \in 0..CLUSTERS : k \in T
  BY <1>0, <1>4, <1>5, BoundedInduction
<1>8. OK(CLUSTERS) /\ CLUSTERS \in 0..CLUSTERS
  BY <1>0, <1>6, <1>7
<1>9. w[CLUSTERS] \in Seq(Clus) /\ Len(w[CLUSTERS]) = Len(s) /\ \A j \in 1..Len(s) : w[CLUSTERS][j] = s[j]
  BY <1>1, <1>3, <1>8
<1>10. w[CLUSTERS] = s
  BY <1>1, <1>9
<1> QED BY <1>2, <1>3, <1>10

(* A chain none of whose entries changed is still one.                     *)
LEMMA PathSame ==
  ASSUME NEW F \in Tables, NEW G \in Tables, NEW s, Path(F, s),
         \A c \in Range(s) : G[c] = F[c]
  PROVE  Path(G, s)
<1>1. \A k \in 1..Len(s) : s[k] \in Range(s)
  BY DEF Path, Range
<1>2. s \in Seq(Clus) /\ s # <<>> /\ Len(s) \in Nat /\ Len(s) >= 1
  BY DEF Path
<1>3. \A k \in 1..Len(s) : G[s[k]] = F[s[k]]
  BY <1>1
<1> QED BY <1>2, <1>3 DEF Path

(* Linking a new last cluster behind a chain.                              *)
LEMMA PathExtend ==
  ASSUME NEW F \in Tables, NEW G \in Tables, NEW s, Path(F, s),
         NEW y \in Clus, y \notin Range(s),
         G[s[Len(s)]] = y, G[y] = EOC,
         \A k \in 1..(Len(s) - 1) : G[s[k]] = F[s[k]]
  PROVE  Path(G, Append(s, y))
<1> DEFINE t == Append(s, y)
<1>1. s \in Seq(Clus) /\ s # <<>> /\ Len(s) \in Nat /\ Len(s) >= 1
  BY DEF Path
<1>2. t \in Seq(Clus) /\ Len(t) = Len(s) + 1 /\ t # <<>> /\ t[Len(s) + 1] = y
        /\ \A k \in 1..Len(s) : t[k] = s[k]
  BY <1>1
<1>3. \A k \in 1..Len(s) : s[k] # y
  BY <1>1 DEF Range
<1> HIDE DEF t
<1>4. \A j, k \in 1..Len(t) : t[j] = t[k] => j = k
  BY <1>1, <1>2, <1>3 DEF Path
<1>5. \A k \in 1..(Len(t) - 1) : G[t[k]] = t[k + 1]
  <2> SUFFICES ASSUME NEW k \in 1..(Len(t) - 1) PROVE G[t[k]] = t[k + 1]
    OBVIOUS
  <2>1. CASE k = Len(s)
    BY <1>1, <1>2, <2>1
  <2>2. CASE k # Len(s)
    <3>1. k \in 1..(Len(s) - 1) /\ k \in 1..Len(s) /\ k + 1 \in 1..Len(s)
      BY <1>1, <1>2, <2>2
    <3>2. F[s[k]] = s[k + 1]
      BY <3>1 DEF Path
    <3> QED BY <1>2, <3>1, <3>2
  <2> QED BY <2>1, <2>2
<1>6. Path(G, t)
  BY <1>1, <1>2, <1>4, <1>5 DEF Path
<1> QED BY <1>6 DEF t

(* Ending a chain at its k-th cluster.                                     *)
LEMMA PathCut ==
  ASSUME NEW F \in Tables, NEW G \in Tables, NEW s, Path(F, s),
         NEW k \in 1..Len(s), G[s[k]] = EOC,
         \A j \in 1..(k - 1) : G[s[j]] = F[s[j]]
  PROVE  Path(G, SubSeq(s, 1, k))
<1> DEFINE t == SubSeq(s, 1, k)
<1>1. s \in Seq(Clus) /\ Len(s) \in Nat /\ Len(s) >= 1
  BY DEF Path
<1>2. t \in Seq(Clus) /\ Len(t) = k /\ \A j \in 1..k : t[j] = s[j]
  BY <1>1
<1> HIDE DEF t
<1>3. t # <<>>
  BY <1>1, <1>2
<1>4. \A i, j \in 1..Len(t) : t[i] = t[j] => i = j
  BY <1>1, <1>2 DEF Path
<1>5. \A j \in 1..(Len(t) - 1) : G[t[j]] = t[j + 1]
  <2> SUFFICES ASSUME NEW j \in 1..(Len(t) - 1) PROVE G[t[j]] = t[j + 1]
    OBVIOUS
  <2>1. j \in 1..(k - 1) /\ j \in 1..k /\ j + 1 \in 1..k /\ j \in 1..(Len(s) - 1)
    BY <1>1, <1>2
  <2>2. F[s[j]] = s[j + 1]
    BY <2>1 DEF Path
  <2> QED BY <1>2, <2>1, <2>2
<1>6. G[t[Len(t)]] = EOC
  BY <1>1, <1>2
<1>7. Path(G, t)
  BY <1>2, <1>3, <1>4, <1>5, <1>6 DEF Path
<1> QED BY <1>7 DEF t

(* What follows a cluster of a chain is a chain.                           *)
LEMMA PathTail ==
  ASSUME NEW F \in Tables, NEW s, Path(F, s), NEW k \in 1..Len(s)
  PROVE  /\ Path(F, SubSeq(s, k, Len(s))) /\ Chain(F, s[k]) = SubSeq(s, k, Len(s))
         /\ s[k] \in Clus
<1> DEFINE t == SubSeq(s, k, Len(s))
<1>1. s \in Seq(Clus) /\ Len(s) \in Nat /\ Len(s) >= 1
  BY DEF Path
<1>2. t \in Seq(Clus) /\ Len(t) = Len(s) - k + 1 /\ \A j \in 1..Len(t) : t[j] = s[k + j - 1]
  BY <1>1
<1> HIDE DEF t
<1>3. t # <<>>
  BY <1>1, <1>2
<1>4. \A i, j \in 1..Len(t) : t[i] = t[j] => i = j
  <2> SUFFICES ASSUME NEW i \in 1..Len(t), NEW j \in 1..Len(t), t[i] = t[j] PROVE i = j
    OBVIOUS
  <2>1. PICK u, v : u = k + i - 1 /\ v = k + j - 1
    OBVIOUS
  <2>2. u \in 1..Len(s) /\ v \in 1..Len(s) /\ (u = v => i = j)
    BY <1>1, <1>2, <2>1
  <2>3. s[u] = s[v]
    BY <1>2, <2>1
  <2>4. u = v
    BY <2>2, <2>3 DEF Path
  <2> QED BY <2>2, <2>4
<1>5. \A j \in 1..(Len(t) - 1) : F[t[j]] = t[j + 1]
  <2> SUFFICES ASSUME NEW j \in 1..(Len(t) - 1) PROVE F[t[j]] = t[j + 1]
    OBVIOUS
  <2>1. j \in 1..Len(t) /\ j + 1 \in 1..Len(t) /\ k + j - 1 \in 1..(Len(s) - 1)
        /\ k + (j + 1) - 1 = (k + j - 1) + 1
    BY <1>1, <1>2
  <2>2. F[s[k + j - 1]] = s[(k + j - 1) + 1]
    BY <2>1 DEF Path
  <2>3. t[j] = s[k + j - 1] /\ t[j + 1] = s[k + (j + 1) - 1]
    BY <1>2, <2>1
  <2> QED BY <2>1, <2>2, <2>3
<1>6. F[t[Len(t)]] = EOC
  <2>1. Len(t) \in 1..Len(t) /\ k + Len(t) - 1 = Len(s)
    BY <1>1, <1>2
  <2>2. t[Len(t)] = s[Len(s)]
    BY <1>2, <2>1
  <2> QED BY <2>2 DEF Path
<1>7. Path(F, t)
  BY <1>2, <1>3, <1>4, <1>5, <1>6 DEF Path
<1>8. t[1] = s[k]
  BY <1>1, <1>2
<1>9. Chain(F, t[1]) = t /\ t[1] \in Clus
  BY <1>7, PathIsChain
<1> QED BY <1>7, <1>8, <1>9 DEF t

(* Who may hold a chain: the record at a position of a cluster, or the     *)
(* volume itself, which holds the root's.  A claim is an owner and the     *)
(* first cluster it names.                                                 *)
Places == Clus \X (1..UNITS)
RootClaim == <<<<Root, 0>>, Root>>
AllClaims == Places \X Clus
Own(F, a) == Range(Chain(F, a))

(* The table F serves the claims E: every chain claimed is whole, and no   *)
(* two owners have a cluster in common.                                    *)
Sound(F, E) ==
  /\ \A z \in E \cup {RootClaim} : Path(F, Chain(F, z[2]))
  /\ \A y, z \in E \cup {RootClaim} :
       y[1] # z[1] => Own(F, y[2]) \cap Own(F, z[2]) = {}

(* No claim has cluster c.                                                 *)
Unowned(F, E, c) == \A z \in E \cup {RootClaim} : c \notin Own(F, z[2])

(* The claims are of clusters.                                             *)
LEMMA ClaimType ==
  ASSUME NEW E \in SUBSET AllClaims, NEW z \in E \cup {RootClaim}
  PROVE  z[2] \in Clus /\ z[2] \in Links
BY ConstFacts DEF AllClaims, RootClaim, Links

(* Fewer claims are served as well.                                        *)
LEMMA SoundSub ==
  ASSUME NEW F, NEW E, NEW D, D \subseteq E, Sound(F, E)
  PROVE  Sound(F, D)
<1>1. \A z \in D \cup {RootClaim} : z \in E \cup {RootClaim}
  OBVIOUS
<1> QED BY <1>1, Zenon DEF Sound

(* A cluster no claim has, none of fewer claims has.                       *)
LEMMA UnownedSub ==
  ASSUME NEW F, NEW E, NEW D, D \subseteq E, NEW c, Unowned(F, E, c)
  PROVE  Unowned(F, D, c)
BY DEF Unowned

(* Every cluster in use by a claim is marked in use: a free one is nobody's. *)
LEMMA FreeUnowned ==
  ASSUME NEW F \in Tables, NEW E \in SUBSET AllClaims, Sound(F, E),
         NEW c \in Clus, F[c] = FREE
  PROVE  Unowned(F, E, c)
<1> SUFFICES ASSUME NEW z \in E \cup {RootClaim}, c \in Own(F, z[2]) PROVE FALSE
  BY DEF Unowned
<1>1. PICK s : s = Chain(F, z[2])
  OBVIOUS
<1>2. Path(F, s)
  BY <1>1 DEF Sound
<1>3. PICK k \in 1..Len(s) : s[k] = c
  BY <1>1, <1>2 DEF Own, Range, Path
<1>4. s \in Seq(Clus) /\ Len(s) \in Nat
  BY <1>2 DEF Path
<1>5. CASE k = Len(s)
  BY <1>2, <1>3, <1>5, ConstFacts DEF Path
<1>6. CASE k # Len(s)
  <2>1. k \in 1..(Len(s) - 1) /\ k + 1 \in 1..Len(s)
    BY <1>4, <1>6
  <2>2. F[s[k]] = s[k + 1] /\ s[k + 1] \in Clus
    BY <1>2, <1>4, <2>1 DEF Path
  <2> QED BY <1>3, <2>2, ConstFacts
<1> QED BY <1>5, <1>6

(* The end of a chain is the end of every chain it is on.                  *)
LEMMA EndIsLast ==
  ASSUME NEW F \in Tables, NEW s, Path(F, s), NEW k \in 1..Len(s), F[s[k]] = EOC
  PROVE  k = Len(s)
<1> SUFFICES ASSUME k # Len(s) PROVE FALSE
  OBVIOUS
<1>4. s \in Seq(Clus) /\ Len(s) \in Nat
  BY DEF Path
<1>1. k \in 1..(Len(s) - 1) /\ k + 1 \in 1..Len(s)
  BY <1>4
<1>2. F[s[k]] = s[k + 1] /\ s[k + 1] \in Clus
  BY <1>4, <1>1 DEF Path
<1> QED BY <1>2, ConstFacts

(* Changes outside every chain that is claimed change no claim.            *)
LEMMA SoundOff ==
  ASSUME NEW F \in Tables, NEW G \in Tables, NEW E \in SUBSET AllClaims, Sound(F, E),
         NEW C, \A c \in C : Unowned(F, E, c), \A c \in Clus \ C : G[c] = F[c]
  PROVE  /\ Sound(G, E)
         /\ \A z \in E \cup {RootClaim} : Chain(G, z[2]) = Chain(F, z[2])
         /\ \A c \in Clus : Unowned(F, E, c) => Unowned(G, E, c)
<1>1. ASSUME NEW z \in E \cup {RootClaim}
      PROVE  Chain(G, z[2]) = Chain(F, z[2]) /\ Path(G, Chain(F, z[2]))
  <2>1. PICK s : s = Chain(F, z[2])
    OBVIOUS
  <2>2. Path(F, s)
    BY <2>1 DEF Sound
  <2>3. \A c \in Range(s) : c \in Clus /\ c \notin C
    BY <2>1, <2>2 DEF Unowned, Own, Path, Range
  <2>4. Path(G, s)
    BY <2>2, <2>3, PathSame
  <2>5. z[2] \in Clus /\ z[2] \in Links
    BY ClaimType
  <2>6. s[1] = z[2]
    BY <2>1, <2>5, ChainType
  <2>7. Chain(G, s[1]) = s
    BY <2>4, PathIsChain
  <2> QED BY <2>1, <2>4, <2>6, <2>7
<1>2. \A z \in E \cup {RootClaim} : Own(G, z[2]) = Own(F, z[2])
  BY <1>1 DEF Own
<1>3. Sound(G, E)
  BY <1>1, <1>2 DEF Sound
<1> QED BY <1>1, <1>2, <1>3 DEF Unowned

(* The chains that held cluster x go on with y.                            *)
Grown(F, G, E, x, y) ==
  \A z \in E \cup {RootClaim} :
    /\ Chain(G, z[2]) = IF x \in Own(F, z[2]) THEN Append(Chain(F, z[2]), y)
                        ELSE Chain(F, z[2])
    /\ Own(G, z[2]) = IF x \in Own(F, z[2]) THEN Own(F, z[2]) \cup {y} ELSE Own(F, z[2])

(* Linking a cluster that is nobody's behind one that ends a chain.        *)
LEMMA SoundLink ==
  ASSUME NEW F \in Tables, NEW E \in SUBSET AllClaims, Sound(F, E),
         NEW x \in Clus, NEW y \in Clus, x # y, F[x] = EOC, F[y] = EOC,
         Unowned(F, E, y), NEW G, G = [F EXCEPT ![x] = y]
  PROVE  G \in Tables /\ Sound(G, E) /\ Grown(F, G, E, x, y)
<1>1. G \in Tables /\ G[x] = y /\ G[y] = EOC /\ \A c \in Clus : c # x => G[c] = F[c]
  BY DEF Tables, Links
<1>2. ASSUME NEW z \in E \cup {RootClaim}
      PROVE  /\ Path(G, Chain(G, z[2]))
             /\ Chain(G, z[2]) = IF x \in Own(F, z[2]) THEN Append(Chain(F, z[2]), y)
                                 ELSE Chain(F, z[2])
             /\ Own(G, z[2]) = IF x \in Own(F, z[2]) THEN Own(F, z[2]) \cup {y} ELSE Own(F, z[2])
  <2>1. PICK s : s = Chain(F, z[2])
    OBVIOUS
  <2>2. Path(F, s) /\ s \in Seq(Clus) /\ Len(s) \in Nat
    BY <2>1 DEF Sound, Path
  <2>5. z[2] \in Clus /\ z[2] \in Links
    BY ClaimType
  <2>6. s[1] = z[2] /\ Len(s) >= 1
    BY <2>1, <2>5, ChainType
  <2>7. y \notin Range(s)
    BY <2>1 DEF Unowned, Own
  <2>3. CASE x \notin Range(s)
    <3>1. \A c \in Range(s) : c \in Clus /\ c # x
      BY <2>2, <2>3 DEF Range
    <3>2. Path(G, s)
      BY <1>1, <2>2, <3>1, PathSame, ZenonT(60)
    <3>3. Chain(G, s[1]) = s
      BY <1>1, <3>2, PathIsChain
    <3> QED BY <2>1, <2>3, <2>6, <3>2, <3>3 DEF Own
  <2>4. CASE x \in Range(s)
    <3>1. PICK k \in 1..Len(s) : s[k] = x
      BY <2>2, <2>4 DEF Range
    <3>2. k = Len(s)
      BY <2>2, <3>1, EndIsLast
    <3>3. \A j \in 1..(Len(s) - 1) : s[j] \in Clus /\ s[j] # x
      <4> SUFFICES ASSUME NEW j \in 1..(Len(s) - 1) PROVE s[j] \in Clus /\ s[j] # x
        OBVIOUS
      <4>1. j \in 1..Len(s) /\ Len(s) \in 1..Len(s) /\ j # Len(s)
        BY <2>2, <2>6
      <4> QED BY <2>2, <3>1, <3>2, <4>1 DEF Path
    <3>4. Path(G, Append(s, y))
      BY <1>1, <2>2, <2>7, <3>1, <3>2, <3>3, PathExtend, ZenonT(60)
    <3>5. Append(s, y)[1] = s[1]
      BY <2>2, <2>6
    <3>6. Chain(G, s[1]) = Append(s, y)
      BY <1>1, <3>4, <3>5, PathIsChain
    <3>7. Range(Append(s, y)) = Range(s) \cup {y}
      <4>1. Len(Append(s, y)) = Len(s) + 1 /\ Append(s, y)[Len(s) + 1] = y
            /\ \A j \in 1..Len(s) : Append(s, y)[j] = s[j]
        BY <2>2
      <4>2. DOMAIN Append(s, y) = 1..(Len(s) + 1) /\ DOMAIN s = 1..Len(s)
        BY <2>2
      <4> QED BY <2>2, <4>1, <4>2 DEF Range
    <3> QED BY <2>1, <2>4, <2>6, <3>4, <3>6, <3>7 DEF Own
  <2> QED BY <2>3, <2>4
<1>3. ASSUME NEW u \in E \cup {RootClaim}, NEW z \in E \cup {RootClaim}, u[1] # z[1]
      PROVE  Own(G, u[2]) \cap Own(G, z[2]) = {}
  <2>1. Own(F, u[2]) \cap Own(F, z[2]) = {}
    BY <1>3 DEF Sound
  <2>2. y \notin Own(F, u[2]) /\ y \notin Own(F, z[2])
    BY DEF Unowned
  <2> QED BY <1>2, <2>1, <2>2
<1>4. Sound(G, E)
  BY <1>2, <1>3 DEF Sound
<1>5. Grown(F, G, E, x, y)
  BY <1>2 DEF Grown
<1> QED BY <1>1, <1>4, <1>5

(* A cluster that is nobody's and ends a chain may be claimed.             *)
LEMMA SoundAdd ==
  ASSUME NEW F \in Tables, NEW E \in SUBSET AllClaims, Sound(F, E),
         NEW a \in Clus, F[a] = EOC, Unowned(F, E, a), NEW o
  PROVE  Sound(F, E \cup {<<o, a>>}) /\ Chain(F, a) = <<a>>
<1>1. Path(F, <<a>>)
  BY DEF Path
<1>2. Chain(F, a) = <<a>> /\ Own(F, a) = {a}
  <2>1. <<a>>[1] = a
    OBVIOUS
  <2>2. Chain(F, a) = <<a>>
    BY <1>1, <2>1, PathIsChain
  <2>3. Range(<<a>>) = {a}
    BY DEF Range
  <2> QED BY <2>2, <2>3 DEF Own
<1> DEFINE n == <<o, a>>
<1>3. n[2] = a
  OBVIOUS
<1> HIDE DEF n
<1>4. \A z \in E \cup {RootClaim} : Own(F, n[2]) \cap Own(F, z[2]) = {}
  BY <1>2, <1>3 DEF Unowned
<1>5. Sound(F, E \cup {n})
  <2>1. \A z \in (E \cup {n}) \cup {RootClaim} : z = n \/ z \in E \cup {RootClaim}
    OBVIOUS
  <2>2. \A z \in (E \cup {n}) \cup {RootClaim} : Path(F, Chain(F, z[2]))
    BY <1>1, <1>2, <1>3, <2>1 DEF Sound
  <2>3. ASSUME NEW y \in (E \cup {n}) \cup {RootClaim}, NEW z \in (E \cup {n}) \cup {RootClaim}, y[1] # z[1]
        PROVE  Own(F, y[2]) \cap Own(F, z[2]) = {}
    <3>1. CASE y = n
      BY <1>4, <2>1, <2>3, <3>1
    <3>2. CASE z = n
      BY <1>4, <2>1, <2>3, <3>2
    <3>3. CASE y # n /\ z # n
      BY <2>1, <2>3, <3>3 DEF Sound
    <3> QED BY <3>1, <3>2, <3>3
  <2> QED BY <2>2, <2>3 DEF Sound
<1> QED BY <1>2, <1>5 DEF n

(* The table G ends at x a chain of F.                                     *)
EndedAt(F, G, x) == G \in Tables /\ G[x] = EOC /\ \A c \in Clus : c # x => G[c] = F[c]
(* Cutting the one chain an owner claims leaves every other as it was, and *)
(* what was behind the cut is nobody's.                                    *)
LEMMA SoundCut ==
  ASSUME NEW F \in Tables, NEW E \in SUBSET AllClaims, Sound(F, E),
         NEW n \in E, \A z \in E : z[1] = n[1] => z[2] = n[2], n[1] # RootClaim[1],
         NEW ch, ch = Chain(F, n[2]), NEW k \in 1..Len(ch), NEW G, EndedAt(F, G, ch[k])
  PROVE  /\ Sound(G, E) /\ Chain(G, Root) = Chain(F, Root)
         /\ Chain(G, n[2]) = SubSeq(ch, 1, k)
         /\ \A z \in E : z[1] # n[1] => Chain(G, z[2]) = Chain(F, z[2])
         /\ \A j \in (k + 1)..Len(ch) : Unowned(G, E, ch[j])
<1>0. PICK o, a : n[1] = o /\ n[2] = a /\ n \in E
  OBVIOUS
<1>1. PICK s : s = Chain(F, a)
  OBVIOUS
<1>x. s = ch
  BY <1>0, <1>1
<1>2. Path(F, s) /\ s \in Seq(Clus) /\ Len(s) \in Nat /\ k \in 1..Len(s) /\ s[k] \in Clus
  <2>1. Path(F, Chain(F, n[2]))
    BY DEF Sound
  <2>2. Path(F, s) /\ k \in 1..Len(s)
    BY <1>0, <1>1, <1>x, <2>1
  <2> QED BY <2>2 DEF Path
<1>3. G \in Tables /\ G[s[k]] = EOC /\ \A c \in Clus : c # s[k] => G[c] = F[c]
  BY <1>x DEF EndedAt
<1>4. Path(G, SubSeq(s, 1, k))
  <2>1. \A j \in 1..(k - 1) : s[j] \in Clus /\ s[j] # s[k]
    BY <1>2 DEF Path
  <2>2. \A j \in 1..(k - 1) : G[s[j]] = F[s[j]]
    BY <1>3, <2>1
  <2> QED BY <1>2, <1>3, <2>2, PathCut
<1>5. Chain(G, a) = SubSeq(s, 1, k)
  <2>1. SubSeq(s, 1, k)[1] = s[1]
    BY <1>2
  <2>2. a \in Clus /\ a \in Links
    BY <1>0, ClaimType
  <2>3. s[1] = a
    BY <1>1, <2>2, ChainType
  <2> QED BY <1>3, <1>4, <2>1, <2>3, PathIsChain
<1>6. Own(G, a) = {s[j] : j \in 1..k} /\ Own(F, a) = {s[j] : j \in 1..Len(s)}
  <2>1. Len(SubSeq(s, 1, k)) = k /\ \A j \in 1..k : SubSeq(s, 1, k)[j] = s[j]
    BY <1>2
  <2>2. DOMAIN SubSeq(s, 1, k) = 1..k /\ DOMAIN s = 1..Len(s)
    BY <1>2, <2>1
  <2>3. Range(SubSeq(s, 1, k)) = {SubSeq(s, 1, k)[j] : j \in 1..k} /\ Range(s) = {s[j] : j \in 1..Len(s)}
    BY <2>2 DEF Range
  <2>4. {SubSeq(s, 1, k)[j] : j \in 1..k} = {s[j] : j \in 1..k}
    BY <2>1
  <2> QED BY <1>1, <1>5, <2>3, <2>4 DEF Own
<1>7. ASSUME NEW z \in E \cup {RootClaim}, z[1] # o
      PROVE  Chain(G, z[2]) = Chain(F, z[2]) /\ Path(G, Chain(F, z[2])) /\ \A j \in 1..Len(s) : s[j] \notin Own(F, z[2])
  <2>1. PICK t : t = Chain(F, z[2])
    OBVIOUS
  <2>2. Path(F, t)
    BY <2>1 DEF Sound
  <2>3. n \in E \cup {RootClaim} /\ n[1] # z[1]
    BY <1>0, <1>7
  <2>4. Own(F, n[2]) \cap Own(F, z[2]) = {}
    BY <2>3 DEF Sound
  <2>5. \A j \in 1..Len(s) : s[j] \notin Own(F, z[2])
    BY <1>0, <1>6, <2>4
  <2>6. \A c \in Range(t) : c \in Clus /\ c # s[k]
    BY <1>2, <2>1, <2>2, <2>5 DEF Own, Path, Range
  <2>7. Path(G, t)
    BY <1>3, <2>2, <2>6, PathSame
  <2>8. z[2] \in Clus /\ z[2] \in Links
    BY ClaimType
  <2>9. t[1] = z[2]
    BY <2>1, <2>8, ChainType
  <2>10. Chain(G, t[1]) = t
    BY <1>3, <2>7, PathIsChain
  <2> QED BY <2>1, <2>5, <2>7, <2>9, <2>10
<1>8. \A z \in E \cup {RootClaim} : z[1] = o => z[2] = a
  BY <1>0
<1>9. \A z \in E \cup {RootClaim} : Path(G, Chain(G, z[2]))
  BY <1>4, <1>5, <1>7, <1>8
<1>10. \A z \in E \cup {RootClaim} : Own(G, z[2]) \subseteq Own(F, z[2])
  <2> SUFFICES ASSUME NEW z \in E \cup {RootClaim} PROVE Own(G, z[2]) \subseteq Own(F, z[2])
    OBVIOUS
  <2>1. CASE z[1] = o
    <3>1. z[2] = a
      BY <1>8, <2>1
    <3>2. \A j \in 1..k : j \in 1..Len(s)
      BY <1>2
    <3>3. {s[j] : j \in 1..k} \subseteq {s[j] : j \in 1..Len(s)}
      BY <3>2
    <3> QED BY <1>6, <3>1, <3>3
  <2>2. CASE z[1] # o
    BY <1>7, <2>2 DEF Own
  <2> QED BY <2>1, <2>2
<1>11. Sound(G, E)
  <2>1. ASSUME NEW y \in E \cup {RootClaim}, NEW z \in E \cup {RootClaim}, y[1] # z[1]
        PROVE  Own(G, y[2]) \cap Own(G, z[2]) = {}
    <3>1. Own(F, y[2]) \cap Own(F, z[2]) = {}
      BY <2>1 DEF Sound
    <3> QED BY <1>10, <3>1
  <2> QED BY <1>9, <2>1 DEF Sound
<1>12. ASSUME NEW j \in (k + 1)..Len(s) PROVE Unowned(G, E, s[j])
  <2> SUFFICES ASSUME NEW z \in E \cup {RootClaim} PROVE s[j] \notin Own(G, z[2])
    BY DEF Unowned
  <2>0. j \in 1..Len(s)
    BY <1>2
  <2>1. CASE z[1] = o
    <3>1. z[2] = a
      BY <1>8, <2>1
    <3>2. \A i \in 1..k : s[i] # s[j]
      BY <1>2, <2>0 DEF Path
    <3> QED BY <1>6, <3>1, <3>2
  <2>2. CASE z[1] # o
    BY <1>7, <1>10, <2>0, <2>2
  <2> QED BY <2>1, <2>2
<1>13. Chain(G, Root) = Chain(F, Root)
  <2>1. Chain(G, RootClaim[2]) = Chain(F, RootClaim[2])
    BY <1>0, <1>7
  <2> QED BY <2>1 DEF RootClaim
<1>14. \A z \in E : z[1] # o => Chain(G, z[2]) = Chain(F, z[2])
  BY <1>7
<1> QED BY <1>0, <1>x, <1>5, <1>11, <1>12, <1>13, <1>14

-----------------------------------------------------------------------------
(* What an operation does to the volume, apart from the device: the table  *)
(* and the data as reads return them, the tables and the claims that a     *)
(* loss of power may leave, and the in-core inodes.                        *)

Entries == [kind : {"file", "dir"}, name : Names, first : Links, size : Nat]
Blanks == {Zero, Deleted, Dots, Stale} \cup {Byte(n, g) : n \in FileNames, g \in 0..1}
          \cup {Lfn(n) : n \in Names}
Units == Entries \cup Blanks
Sectors == [1..UNITS -> Units]
Patches == UNION {[J -> Units] : J \in SUBSET (1..UNITS)}
Inodes == [first : Links, size : Nat, cur : Links, curi : Nat]

Undos == {<<>>} \cup {<<SetFat(c, FREE, "low")>> : c \in Clus}
         \cup {<<Core(i, in)>> : i \in Nat, in \in Inodes}
Steps ==
  [k : {"data"}, c : Clus, u : Patches, undo : Undos] \cup
  [k : {"xfer"}, c : Clus, u : Patches, i : Nat, pos : Nat, undo : Undos] \cup
  [k : {"fat"}, c : Clus, v : Links, hint : {"next", "low", "keep"}, undo : Undos] \cup
  [k : {"barrier"}, undo : Undos] \cup
  [k : {"core"}, i : Nat, in : Inodes, undo : Undos] \cup
  [k : {"refuse"}, undo : Undos]

(* The claims of the records in the data area.                             *)
DatClaims(dat) ==
  {z \in AllClaims : /\ IsEntry(dat[z[1][1]][z[1][2]])
                     /\ dat[z[1][1]][z[1][2]].first = z[2]}

Sym(fat, tabs, dat, ent, core) ==
  [fat |-> fat, tabs |-> tabs, dat |-> dat, ent |-> ent, core |-> core]

SymType(s) ==
  /\ s.fat \in Tables /\ s.tabs \in SUBSET Tables /\ s.fat \in s.tabs
  /\ s.dat \in [Clus -> Sectors]
  /\ s.ent \in SUBSET AllClaims /\ DatClaims(s.dat) \subseteq s.ent
  /\ s.core \in [Slots -> Inodes]

(* The place of directory index i, and the claims of the in-core inodes    *)
(* but for those of the indexes in X.                                      *)
InRoot(F, i) == i \in 1..(Len(Chain(F, Root)) * UNITS)
SlotPlace(F, i) == <<Chain(F, Root)[1 + ((i - 1) \div UNITS)], 1 + ((i - 1) % UNITS)>>
CoreClaims(F, core, X) ==
  {<<SlotPlace(F, i), core[i].first>> : i \in {k \in Slots \ X : core[k].first \in Clus}}

(* Every table a loss of power may leave serves the claims it may leave,   *)
(* and the table in use also those of the in-core inodes.                  *)
Good(s, X) ==
  /\ SymType(s)
  /\ \A F \in s.tabs : Sound(F, s.ent)
  /\ Sound(s.fat, s.ent \cup CoreClaims(s.fat, s.core, X))
  /\ \A i \in Slots \ X : s.core[i].first \in Clus => InRoot(s.fat, i)

(* What one step does.                                                     *)
Does(s, st, t) ==
  \/ /\ st.k \in {"data", "xfer"}
     /\ t = Sym(s.fat, s.tabs, [s.dat EXCEPT ![st.c] = Merge(st.u, @)],
                s.ent \cup DatClaims([s.dat EXCEPT ![st.c] = Merge(st.u, @)]),
                IF st.k = "data" THEN s.core
                ELSE [s.core EXCEPT ![st.i].cur = st.c, ![st.i].curi = st.pos])
  \/ /\ st.k = "fat"
     /\ t = Sym([s.fat EXCEPT ![st.c] = st.v], s.tabs \cup {[s.fat EXCEPT ![st.c] = st.v]},
                s.dat, s.ent, s.core)
  \/ st.k = "barrier" /\ t = Sym(s.fat, {s.fat}, s.dat, DatClaims(s.dat), s.core)
  \/ st.k = "core" /\ t = Sym(s.fat, s.tabs, s.dat, s.ent, [s.core EXCEPT ![st.i] = st.in])

(* An operation may fail here: what it then undoes leaves a good state.    *)
Undoable(s, undo) ==
  \/ undo = <<>>
  \/ \E st \in Steps : \E t : undo = <<st>> /\ st.undo = <<>> /\ Does(s, st, t) /\ Good(t, {})

Moves(s, st, t, X) ==
  /\ st \in Steps /\ Does(s, st, t) /\ Good(t, X)
  /\ X = {} => Undoable(s, st.undo) /\ (st.k = "fat" => Undoable(t, st.undo))

(* The steps p lead from s to t, through good states only.                 *)
Exec(s, p, t, X) ==
  /\ p \in Seq(Steps)
  /\ \E tr : /\ tr[0] = s /\ tr[Len(p)] = t
             /\ \A j \in 1..Len(p) : Moves(tr[j - 1], p[j], tr[j], X)

(* A plan is safe from s: up to its end or to the step it refuses at it    *)
(* goes through good states, and so does what is undone when it fails.     *)
Safe(s, p, X) ==
  /\ p \in Seq(Steps)
  /\ \E tr : \E m \in 0..Len(p) :
       /\ tr[0] = s
       /\ \A j \in 1..m : Moves(tr[j - 1], p[j], tr[j], X)
       /\ m = Len(p) => Good(tr[m], {})
       /\ m < Len(p) => p[m + 1].k = "refuse" /\ X = {} /\ Undoable(tr[m], p[m + 1].undo)

(* No steps change nothing.                                                *)
LEMMA ExecNil ==
  ASSUME NEW s, NEW X PROVE Exec(s, <<>>, s, X)
<1> DEFINE tr == [j \in 0..0 |-> s]
<1>1. tr[0] = s /\ tr[Len(<<>>)] = s
  OBVIOUS
<1>2. \A j \in 1..Len(<<>>) : Moves(tr[j - 1], <<>>[j], tr[j], X)
  OBVIOUS
<1> HIDE DEF tr
<1>3. <<>> \in Seq(Steps)
  OBVIOUS
<1> QED BY <1>1, <1>2, <1>3 DEF Exec

(* One step is a run of one step.                                          *)
LEMMA ExecOne ==
  ASSUME NEW s, NEW t, NEW st, NEW X, Moves(s, st, t, X)
  PROVE  Exec(s, <<st>>, t, X)
<1> DEFINE tr == [j \in 0..1 |-> IF j = 0 THEN s ELSE t]
           p == <<st>>
<1>1. tr[0] = s /\ tr[1] = t
  OBVIOUS
<1>2. p[1] = st /\ Len(p) = 1
  OBVIOUS
<1>3. p \in Seq(Steps)
  BY DEF Moves
<1> HIDE DEF tr, p
<1>4. \A j \in 1..Len(p) : Moves(tr[j - 1], p[j], tr[j], X)
  BY <1>1, <1>2
<1>5. Exec(s, p, t, X)
  BY <1>1, <1>2, <1>3, <1>4 DEF Exec
<1> QED BY <1>5 DEF p

(* A run can be followed by another.                                       *)
LEMMA ExecExec ==
  ASSUME NEW r, NEW s, NEW t, NEW p, NEW q, NEW X, Exec(r, p, s, X), Exec(s, q, t, X)
  PROVE  Exec(r, p \o q, t, X)
<1>1. PICK tr : /\ tr[0] = r /\ tr[Len(p)] = s
                /\ \A j \in 1..Len(p) : Moves(tr[j - 1], p[j], tr[j], X)
  BY DEF Exec
<1>2. PICK ts : /\ ts[0] = s /\ ts[Len(q)] = t
                /\ \A j \in 1..Len(q) : Moves(ts[j - 1], q[j], ts[j], X)
  BY DEF Exec
<1>3. p \in Seq(Steps) /\ q \in Seq(Steps) /\ Len(p) \in Nat /\ Len(q) \in Nat
  BY DEF Exec
<1> DEFINE pq == p \o q
           tq == [j \in 0..(Len(p) + Len(q)) |-> IF j <= Len(p) THEN tr[j] ELSE ts[j - Len(p)]]
<1>4. pq \in Seq(Steps) /\ Len(pq) = Len(p) + Len(q)
      /\ (\A j \in 1..Len(p) : pq[j] = p[j])
      /\ \A j \in 1..Len(q) : pq[Len(p) + j] = q[j]
  BY <1>3
<1>5. \A j \in 0..Len(p) : tq[j] = tr[j]
  BY <1>3
<1>6. \A j \in 0..Len(q) : tq[Len(p) + j] = ts[j]
  BY <1>1, <1>2, <1>3
<1> HIDE DEF pq, tq
<1>7. ASSUME NEW j \in 1..Len(pq) PROVE Moves(tq[j - 1], pq[j], tq[j], X)
  <2>1. CASE j <= Len(p)
    <3>1. j \in 1..Len(p) /\ j \in 0..Len(p) /\ j - 1 \in 0..Len(p)
      BY <1>3, <1>4, <2>1
    <3> QED BY <1>1, <1>4, <1>5, <3>1
  <2>2. CASE j > Len(p)
    <3>1. PICK i : i = j - Len(p)
      OBVIOUS
    <3>2. i \in 1..Len(q) /\ i \in 0..Len(q) /\ i - 1 \in 0..Len(q) /\ j = Len(p) + i /\ j - 1 = Len(p) + (i - 1)
      BY <1>3, <1>4, <2>2, <3>1
    <3>3. tq[j] = ts[i] /\ tq[j - 1] = ts[i - 1] /\ pq[j] = q[i]
      BY <1>4, <1>6, <3>2
    <3> QED BY <1>2, <3>2, <3>3
  <2> QED BY <1>3, <2>1, <2>2
<1>8. tq[0] = r /\ tq[Len(pq)] = t
  <2>1. 0 \in 0..Len(p) /\ Len(q) \in 0..Len(q)
    BY <1>3
  <2> QED BY <1>1, <1>2, <1>4, <1>5, <1>6, <2>1
<1>9. Exec(r, pq, t, X)
  BY <1>4, <1>7, <1>8 DEF Exec
<1> QED BY <1>9 DEF pq

(* What leads safely to a state that a plan is safe from.                  *)
LEMMA ExecSafe ==
  ASSUME NEW r, NEW s, NEW p, NEW q, NEW X, Exec(r, p, s, X), Safe(s, q, X)
  PROVE  Safe(r, p \o q, X)
<1>1. PICK tr : /\ tr[0] = r /\ tr[Len(p)] = s
                /\ \A j \in 1..Len(p) : Moves(tr[j - 1], p[j], tr[j], X)
  BY DEF Exec
<1>2a. PICK ts : \E m \in 0..Len(q) :
       /\ ts[0] = s
       /\ \A j \in 1..m : Moves(ts[j - 1], q[j], ts[j], X)
       /\ m = Len(q) => Good(ts[m], {})
       /\ m < Len(q) => q[m + 1].k = "refuse" /\ X = {} /\ Undoable(ts[m], q[m + 1].undo)
  BY DEF Safe
<1>2. PICK m \in 0..Len(q) :
       /\ ts[0] = s
       /\ \A j \in 1..m : Moves(ts[j - 1], q[j], ts[j], X)
       /\ m = Len(q) => Good(ts[m], {})
       /\ m < Len(q) => q[m + 1].k = "refuse" /\ X = {} /\ Undoable(ts[m], q[m + 1].undo)
  BY <1>2a
<1>3. p \in Seq(Steps) /\ q \in Seq(Steps) /\ Len(p) \in Nat /\ Len(q) \in Nat
  BY DEF Exec, Safe
<1> DEFINE pq == p \o q
           tq == [j \in 0..(Len(p) + m) |-> IF j <= Len(p) THEN tr[j] ELSE ts[j - Len(p)]]
           n == Len(p) + m
<1>4. pq \in Seq(Steps) /\ Len(pq) = Len(p) + Len(q)
      /\ (\A j \in 1..Len(p) : pq[j] = p[j])
      /\ \A j \in 1..Len(q) : pq[Len(p) + j] = q[j]
  BY <1>3
<1>5. \A j \in 0..Len(p) : tq[j] = tr[j]
  BY <1>3
<1>6. \A j \in 0..m : tq[Len(p) + j] = ts[j]
  BY <1>1, <1>2, <1>3
<1> HIDE DEF pq, tq
<1>10. n \in 0..Len(pq) /\ (n = Len(pq) => m = Len(q)) /\ (n < Len(pq) => m < Len(q)) /\ n = Len(p) + m
  BY <1>3, <1>4
<1> HIDE DEF n
<1>7. ASSUME NEW j \in 1..n PROVE Moves(tq[j - 1], pq[j], tq[j], X)
  <2>1. CASE j <= Len(p)
    <3>1. j \in 1..Len(p) /\ j \in 0..Len(p) /\ j - 1 \in 0..Len(p)
      BY <1>3, <1>4, <1>10, <2>1
    <3> QED BY <1>1, <1>4, <1>5, <3>1
  <2>2. CASE j > Len(p)
    <3>1. PICK i : i = j - Len(p)
      OBVIOUS
    <3>2. i \in 1..m /\ i \in 1..Len(q) /\ i \in 0..m /\ i - 1 \in 0..m /\ j = Len(p) + i /\ j - 1 = Len(p) + (i - 1)
      BY <1>2, <1>3, <1>4, <1>10, <2>2, <3>1
    <3>3. tq[j] = ts[i] /\ tq[j - 1] = ts[i - 1] /\ pq[j] = q[i]
      BY <1>4, <1>6, <3>2
    <3> QED BY <1>2, <3>2, <3>3
  <2> QED BY <1>3, <1>10, <2>1, <2>2
<1>8. tq[0] = r /\ tq[n] = ts[m]
  <2>1. 0 \in 0..Len(p) /\ m \in 0..m
    BY <1>2, <1>3
  <2> QED BY <1>1, <1>5, <1>6, <1>10, <2>1
<1>11. n < Len(pq) => pq[n + 1] = q[m + 1]
  <2> SUFFICES ASSUME n < Len(pq) PROVE pq[n + 1] = q[m + 1]
    OBVIOUS
  <2>1. m + 1 \in 1..Len(q) /\ n + 1 = Len(p) + (m + 1)
    BY <1>2, <1>3, <1>10
  <2> QED BY <1>4, <2>1
<1>9. Safe(r, pq, X)
  BY <1>2, <1>4, <1>7, <1>8, <1>10, <1>11, ZenonT(60) DEF Safe
<1> QED BY <1>9 DEF pq

(* A plan is safe at its end in a good state.                              *)
LEMMA SafeNil ==
  ASSUME NEW s, NEW X, Good(s, {}) PROVE Safe(s, <<>>, X)
<1> DEFINE tr == [j \in 0..0 |-> s]
           p == <<>>
<1>1. tr[0] = s /\ Len(p) = 0 /\ p \in Seq(Steps)
  OBVIOUS
<1> HIDE DEF tr, p
<1>2. Safe(s, p, X)
  <2>1. 0 \in 0..Len(p) /\ \A j \in 1..0 : Moves(tr[j - 1], p[j], tr[j], X)
    BY <1>1
  <2> QED BY <1>1, <2>1 DEF Safe
<1> QED BY <1>2 DEF p

(* A whole execution into a good state is a safe plan.                     *)
LEMMA ExecIsSafe ==
  ASSUME NEW s, NEW t, NEW p, NEW X, Exec(s, p, t, X), Good(t, {})
  PROVE  Safe(s, p, X)
<1>1. PICK tr : /\ tr[0] = s /\ tr[Len(p)] = t
                /\ \A j \in 1..Len(p) : Moves(tr[j - 1], p[j], tr[j], X)
  BY DEF Exec
<1>2. p \in Seq(Steps) /\ Len(p) \in Nat /\ Len(p) \in 0..Len(p)
  BY DEF Exec
<1> QED BY <1>1, <1>2 DEF Safe

(* A plan that refuses stops there.                                        *)
LEMMA SafeRefuse ==
  ASSUME NEW s, NEW st \in Steps, st.k = "refuse", Undoable(s, st.undo), NEW q \in Seq(Steps)
  PROVE  Safe(s, <<st>> \o q, {})
<1> DEFINE tr == [j \in 0..0 |-> s]
           p == <<st>> \o q
<1>1. tr[0] = s /\ Len(p) >= 1 /\ Len(p) \in Nat /\ p \in Seq(Steps) /\ p[1] = st
  OBVIOUS
<1> HIDE DEF tr, p
<1>2. Safe(s, p, {})
  <2>1. 0 \in 0..Len(p) /\ (\A j \in 1..0 : Moves(tr[j - 1], p[j], tr[j], {})) /\ 0 # Len(p) /\ 0 + 1 = 1
    BY <1>1
  <2> QED BY <1>1, <2>1 DEF Safe
<1> QED BY <1>2 DEF p

(* The next step of a safe plan, and what is left of it.                   *)
LEMMA SafeStep ==
  ASSUME NEW s, NEW p, NEW X, Safe(s, p, X), p # <<>>, Head(p).k # "refuse"
  PROVE  \E t : Moves(s, Head(p), t, X) /\ Safe(t, Tail(p), X)
<1>1a. PICK tr : \E m \in 0..Len(p) :
       /\ tr[0] = s
       /\ \A j \in 1..m : Moves(tr[j - 1], p[j], tr[j], X)
       /\ m = Len(p) => Good(tr[m], {})
       /\ m < Len(p) => p[m + 1].k = "refuse" /\ X = {} /\ Undoable(tr[m], p[m + 1].undo)
  BY DEF Safe
<1>1. PICK m \in 0..Len(p) :
       /\ tr[0] = s
       /\ \A j \in 1..m : Moves(tr[j - 1], p[j], tr[j], X)
       /\ m = Len(p) => Good(tr[m], {})
       /\ m < Len(p) => p[m + 1].k = "refuse" /\ X = {} /\ Undoable(tr[m], p[m + 1].undo)
  BY <1>1a
<1>2. p \in Seq(Steps) /\ Len(p) \in Nat /\ Len(p) >= 1 /\ Head(p) = p[1]
  BY DEF Safe
<1>3. m >= 1 /\ m \in Nat
  BY <1>1, <1>2
<1>4. Moves(s, Head(p), tr[1], X)
  <2>1. 1 \in 1..m /\ 1 - 1 = 0
    BY <1>3
  <2> QED BY <1>1, <1>2, <2>1
<1> DEFINE q == Tail(p)
           tq == [j \in 0..(m - 1) |-> tr[j + 1]]
<1>5. q \in Seq(Steps) /\ Len(q) = Len(p) - 1 /\ \A j \in 1..Len(q) : q[j] = p[j + 1]
  BY <1>2
<1>6. \A j \in 0..(m - 1) : tq[j] = tr[j + 1]
  OBVIOUS
<1> HIDE DEF q, tq
<1>7. m - 1 \in 0..Len(q) /\ tq[0] = tr[1]
  BY <1>1, <1>2, <1>3, <1>5, <1>6
<1>8. ASSUME NEW j \in 1..(m - 1) PROVE Moves(tq[j - 1], q[j], tq[j], X)
  <2>1. j + 1 \in 1..m /\ j \in 0..(m - 1) /\ j - 1 \in 0..(m - 1) /\ j \in 1..Len(q) /\ (j + 1) - 1 = j /\ (j - 1) + 1 = j
    BY <1>1, <1>2, <1>3, <1>5
  <2>2. Moves(tr[(j + 1) - 1], p[j + 1], tr[j + 1], X)
    BY <1>1, <2>1
  <2>3. tq[j - 1] = tr[j] /\ tq[j] = tr[j + 1] /\ q[j] = p[j + 1]
    BY <1>5, <1>6, <2>1
  <2> QED BY <2>1, <2>2, <2>3
<1>9. tq[m - 1] = tr[m] /\ (m - 1 = Len(q) => m = Len(p)) /\ (m - 1 < Len(q) => m < Len(p))
  <2>1. m - 1 \in 0..(m - 1) /\ (m - 1) + 1 = m
    BY <1>3
  <2> QED BY <1>2, <1>3, <1>5, <1>6, <2>1
<1>10. m - 1 < Len(q) => q[(m - 1) + 1] = p[m + 1]
  BY <1>2, <1>3, <1>5
<1>11. Safe(tr[1], q, X)
  BY <1>1, <1>5, <1>7, <1>8, <1>9, <1>10 DEF Safe
<1> QED BY <1>4, <1>11 DEF q

(* Where a safe plan refuses, what it undoes is safe.                      *)
LEMMA SafeStops ==
  ASSUME NEW s, NEW p, NEW X, Safe(s, p, X), p # <<>>, Head(p).k = "refuse"
  PROVE  X = {} /\ Undoable(s, Head(p).undo)
<1>1a. PICK tr : \E m \in 0..Len(p) :
       /\ tr[0] = s
       /\ \A j \in 1..m : Moves(tr[j - 1], p[j], tr[j], X)
       /\ m = Len(p) => Good(tr[m], {})
       /\ m < Len(p) => p[m + 1].k = "refuse" /\ X = {} /\ Undoable(tr[m], p[m + 1].undo)
  BY DEF Safe
<1>1. PICK m \in 0..Len(p) :
       /\ tr[0] = s
       /\ \A j \in 1..m : Moves(tr[j - 1], p[j], tr[j], X)
       /\ m = Len(p) => Good(tr[m], {})
       /\ m < Len(p) => p[m + 1].k = "refuse" /\ X = {} /\ Undoable(tr[m], p[m + 1].undo)
  BY <1>1a
<1>2. p \in Seq(Steps) /\ Len(p) \in Nat /\ Len(p) >= 1 /\ Head(p) = p[1]
  BY DEF Safe
<1>3. m = 0
  <2> SUFFICES ASSUME m # 0 PROVE FALSE
    OBVIOUS
  <2>1. 1 \in 1..m
    BY <1>1
  <2>2. Does(tr[1 - 1], p[1], tr[1])
    BY <1>1, <2>1 DEF Moves
  <2> QED BY <1>2, <2>2 DEF Does
<1> QED BY <1>1, <1>2, <1>3

(* A finished plan left a good state.                                      *)
LEMMA SafeEnd ==
  ASSUME NEW s, NEW X, Safe(s, <<>>, X)
  PROVE  Good(s, {})
<1>1. Len(<<>>) = 0
  OBVIOUS
<1> QED BY <1>1 DEF Safe

(* The steps that undo an operation are a safe plan.                       *)
LEMMA UndoSafe ==
  ASSUME NEW s, NEW u, Good(s, {}), Undoable(s, u)
  PROVE  Safe(s, u, {})
<1>1. CASE u = <<>>
  BY <1>1, SafeNil
<1>2. CASE u # <<>>
  <2>1a. PICK st \in Steps : \E t : u = <<st>> /\ st.undo = <<>> /\ Does(s, st, t) /\ Good(t, {})
    BY <1>2 DEF Undoable
  <2>1. PICK t : u = <<st>> /\ st.undo = <<>> /\ Does(s, st, t) /\ Good(t, {})
    BY <2>1a
  <2>2. Moves(s, st, t, {})
    BY <2>1 DEF Moves, Undoable
  <2>3. Exec(s, <<st>>, t, {})
    BY <2>2, ExecOne
  <2> QED BY <2>1, <2>3, ExecIsSafe
<1> QED BY <1>1, <1>2

(* The position of a unit in its file or directory: its cluster's, and     *)
(* its place in the cluster.                                               *)
LEMMA UnitPosition ==
  ASSUME NEW n \in Nat, NEW i \in 1..(n * UNITS)
  PROVE  1 + ((i - 1) \div UNITS) \in 1..n /\ 1 + ((i - 1) % UNITS) \in 1..UNITS
<1> DEFINE x == i - 1
           a == x \div UNITS
           r == x % UNITS
<1>0. UNITS \in Nat \ {0} /\ UNITS \in Nat /\ UNITS >= 1
  BY ConstFacts
<1>1. n * UNITS \in Nat
  BY <1>0
<1>2. x \in Nat /\ x < n * UNITS
  BY <1>1
<1> HIDE DEF x
<1>3. a \in Int /\ r \in 0..(UNITS - 1) /\ x = UNITS * a + r
  BY <1>0, <1>2, RingsAndSlot
<1> HIDE DEF a, r
<1>4. a >= 0
  <2>1. a <= -1 => UNITS * a <= -UNITS
    BY <1>0, <1>3
  <2> QED BY <1>0, <1>2, <1>3, <2>1
<1>5. a < n
  <2>1. a >= n => UNITS * a >= UNITS * n
    BY <1>0, <1>3
  <2>2. UNITS * n = n * UNITS
    BY <1>0
  <2> QED BY <1>0, <1>1, <1>2, <1>3, <2>1, <2>2
<1> QED BY <1>0, <1>3, <1>4, <1>5 DEF a, r, x

(* The converse: the unit j of the k-th cluster.                           *)
LEMMA PositionOf ==
  ASSUME NEW k \in Nat \ {0}, NEW j \in 1..UNITS, NEW i, i = (k - 1) * UNITS + j
  PROVE  i \in Nat /\ i >= 1 /\ 1 + ((i - 1) \div UNITS) = k /\ 1 + ((i - 1) % UNITS) = j
         /\ i <= k * UNITS
<1> DEFINE x == i - 1
           a == x \div UNITS
           r == x % UNITS
           d == a - (k - 1)
<1>0. UNITS \in Nat \ {0} /\ UNITS \in Nat /\ UNITS >= 1 /\ k - 1 \in Nat
  BY ConstFacts
<1>1. (k - 1) * UNITS \in Nat /\ (k - 1) * UNITS = UNITS * (k - 1) /\ k * UNITS = (k - 1) * UNITS + UNITS
  BY <1>0
<1>2. x \in Nat /\ x = UNITS * (k - 1) + (j - 1) /\ i \in Nat /\ i >= 1 /\ i <= k * UNITS
  BY <1>0, <1>1
<1> HIDE DEF x
<1>3. a \in Int /\ r \in 0..(UNITS - 1) /\ x = UNITS * a + r
  BY <1>0, <1>2, RingsAndSlot
<1> HIDE DEF a, r
<1>4. d \in Int /\ UNITS * d = UNITS * a - UNITS * (k - 1)
  BY <1>0, <1>3
<1>5. UNITS * d = (j - 1) - r
  BY <1>0, <1>2, <1>3, <1>4
<1> HIDE DEF d
<1>6. d >= 1 => UNITS * d >= UNITS
  BY <1>0, <1>4
<1>7. d <= -1 => UNITS * d <= -UNITS
  BY <1>0, <1>4
<1>8. d = 0
  BY <1>0, <1>3, <1>4, <1>5, <1>6, <1>7
<1>9. UNITS * d = 0
  BY <1>8, <1>0
<1>10. a = k - 1 /\ r = j - 1
  BY <1>0, <1>3, <1>5, <1>8, <1>9 DEF d
<1> QED BY <1>0, <1>2, <1>10 DEF a, r, x

(* A product grows with its factor.                                        *)
LEMMA TimesGrows ==
  \A a, b, u \in Nat : a <= b => a * u <= b * u
<1> SUFFICES ASSUME NEW a \in Nat, NEW b \in Nat, NEW u \in Nat, a <= b PROVE a * u <= b * u
  OBVIOUS
<1>1. PICK c \in Nat : b = a + c
  <2>1. b - a \in Nat /\ b = a + (b - a)
    OBVIOUS
  <2> QED BY <2>1
<1>2. (a + c) * u = a * u + c * u
  OBVIOUS
<1>3. a * u \in Nat /\ c * u \in Nat
  OBVIOUS
<1> QED BY <1>1, <1>2, <1>3

Index(k, j) == (k - 1) * UNITS + j
Position(i, k, j) ==
  i \in Nat /\ i >= 1 /\ 1 + ((i - 1) \div UNITS) = k /\ 1 + ((i - 1) % UNITS) = j /\ i <= k * UNITS

(* The same in words the provers do not calculate with.                    *)
LEMMA PositionAt ==
  ASSUME NEW k \in Nat \ {0}, NEW j \in 1..UNITS, NEW i, i = Index(k, j)
  PROVE  Position(i, k, j)
<1>1. i = (k - 1) * UNITS + j
  BY DEF Index
<1> QED BY <1>1, PositionOf DEF Position

(* Nothing but an entry is an entry.                                       *)
LEMMA BlanksAre ==
  /\ \A u \in Blanks : ~IsEntry(u)
  /\ \A u \in Entries : IsEntry(u)
  /\ Zero \in Units /\ Deleted \in Units /\ Dots \in Units
BY DEF Blanks, Entries, Units, IsEntry, Zero, Deleted, Dots, Stale, Byte, Lfn, Unit

(* The inodes in use hold places of the directory.                         *)
LEMMA CoreType ==
  ASSUME NEW F \in Tables, NEW core, NEW X,
         \A i \in Slots \ X : core[i].first \in Clus => InRoot(F, i)
  PROVE  CoreClaims(F, core, X) \in SUBSET AllClaims
<1> SUFFICES ASSUME NEW i \in Slots \ X, core[i].first \in Clus
             PROVE  <<SlotPlace(F, i), core[i].first>> \in AllClaims
  BY DEF CoreClaims
<1>1. PICK ch : ch = Chain(F, Root)
  OBVIOUS
<1>2. ch \in Seq(Clus) /\ Len(ch) \in Nat
  BY <1>1, ConstFacts, ChainType DEF Links
<1>3. i \in 1..(Len(ch) * UNITS)
  BY <1>1 DEF InRoot
<1>4. 1 + ((i - 1) \div UNITS) \in 1..Len(ch) /\ 1 + ((i - 1) % UNITS) \in 1..UNITS
  BY <1>2, <1>3, UnitPosition
<1>5. SlotPlace(F, i) \in Places
  BY <1>1, <1>2, <1>4 DEF SlotPlace, Places
<1> QED BY <1>5 DEF AllClaims

(* Writing part of a sector.                                               *)
LEMMA PatchIs ==
  ASSUME NEW u \in Patches, NEW d \in Sectors
  PROVE  /\ Merge(u, d) \in Sectors
         /\ \A j \in 1..UNITS : Merge(u, d)[j] = IF j \in DOMAIN u THEN u[j] ELSE d[j]
<1>1. PICK J \in SUBSET (1..UNITS) : u \in [J -> Units]
  BY DEF Patches
<1>2. DOMAIN u = J /\ DOMAIN d = 1..UNITS /\ (DOMAIN u) \cup (DOMAIN d) = 1..UNITS
  BY <1>1 DEF Sectors
<1>3. Merge(u, d) = [j \in 1..UNITS |-> IF j \in DOMAIN u THEN u[j] ELSE d[j]]
  BY <1>2 DEF Merge
<1>4. \A j \in 1..UNITS : (IF j \in DOMAIN u THEN u[j] ELSE d[j]) \in Units
  BY <1>1, <1>2 DEF Sectors
<1> QED BY <1>3, <1>4 DEF Sectors

(* The claims a write adds are those of the entries in it.                 *)
LEMMA PatchClaims ==
  ASSUME NEW dat \in [Clus -> Sectors], NEW c \in Clus, NEW u \in Patches,
         NEW new, new = [dat EXCEPT ![c] = Merge(u, @)]
  PROVE  /\ new \in [Clus -> Sectors]
         /\ \A b \in Clus, j \in 1..UNITS :
              new[b][j] = IF b = c /\ j \in DOMAIN u THEN u[j] ELSE dat[b][j]
         /\ \A z \in DatClaims(new) :
              \/ z \in DatClaims(dat) /\ ~(z[1][1] = c /\ z[1][2] \in DOMAIN u)
              \/ /\ z[1][1] = c /\ z[1][2] \in DOMAIN u /\ IsEntry(u[z[1][2]])
                 /\ u[z[1][2]].first = z[2]
<1>1. dat[c] \in Sectors
  OBVIOUS
<1>2. Merge(u, dat[c]) \in Sectors /\ \A j \in 1..UNITS : Merge(u, dat[c])[j] = IF j \in DOMAIN u THEN u[j] ELSE dat[c][j]
  BY <1>1, PatchIs
<1>3. new = [dat EXCEPT ![c] = Merge(u, dat[c])]
  OBVIOUS
<1>4. new \in [Clus -> Sectors] /\ new[c] = Merge(u, dat[c]) /\ \A b \in Clus : b # c => new[b] = dat[b]
  BY <1>2, <1>3
<1>5. \A b \in Clus, j \in 1..UNITS : new[b][j] = IF b = c /\ j \in DOMAIN u THEN u[j] ELSE dat[b][j]
  BY <1>2, <1>4
<1>6. ASSUME NEW z \in DatClaims(new)
      PROVE  \/ z \in DatClaims(dat) /\ ~(z[1][1] = c /\ z[1][2] \in DOMAIN u)
             \/ /\ z[1][1] = c /\ z[1][2] \in DOMAIN u /\ IsEntry(u[z[1][2]])
                /\ u[z[1][2]].first = z[2]
  <2>1. z \in AllClaims /\ IsEntry(new[z[1][1]][z[1][2]]) /\ new[z[1][1]][z[1][2]].first = z[2]
    BY DEF DatClaims
  <2>2. z[1][1] \in Clus /\ z[1][2] \in 1..UNITS
    BY <2>1 DEF AllClaims, Places
  <2>3. CASE z[1][1] = c /\ z[1][2] \in DOMAIN u
    BY <1>5, <2>1, <2>2, <2>3
  <2>4. CASE ~(z[1][1] = c /\ z[1][2] \in DOMAIN u)
    <3>1. new[z[1][1]][z[1][2]] = dat[z[1][1]][z[1][2]]
      BY <1>5, <2>2, <2>4
    <3> QED BY <2>1, <2>4, <3>1 DEF DatClaims
  <2> QED BY <2>3, <2>4
<1> QED BY <1>4, <1>5, <1>6

(* What the claims of the inodes depend on.                                *)
LEMMA CoreClaimsSame ==
  ASSUME NEW F, NEW G, NEW core, NEW new, NEW X,
         \A k \in Slots : new[k].first = core[k].first,
         \A k \in Slots \ X : core[k].first \in Clus => SlotPlace(G, k) = SlotPlace(F, k)
  PROVE  CoreClaims(G, new, X) = CoreClaims(F, core, X)
<1>1. {k \in Slots \ X : new[k].first \in Clus} = {k \in Slots \ X : core[k].first \in Clus}
  OBVIOUS
<1>2. \A k \in {j \in Slots \ X : core[j].first \in Clus} :
         <<SlotPlace(G, k), new[k].first>> = <<SlotPlace(F, k), core[k].first>>
  OBVIOUS
<1> QED BY <1>1, <1>2 DEF CoreClaims

(* What a write of records does, Z the claims of the entries in it.        *)
Patched(s, st, t, X, Z) ==
  /\ Good(t, X) /\ Does(s, st, t)
  /\ t.fat = s.fat /\ t.tabs = s.tabs /\ t.ent \subseteq s.ent \cup Z
  /\ \A b \in Clus, j \in 1..UNITS :
       t.dat[b][j] = IF b = st.c /\ j \in DOMAIN st.u THEN st.u[j] ELSE s.dat[b][j]
  /\ \A k \in Slots : t.core[k].first = s.core[k].first /\ t.core[k].size = s.core[k].size
  /\ st.k = "data" => t.core = s.core
  /\ \A k \in Slots : t.core[k] = s.core[k] \/ (st.k = "xfer" /\ k = st.i /\ t.core[k].cur = st.c)

(* A write of records: the claims Z of the entries in it must be served by *)
(* every table there may be.                                               *)
LEMMA MoveData ==
  ASSUME NEW s, NEW X, Good(s, X), NEW st \in Steps, st.k \in {"data", "xfer"},
         NEW Z \in SUBSET AllClaims,
         \A j \in DOMAIN st.u : IsEntry(st.u[j]) /\ st.u[j].first \in Clus => <<<<st.c, j>>, st.u[j].first>> \in Z,
         \A F \in s.tabs : Sound(F, s.ent \cup Z),
         Sound(s.fat, (s.ent \cup CoreClaims(s.fat, s.core, X)) \cup Z)
  PROVE  \E t : Patched(s, st, t, X, Z)
<1> DEFINE dat == [s.dat EXCEPT ![st.c] = Merge(st.u, @)]
           core == IF st.k = "data" THEN s.core
                   ELSE [s.core EXCEPT ![st.i].cur = st.c, ![st.i].curi = st.pos]
           t == Sym(s.fat, s.tabs, dat, s.ent \cup DatClaims(dat), core)
<1>1. SymType(s)
  BY DEF Good
<1>2. st.c \in Clus /\ st.u \in Patches /\ (st.k = "xfer" => st.pos \in Nat)
  BY DEF Steps
<1>3. /\ dat \in [Clus -> Sectors]
      /\ \A b \in Clus, j \in 1..UNITS :
           dat[b][j] = IF b = st.c /\ j \in DOMAIN st.u THEN st.u[j] ELSE s.dat[b][j]
      /\ \A z \in DatClaims(dat) :
              \/ z \in DatClaims(s.dat) /\ ~(z[1][1] = st.c /\ z[1][2] \in DOMAIN st.u)
              \/ /\ z[1][1] = st.c /\ z[1][2] \in DOMAIN st.u /\ IsEntry(st.u[z[1][2]])
                 /\ st.u[z[1][2]].first = z[2]
  BY <1>1, <1>2, PatchClaims DEF SymType
<1>4. core \in [Slots -> Inodes] /\ (\A k \in Slots : core[k].first = s.core[k].first /\ core[k].size = s.core[k].size)
      /\ (st.k = "data" => core = s.core)
      /\ \A k \in Slots : core[k] = s.core[k] \/ (st.k = "xfer" /\ k = st.i /\ core[k].cur = st.c)
  <2>1. CASE st.k = "data"
    BY <1>1, <2>1 DEF SymType
  <2>2. CASE st.k = "xfer"
    <3>1. core = [s.core EXCEPT ![st.i].cur = st.c, ![st.i].curi = st.pos] /\ st.k # "data"
      BY <2>2
    <3>2. s.core \in [Slots -> Inodes] /\ st.c \in Clus /\ st.pos \in Nat
      BY <1>1, <1>2, <2>2 DEF SymType
    <3> HIDE DEF core
    <3>3. core \in [Slots -> Inodes] /\ \A k \in Slots : core[k].first = s.core[k].first /\ core[k].size = s.core[k].size
      BY <3>1, <3>2, ZenonT(60) DEF Inodes, Links
    <3>4. \A k \in Slots : core[k] = s.core[k] \/ (k = st.i /\ core[k].cur = st.c)
      BY <3>1, <3>2 DEF Inodes
    <3> QED BY <2>2, <3>1, <3>3, <3>4
  <2> QED BY <2>1, <2>2
<1>5. t = Sym(s.fat, s.tabs, dat, s.ent \cup DatClaims(dat), core)
  OBVIOUS
<1>6. Does(s, st, t)
  BY DEF Does
<1> HIDE DEF dat, core, t
<1>7. t.fat = s.fat /\ t.tabs = s.tabs /\ t.dat = dat /\ t.ent = s.ent \cup DatClaims(dat) /\ t.core = core
  BY <1>5 DEF Sym
<1>8. t.ent \subseteq s.ent \cup Z
  <2> SUFFICES ASSUME NEW z \in DatClaims(dat) PROVE z \in s.ent \cup Z
    BY <1>7
  <2>1. CASE z \in DatClaims(s.dat)
    BY <1>1, <2>1 DEF SymType
  <2>2. CASE z \notin DatClaims(s.dat)
    <3>1. z[1][1] = st.c /\ z[1][2] \in DOMAIN st.u /\ IsEntry(st.u[z[1][2]]) /\ st.u[z[1][2]].first = z[2]
      BY <1>3, <2>2
    <3>2. z \in AllClaims
      BY DEF DatClaims
    <3>3. z = <<<<z[1][1], z[1][2]>>, z[2]>> /\ z[2] \in Clus
      BY <3>2 DEF AllClaims, Places
    <3> QED BY <3>1, <3>3
  <2> QED BY <2>1, <2>2
<1>9. SymType(t)
  BY <1>1, <1>3, <1>4, <1>7 DEF SymType, DatClaims
<1>10. CoreClaims(t.fat, t.core, X) = CoreClaims(s.fat, s.core, X)
  BY <1>4, <1>7, CoreClaimsSame
<1>11. Good(t, X)
  <2>1. \A F \in t.tabs : Sound(F, t.ent)
    BY <1>7, <1>8, SoundSub
  <2>2. t.ent \cup CoreClaims(t.fat, t.core, X) \subseteq (s.ent \cup CoreClaims(s.fat, s.core, X)) \cup Z
    BY <1>8, <1>10
  <2>3. Sound(t.fat, t.ent \cup CoreClaims(t.fat, t.core, X))
    BY <1>7, <2>2, SoundSub
  <2>4. \A i \in Slots \ X : t.core[i].first \in Clus => InRoot(t.fat, i)
    BY <1>4, <1>7 DEF Good
  <2> QED BY <1>9, <2>1, <2>3, <2>4 DEF Good
<1>12. Patched(s, st, t, X, Z)
  BY <1>3, <1>4, <1>6, <1>7, <1>8, <1>11 DEF Patched
<1> QED BY <1>12

(* What a flush does.                                                      *)
Flushed(s, st, t, X) ==
  /\ Good(t, X) /\ Does(s, st, t)
  /\ t.fat = s.fat /\ t.tabs = {s.fat} /\ t.ent = DatClaims(s.dat) /\ t.ent \subseteq s.ent
  /\ t.dat = s.dat /\ t.core = s.core

(* A flush.                                                                *)
LEMMA MoveBarrier ==
  ASSUME NEW s, NEW X, Good(s, X), NEW st \in Steps, st.k = "barrier"
  PROVE  \E t : Flushed(s, st, t, X)
<1> DEFINE t == Sym(s.fat, {s.fat}, s.dat, DatClaims(s.dat), s.core)
<1>1. SymType(s)
  BY DEF Good
<1>2. Does(s, st, t)
  BY DEF Does
<1>3. t.fat = s.fat /\ t.tabs = {s.fat} /\ t.ent = DatClaims(s.dat) /\ t.dat = s.dat /\ t.core = s.core
  BY DEF Sym
<1> HIDE DEF t
<1>4. t.ent \subseteq s.ent
  BY <1>1, <1>3 DEF SymType
<1>5. SymType(t)
  BY <1>1, <1>3, <1>4 DEF SymType
<1>6. Good(t, X)
  <2>1. Sound(s.fat, s.ent)
    BY <1>1 DEF Good, SymType
  <2>2. \A F \in t.tabs : Sound(F, t.ent)
    BY <1>3, <1>4, <2>1, SoundSub
  <2>3. t.ent \cup CoreClaims(t.fat, t.core, X) \subseteq s.ent \cup CoreClaims(s.fat, s.core, X)
    BY <1>3, <1>4
  <2>4. Sound(s.fat, s.ent \cup CoreClaims(s.fat, s.core, X))
    BY DEF Good
  <2>5. Sound(t.fat, t.ent \cup CoreClaims(t.fat, t.core, X))
    BY <1>3, <2>3, <2>4, SoundSub
  <2> QED BY <1>3, <1>5, <2>2, <2>5 DEF Good
<1>7. Flushed(s, st, t, X)
  BY <1>2, <1>3, <1>4, <1>6 DEF Flushed
<1> QED BY <1>7

(* The directory may only have grown at its end.                           *)
RootGrows(F, G) ==
  /\ Len(Chain(F, Root)) <= Len(Chain(G, Root))
  /\ \A k \in 1..Len(Chain(F, Root)) : Chain(G, Root)[k] = Chain(F, Root)[k]

(* When the directory only grows, its records stay where they were.        *)
LEMMA RootGrowsPlaces ==
  ASSUME NEW F \in Tables, NEW G \in Tables, RootGrows(F, G), NEW i, InRoot(F, i)
  PROVE  InRoot(G, i) /\ SlotPlace(G, i) = SlotPlace(F, i)
<1>1. PICK ch, dh : ch = Chain(F, Root) /\ dh = Chain(G, Root)
  OBVIOUS
<1>2. ch \in Seq(Clus) /\ Len(ch) \in Nat /\ dh \in Seq(Clus) /\ Len(dh) \in Nat
  <2>1. Root \in Links
    BY ConstFacts DEF Links
  <2>2. ch \in Seq(Clus) /\ dh \in Seq(Clus)
    BY <1>1, <2>1, ChainType
  <2> QED BY <2>2
<1>3. i \in 1..(Len(ch) * UNITS) /\ Len(ch) <= Len(dh) /\ \A k \in 1..Len(ch) : dh[k] = ch[k]
  BY <1>1 DEF InRoot, RootGrows
<1>4. 1 + ((i - 1) \div UNITS) \in 1..Len(ch)
  BY <1>2, <1>3, UnitPosition
<1>5. Len(ch) * UNITS <= Len(dh) * UNITS /\ Len(ch) * UNITS \in Nat /\ Len(dh) * UNITS \in Nat
  <2>1. UNITS \in Nat
    BY ConstFacts
  <2>2. \A a, b, u \in Nat : a <= b => a * u <= b * u
    OBVIOUS
  <2> QED BY <1>2, <1>3, <2>1, <2>2
<1>6. i \in 1..(Len(dh) * UNITS)
  BY <1>3, <1>5
<1> QED BY <1>1, <1>3, <1>4, <1>6 DEF InRoot, SlotPlace

(* The table after a step that changes it.                                 *)
SetIn(F, st) == [F EXCEPT ![st.c] = st.v]

(* What a change to the table does, G the table it leaves.                 *)
Tabled(s, st, t, X, G) ==
  /\ Good(t, X) /\ Does(s, st, t)
  /\ t.fat = G /\ t.tabs = s.tabs \cup {G} /\ t.ent = s.ent
  /\ t.dat = s.dat /\ t.core = s.core
  /\ CoreClaims(t.fat, t.core, X) = CoreClaims(s.fat, s.core, X)

(* A change to the table.                                                  *)
LEMMA MoveFat ==
  ASSUME NEW s, NEW X, Good(s, X), NEW st \in Steps, st.k = "fat",
         NEW G, G = SetIn(s.fat, st),
         Sound(G, s.ent \cup CoreClaims(s.fat, s.core, X)), RootGrows(s.fat, G)
  PROVE  \E t : Tabled(s, st, t, X, G)
<1> DEFINE t == Sym(G, s.tabs \cup {G}, s.dat, s.ent, s.core)
<1>1. SymType(s)
  BY DEF Good
<1>2. Does(s, st, t)
  BY DEF Does, SetIn
<1>3. t.fat = G /\ t.tabs = s.tabs \cup {G} /\ t.ent = s.ent /\ t.dat = s.dat /\ t.core = s.core
  BY DEF Sym
<1> HIDE DEF t
<1>4. s.fat \in Tables /\ G \in Tables
  <2>1. st.c \in Clus /\ st.v \in Links
    BY DEF Steps
  <2> QED BY <1>1, <2>1 DEF SymType, Tables, SetIn
<1>5. SymType(t)
  BY <1>1, <1>3, <1>4 DEF SymType
<1>6. \A i \in Slots \ X : s.core[i].first \in Clus => InRoot(s.fat, i)
  BY DEF Good
<1>7. \A i \in Slots \ X : s.core[i].first \in Clus => InRoot(G, i) /\ SlotPlace(G, i) = SlotPlace(s.fat, i)
  BY <1>4, <1>6, RootGrowsPlaces
<1>8. CoreClaims(G, t.core, X) = CoreClaims(s.fat, s.core, X)
  BY <1>3, <1>7, CoreClaimsSame
<1>9. Good(t, X)
  <2>1. Sound(G, s.ent)
    BY SoundSub
  <2>2. \A F \in t.tabs : Sound(F, t.ent)
    BY <1>3, <2>1 DEF Good
  <2>3. Sound(t.fat, t.ent \cup CoreClaims(t.fat, t.core, X))
    BY <1>3, <1>8
  <2> QED BY <1>3, <1>5, <1>7, <2>2, <2>3 DEF Good
<1>10. Tabled(s, st, t, X, G)
  BY <1>2, <1>3, <1>8, <1>9 DEF Tabled
<1> QED BY <1>10

(* What a change to an in-core inode does.                                 *)
Cored(s, st, t, Y) ==
  /\ Good(t, Y) /\ Does(s, st, t)
  /\ t.fat = s.fat /\ t.tabs = s.tabs /\ t.ent = s.ent /\ t.dat = s.dat
  /\ t.core \in [Slots -> Inodes]
  /\ \A k \in Slots : t.core[k] = IF k = st.i THEN st.in ELSE s.core[k]

(* A change to an in-core inode: the chain it now claims is served.        *)
LEMMA MoveCore ==
  ASSUME NEW s, NEW X, NEW Y, Good(s, X), NEW st \in Steps, st.k = "core",
         X \subseteq Y \cup {st.i}, Y \subseteq X,
         st.i \in Slots \ Y /\ st.in.first \in Clus =>
           /\ InRoot(s.fat, st.i)
           /\ Sound(s.fat, (s.ent \cup CoreClaims(s.fat, s.core, X)) \cup {<<SlotPlace(s.fat, st.i), st.in.first>>})
  PROVE  \E t : Cored(s, st, t, Y)
<1> DEFINE core == [s.core EXCEPT ![st.i] = st.in]
           t == Sym(s.fat, s.tabs, s.dat, s.ent, core)
           n == <<SlotPlace(s.fat, st.i), st.in.first>>
<1>1. SymType(s)
  BY DEF Good
<1>2. Does(s, st, t)
  BY DEF Does
<1>3. t.fat = s.fat /\ t.tabs = s.tabs /\ t.ent = s.ent /\ t.dat = s.dat /\ t.core = core
  BY DEF Sym
<1>4. core \in [Slots -> Inodes] /\ \A k \in Slots : core[k] = IF k = st.i THEN st.in ELSE s.core[k]
  BY <1>1 DEF SymType, Steps
<1> HIDE DEF t, core
<1>5. SymType(t)
  BY <1>1, <1>3, <1>4 DEF SymType
<1>6. \A k \in Slots \ Y : k # st.i => k \in Slots \ X
  OBVIOUS
<1>7. CoreClaims(s.fat, core, Y) \subseteq
        CoreClaims(s.fat, s.core, X) \cup (IF st.i \in Slots \ Y /\ st.in.first \in Clus THEN {n} ELSE {})
  BY <1>4, <1>6 DEF CoreClaims
<1>8. Good(t, Y)
  <2>0. Sound(s.fat, s.ent \cup CoreClaims(s.fat, s.core, X))
    BY DEF Good
  <2>1. Sound(s.fat, s.ent \cup CoreClaims(s.fat, core, Y))
    <3>1. CASE st.i \in Slots \ Y /\ st.in.first \in Clus
      <4>1. s.ent \cup CoreClaims(s.fat, core, Y) \subseteq (s.ent \cup CoreClaims(s.fat, s.core, X)) \cup {n}
        BY <1>7, <3>1
      <4> QED BY <3>1, <4>1, SoundSub
    <3>2. CASE ~(st.i \in Slots \ Y /\ st.in.first \in Clus)
      <4>1. s.ent \cup CoreClaims(s.fat, core, Y) \subseteq s.ent \cup CoreClaims(s.fat, s.core, X)
        BY <1>7, <3>2
      <4> QED BY <2>0, <4>1, SoundSub
    <3> QED BY <3>1, <3>2
  <2>2. \A i \in Slots \ Y : core[i].first \in Clus => InRoot(s.fat, i)
    BY <1>4, <1>6 DEF Good
  <2> QED BY <1>3, <1>5, <2>1, <2>2 DEF Good
<1>9. Cored(s, st, t, Y)
  BY <1>2, <1>3, <1>4, <1>8 DEF Cored
<1> QED BY <1>9

(* The steps of the plans are steps.                                       *)
LEMMA StepTypes ==
  /\ \A c \in Clus, u \in Patches : Data(c, u) \in Steps
  /\ \A c \in Clus, u \in Patches, i \in Nat, p \in Nat : Xfer(c, u, i, p) \in Steps
  /\ \A c \in Clus, v \in Links, h \in {"next", "low", "keep"} : SetFat(c, v, h) \in Steps
  /\ Barrier \in Steps /\ Refuse \in Steps
  /\ \A i \in Nat, in \in Inodes : Core(i, in) \in Steps
<1>1. <<>> \in Undos
  BY DEF Undos
<1> QED BY <1>1 DEF Steps, Data, Xfer, SetFat, Barrier, Refuse, Core

(* A step with something to undo is one.                                   *)
LEMMA UndoTypes ==
  ASSUME NEW st \in Steps, NEW u \in Undos
  PROVE  /\ [st EXCEPT !.undo = u] \in Steps /\ [st EXCEPT !.undo = u].undo = u
         /\ [st EXCEPT !.undo = u].k = st.k
         /\ st.k \in {"data", "xfer"} => [st EXCEPT !.undo = u].c = st.c /\ [st EXCEPT !.undo = u].u = st.u
         /\ st.k = "fat" => [st EXCEPT !.undo = u].c = st.c /\ [st EXCEPT !.undo = u].v = st.v
         /\ st.k = "core" => [st EXCEPT !.undo = u].i = st.i /\ [st EXCEPT !.undo = u].in = st.in
<1>1. CASE st \in [k : {"data"}, c : Clus, u : Patches, undo : Undos]
  BY <1>1 DEF Steps
<1>2. CASE st \in [k : {"xfer"}, c : Clus, u : Patches, i : Nat, pos : Nat, undo : Undos]
  BY <1>2 DEF Steps
<1>3. CASE st \in [k : {"fat"}, c : Clus, v : Links, hint : {"next", "low", "keep"}, undo : Undos]
  BY <1>3 DEF Steps
<1>4. CASE st \in [k : {"barrier"}, undo : Undos]
  BY <1>4 DEF Steps
<1>5. CASE st \in [k : {"core"}, i : Nat, in : Inodes, undo : Undos]
  BY <1>5 DEF Steps
<1>6. CASE st \in [k : {"refuse"}, undo : Undos]
  BY <1>6 DEF Steps
<1> QED BY <1>1, <1>2, <1>3, <1>4, <1>5, <1>6 DEF Steps

(* A cluster that was allocated and that nothing has a claim to, in any    *)
(* table there may be.                                                     *)
Reserved(s, c) ==
  /\ c \in Clus
  /\ \A F \in s.tabs : F[c] = EOC /\ Unowned(F, s.ent, c)
  /\ Unowned(s.fat, s.ent \cup CoreClaims(s.fat, s.core, {}), c)

(* What an operation that fails here undoes: nothing, or the allocation of *)
(* a cluster that is reserved.                                             *)
CanUndo(s, u) ==
  u = <<>> \/ \E c \in Clus : u = <<SetFat(c, FREE, "low")>> /\ Reserved(s, c)

(* The claims of a good state.                                             *)
LEMMA GoodFacts ==
  ASSUME NEW s, NEW X, Good(s, X)
  PROVE  /\ s.fat \in Tables /\ s.fat \in s.tabs /\ s.tabs \in SUBSET Tables
         /\ s.ent \in SUBSET AllClaims
         /\ CoreClaims(s.fat, s.core, X) \in SUBSET AllClaims
         /\ s.ent \cup CoreClaims(s.fat, s.core, X) \in SUBSET AllClaims
         /\ Sound(s.fat, s.ent \cup CoreClaims(s.fat, s.core, X)) /\ Sound(s.fat, s.ent)
         /\ s.core \in [Slots -> Inodes] /\ s.dat \in [Clus -> Sectors]
         /\ Chain(s.fat, Root) \in Seq(Clus) /\ Path(s.fat, Chain(s.fat, Root))
<1>1. SymType(s)
  BY DEF Good
<1>2. CoreClaims(s.fat, s.core, X) \in SUBSET AllClaims
  BY <1>1, CoreType DEF Good, SymType
<1>3. Sound(s.fat, s.ent \cup CoreClaims(s.fat, s.core, X)) /\ Sound(s.fat, s.ent)
  BY <1>1 DEF Good, SymType
<1>4. RootClaim[2] = Root
  BY DEF RootClaim
<1>5. Path(s.fat, Chain(s.fat, Root))
  BY <1>3, <1>4 DEF Sound
<1> QED BY <1>1, <1>2, <1>3, <1>5 DEF SymType, Path

(* The claim of the directory on its chain.                                *)
LEMMA RootIs == RootClaim[1] = <<Root, 0>> /\ RootClaim[2] = Root
BY DEF RootClaim

(* The directory is where it was when its chain is.                        *)
LEMMA SameRoot ==
  ASSUME NEW F, NEW G, Chain(F, Root) \in Seq(Clus), Chain(G, Root) = Chain(F, Root)
  PROVE  RootGrows(F, G)
BY DEF RootGrows

(* A cluster that is nobody's may be freed again.                          *)
LEMMA UnownedUndo ==
  ASSUME NEW s, Good(s, {}), NEW c \in Clus, Unowned(s.fat, s.ent \cup CoreClaims(s.fat, s.core, {}), c)
  PROVE  Undoable(s, <<SetFat(c, FREE, "low")>>)
<1> DEFINE st == SetFat(c, FREE, "low")
           E == s.ent \cup CoreClaims(s.fat, s.core, {})
           G == SetIn(s.fat, st)
<1>1. c \in Clus /\ FREE \in Links
  BY DEF Links
<1>2. st \in Steps /\ st.k = "fat" /\ st.undo = <<>> /\ st.c = c /\ st.v = FREE
  BY <1>1, StepTypes DEF SetFat
<1> HIDE DEF st
<1>3. s.fat \in Tables /\ E \in SUBSET AllClaims /\ Sound(s.fat, E) /\ Chain(s.fat, Root) \in Seq(Clus)
  BY GoodFacts
<1>4. G \in Tables /\ \A b \in Clus \ {c} : G[b] = s.fat[b]
  BY <1>1, <1>2, <1>3 DEF Tables, SetIn
<1> DEFINE C == {c}
<1>5. (\A b \in C : Unowned(s.fat, E, b)) /\ \A b \in Clus \ C : G[b] = s.fat[b]
  BY <1>4
<1> HIDE DEF G, E, C
<1>6. Sound(G, E) /\ \A z \in E \cup {RootClaim} : Chain(G, z[2]) = Chain(s.fat, z[2])
  BY <1>3, <1>4, <1>5, SoundOff
<1>7. Chain(G, Root) = Chain(s.fat, Root)
  BY <1>6, RootIs
<1>8. RootGrows(s.fat, G)
  BY <1>3, <1>7, SameRoot
<1>9. PICK t : Tabled(s, st, t, {}, G)
  BY <1>2, <1>6, <1>8, MoveFat DEF G, E
<1>10. \E x \in Steps : \E y : <<st>> = <<x>> /\ x.undo = <<>> /\ Does(s, x, y) /\ Good(y, {})
  BY <1>2, <1>9 DEF Tabled
<1> QED BY <1>10 DEF Undoable, st

(* What create and mkdir do on an error can be done.                       *)
LEMMA CanUndoIs ==
  ASSUME NEW s, Good(s, {}), NEW u, CanUndo(s, u)
  PROVE  Undoable(s, u)
<1>1. CASE u = <<>>
  BY <1>1 DEF Undoable
<1>2. CASE u # <<>>
  BY <1>2, UnownedUndo DEF CanUndo, Reserved
<1> QED BY <1>1, <1>2

(* A step between states from which the operation can be undone.           *)
LEMMA MovesIf ==
  ASSUME NEW s, NEW t, NEW st \in Steps, Does(s, st, t), NEW X, Good(t, X),
         X # {} \/ (Good(s, {}) /\ CanUndo(s, st.undo) /\ CanUndo(t, st.undo))
  PROVE  Moves(s, st, t, X)
BY CanUndoIs DEF Moves

(* What is reserved stays so when no claim and no table comes in.          *)
LEMMA CanUndoKeeps ==
  ASSUME NEW s, NEW t, NEW u, CanUndo(s, u),
         t.tabs \subseteq s.tabs, t.fat = s.fat, t.ent \subseteq s.ent,
         CoreClaims(t.fat, t.core, {}) \subseteq CoreClaims(s.fat, s.core, {})
  PROVE  CanUndo(t, u)
<1>1. ASSUME NEW c \in Clus, Reserved(s, c) PROVE Reserved(t, c)
  <2>1. \A F \in t.tabs : F[c] = EOC /\ Unowned(F, t.ent, c)
    BY <1>1, UnownedSub DEF Reserved
  <2>2. t.ent \cup CoreClaims(t.fat, t.core, {}) \subseteq s.ent \cup CoreClaims(s.fat, s.core, {})
    OBVIOUS
  <2>3. Unowned(t.fat, t.ent \cup CoreClaims(t.fat, t.core, {}), c)
    BY <1>1, <2>2, UnownedSub DEF Reserved
  <2> QED BY <2>1, <2>3 DEF Reserved
<1> QED BY <1>1 DEF CanUndo

(* And when a table comes in that has it so.                               *)
LEMMA CanUndoFat ==
  ASSUME NEW s, NEW t, NEW u, CanUndo(s, u), NEW G, t.fat = G, t.tabs = s.tabs \cup {G}, t.ent = s.ent,
         CoreClaims(t.fat, t.core, {}) = CoreClaims(s.fat, s.core, {}),
         \A c \in Clus : Unowned(s.fat, s.ent \cup CoreClaims(s.fat, s.core, {}), c) /\ s.fat[c] = EOC /\ Reserved(s, c) =>
           G[c] = EOC /\ Unowned(G, s.ent \cup CoreClaims(s.fat, s.core, {}), c),
         s.fat \in s.tabs
  PROVE  CanUndo(t, u)
<1>1. ASSUME NEW c \in Clus, Reserved(s, c) PROVE Reserved(t, c)
  <2>0. G[c] = EOC /\ Unowned(G, s.ent \cup CoreClaims(s.fat, s.core, {}), c)
    BY <1>1 DEF Reserved
  <2>1. Unowned(G, s.ent, c)
    BY <2>0, UnownedSub
  <2>2. \A F \in t.tabs : F[c] = EOC /\ Unowned(F, t.ent, c)
    BY <1>1, <2>0, <2>1 DEF Reserved
  <2> QED BY <2>0, <2>2 DEF Reserved
<1> QED BY <1>1 DEF CanUndo

(* A write that puts no entry anywhere, or a refusal.                      *)
BlankStep(st, u, X) ==
  /\ st.undo = u
  /\ \/ st.k \in {"data", "xfer"} /\ \A j \in DOMAIN st.u : st.u[j] \in Blanks
     \/ st.k = "refuse" /\ X = {}
Hit(st, b, j) == st.k \in {"data", "xfer"} /\ st.c = b /\ j \in DOMAIN st.u

(* The first n steps of p, all of them such writes, lead from s to t.      *)
Wiped(s, t, p, n) ==
  /\ t.fat = s.fat /\ t.tabs = s.tabs /\ t.ent \subseteq s.ent
  /\ \A b \in Clus, j \in 1..UNITS :
       \/ t.dat[b][j] = s.dat[b][j] /\ \A k \in 1..n : ~Hit(p[k], b, j)
       \/ \E k \in 1..n : Hit(p[k], b, j) /\ t.dat[b][j] = p[k].u[j]
  /\ \A i \in Slots :
       /\ t.core[i].first = s.core[i].first /\ t.core[i].size = s.core[i].size
       /\ t.core[i] = s.core[i] \/ \E k \in 1..n : p[k].k = "xfer" /\ p[k].i = i /\ t.core[i].cur = p[k].c

(* Before the first wipe nothing has been wiped.                           *)
LEMMA WipedNone ==
  ASSUME NEW s, NEW p PROVE Wiped(s, s, p, 0)
BY DEF Wiped

(* A longer prefix of a plan has one more step.                            *)
LEMMA PrefixStep ==
  ASSUME NEW p \in Seq(Steps), NEW n \in 0..(Len(p) - 1)
  PROVE  /\ SubSeq(p, 1, n + 1) = SubSeq(p, 1, n) \o <<p[n + 1]>>
         /\ p[n + 1] \in Steps
<1>1. n \in Nat /\ n + 1 \in 1..Len(p) /\ Len(p) \in Nat
  OBVIOUS
<1> QED BY <1>1

(* The whole plan and the empty one are prefixes of it.                    *)
LEMMA PrefixAll ==
  ASSUME NEW p \in Seq(Steps)
  PROVE  SubSeq(p, 1, Len(p)) = p /\ SubSeq(p, 1, 0) = <<>>
OBVIOUS

(* One such write.                                                         *)
LEMMA MoveBlank ==
  ASSUME NEW t, NEW X, Good(t, X), NEW st \in Steps, st.k \in {"data", "xfer"},
         \A j \in DOMAIN st.u : st.u[j] \in Blanks, X # {} \/ CanUndo(t, st.undo),
         NEW Z, Z = {}
  PROVE  \E r : /\ Moves(t, st, r, X) /\ Patched(t, st, r, X, Z) /\ r.ent \subseteq t.ent
                /\ CoreClaims(r.fat, r.core, X) = CoreClaims(t.fat, t.core, X)
                /\ X # {} \/ CanUndo(r, st.undo)
<1>2. \A j \in DOMAIN st.u : ~IsEntry(st.u[j])
  BY BlanksAre
<1>3. \A F \in t.tabs : Sound(F, t.ent \cup Z)
  <2>1. t.ent \cup Z = t.ent
    OBVIOUS
  <2> QED BY <2>1 DEF Good
<1>4. Sound(t.fat, (t.ent \cup CoreClaims(t.fat, t.core, X)) \cup Z)
  <2>1. (t.ent \cup CoreClaims(t.fat, t.core, X)) \cup Z = t.ent \cup CoreClaims(t.fat, t.core, X)
    OBVIOUS
  <2> QED BY <2>1 DEF Good
<1>5. PICK r : Patched(t, st, r, X, Z)
  <2>1. Z \in SUBSET AllClaims
    OBVIOUS
  <2>2. \A j \in DOMAIN st.u : IsEntry(st.u[j]) /\ st.u[j].first \in Clus => <<<<st.c, j>>, st.u[j].first>> \in Z
    BY <1>2
  <2> QED BY <1>3, <1>4, <2>1, <2>2, MoveData
<1>6. CoreClaims(r.fat, r.core, X) = CoreClaims(t.fat, t.core, X)
  BY <1>5, CoreClaimsSame DEF Patched
<1>9. r.ent \subseteq t.ent
  BY <1>5 DEF Patched
<1>7. X # {} \/ CanUndo(r, st.undo)
  <2> SUFFICES ASSUME X = {} PROVE CanUndo(r, st.undo)
    OBVIOUS
  <2>1. CanUndo(t, st.undo)
    OBVIOUS
  <2>2. r.tabs \subseteq t.tabs /\ r.fat = t.fat /\ r.ent \subseteq t.ent
        /\ CoreClaims(r.fat, r.core, {}) \subseteq CoreClaims(t.fat, t.core, {})
    BY <1>5, <1>6, <1>9 DEF Patched
  <2> QED BY <2>1, <2>2, CanUndoKeeps
<1>8. Moves(t, st, r, X)
  BY <1>5, <1>7, MovesIf DEF Patched
<1> QED BY <1>5, <1>6, <1>7, <1>8, <1>9

(* A flush.                                                                *)
LEMMA MoveFlush ==
  ASSUME NEW s, NEW X, Good(s, X), NEW st \in Steps, st.k = "barrier",
         X # {} \/ CanUndo(s, st.undo)
  PROVE  \E t : Moves(s, st, t, X) /\ Flushed(s, st, t, X) /\ (X # {} \/ CanUndo(t, st.undo))
<1>1. PICK t : Flushed(s, st, t, X)
  BY MoveBarrier
<1>2. SymType(s)
  BY DEF Good
<1>3. X # {} \/ CanUndo(t, st.undo)
  <2> SUFFICES ASSUME X = {} PROVE CanUndo(t, st.undo)
    OBVIOUS
  <2>1. CanUndo(s, st.undo)
    OBVIOUS
  <2>2. t.tabs \subseteq s.tabs /\ t.fat = s.fat /\ t.ent \subseteq s.ent
        /\ CoreClaims(t.fat, t.core, {}) \subseteq CoreClaims(s.fat, s.core, {})
    BY <1>1, <1>2 DEF Flushed, SymType
  <2> QED BY <2>1, <2>2, CanUndoKeeps
<1>4. Moves(s, st, t, X)
  BY <1>1, <1>3, MovesIf DEF Flushed
<1> QED BY <1>1, <1>3, <1>4

(* One such write after n others.                                          *)
LEMMA WipeOne ==
  ASSUME NEW s, NEW t, NEW X, Good(t, X), NEW u, X # {} \/ CanUndo(t, u),
         NEW p \in Seq(Steps), NEW n \in 0..(Len(p) - 1), Wiped(s, t, p, n),
         BlankStep(p[n + 1], u, X), p[n + 1].k # "refuse"
  PROVE  \E r : Moves(t, p[n + 1], r, X) /\ Good(r, X) /\ Wiped(s, r, p, n + 1)
                /\ (X # {} \/ CanUndo(r, u))
<1>1. PICK st, Z : st = p[n + 1] /\ Z = {}
  OBVIOUS
<1>2. st \in Steps /\ st.k \in {"data", "xfer"} /\ st.undo = u /\ \A j \in DOMAIN st.u : st.u[j] \in Blanks
  BY <1>1 DEF BlankStep
<1>5. PICK r : Moves(t, st, r, X) /\ Patched(t, st, r, X, Z) /\ r.ent \subseteq t.ent /\ (X # {} \/ CanUndo(r, u))
  BY <1>1, <1>2, MoveBlank
<1>9. Wiped(s, r, p, n + 1)
  <2>0. n \in Nat /\ n + 1 \in 1..(n + 1) /\ \A k \in 1..n : k \in 1..(n + 1)
    OBVIOUS
  <2>4. \A k \in 1..(n + 1) : k \in 1..n \/ k = n + 1
    OBVIOUS
  <2>1. ASSUME NEW b \in Clus, NEW j \in 1..UNITS
        PROVE  \/ r.dat[b][j] = s.dat[b][j] /\ \A k \in 1..(n + 1) : ~Hit(p[k], b, j)
               \/ \E k \in 1..(n + 1) : Hit(p[k], b, j) /\ r.dat[b][j] = p[k].u[j]
    <3>1. CASE Hit(st, b, j)
      <4>1. r.dat[b][j] = st.u[j]
        BY <1>5, <3>1 DEF Hit, Patched
      <4> QED BY <1>1, <2>0, <3>1, <4>1
    <3>2. CASE ~Hit(st, b, j)
      <4>1. r.dat[b][j] = t.dat[b][j]
        BY <1>2, <1>5, <3>2 DEF Hit, Patched
      <4>2. \/ t.dat[b][j] = s.dat[b][j] /\ \A k \in 1..n : ~Hit(p[k], b, j)
            \/ \E k \in 1..n : Hit(p[k], b, j) /\ t.dat[b][j] = p[k].u[j]
        BY DEF Wiped
      <4> QED BY <1>1, <2>0, <2>4, <3>2, <4>1, <4>2
    <3> QED BY <3>1, <3>2
  <2>2. ASSUME NEW i \in Slots
        PROVE  /\ r.core[i].first = s.core[i].first /\ r.core[i].size = s.core[i].size
               /\ r.core[i] = s.core[i] \/ \E k \in 1..(n + 1) : p[k].k = "xfer" /\ p[k].i = i /\ r.core[i].cur = p[k].c
    <3>1. /\ t.core[i].first = s.core[i].first /\ t.core[i].size = s.core[i].size
          /\ t.core[i] = s.core[i] \/ \E k \in 1..n : p[k].k = "xfer" /\ p[k].i = i /\ t.core[i].cur = p[k].c
      BY DEF Wiped
    <3>2. /\ r.core[i].first = t.core[i].first /\ r.core[i].size = t.core[i].size
          /\ r.core[i] = t.core[i] \/ (st.k = "xfer" /\ i = st.i /\ r.core[i].cur = st.c)
      BY <1>5 DEF Patched
    <3> QED BY <1>1, <2>0, <3>1, <3>2
  <2>3. r.fat = s.fat /\ r.tabs = s.tabs /\ r.ent \subseteq s.ent
    BY <1>5 DEF Wiped, Patched
  <2> QED BY <2>1, <2>2, <2>3 DEF Wiped
<1> QED BY <1>1, <1>5, <1>9 DEF Patched

(* All of them: done, or refused on the way.                               *)
LEMMA ExecBlanks ==
  ASSUME NEW s, NEW X, Good(s, X), NEW u, X # {} \/ CanUndo(s, u),
         NEW p \in Seq(Steps), \A k \in 1..Len(p) : BlankStep(p[k], u, X)
  PROVE  \/ X = {} /\ (\E k \in 1..Len(p) : p[k].k = "refuse") /\ \A q \in Seq(Steps) : Safe(s, p \o q, X)
         \/ \E t : Exec(s, p, t, X) /\ Good(t, X) /\ Wiped(s, t, p, Len(p)) /\ (X # {} \/ CanUndo(t, u))
<1> DEFINE Stops(n) == X = {} /\ (\E k \in 1..Len(p) : p[k].k = "refuse") /\ \A q \in Seq(Steps) : Safe(s, SubSeq(p, 1, n) \o q, X)
           Goes(n) == \E t : Exec(s, SubSeq(p, 1, n), t, X) /\ Good(t, X) /\ Wiped(s, t, p, n) /\ (X # {} \/ CanUndo(t, u))
           T == {n \in 0..Len(p) : Stops(n) \/ Goes(n)}
<1>0. Len(p) \in Nat
  OBVIOUS
<1>1. 0 \in T
  <2>1. SubSeq(p, 1, 0) = <<>>
    BY PrefixAll
  <2>2. Exec(s, SubSeq(p, 1, 0), s, X) /\ Wiped(s, s, p, 0)
    BY <2>1, ExecNil, WipedNone
  <2>3. Goes(0)
    BY <2>2
  <2> QED BY <1>0, <2>3
<1>2. ASSUME NEW n \in 0..(Len(p) - 1), n \in T PROVE n + 1 \in T
  <2>0. n + 1 \in 0..Len(p) /\ n + 1 \in 1..Len(p) /\ n \in Nat
    BY <1>0
  <2>1. PICK a, st : a = SubSeq(p, 1, n) /\ st = p[n + 1]
    OBVIOUS
  <2>2. SubSeq(p, 1, n + 1) = a \o <<st>> /\ st \in Steps /\ a \in Seq(Steps)
    BY <2>0, <2>1, PrefixStep
  <2>3. CASE Stops(n)
    <3>1. ASSUME NEW q \in Seq(Steps) PROVE Safe(s, SubSeq(p, 1, n + 1) \o q, X)
      <4>1. (a \o <<st>>) \o q = a \o (<<st>> \o q) /\ <<st>> \o q \in Seq(Steps)
        BY <2>2
      <4>2. Safe(s, a \o (<<st>> \o q), X)
        BY <2>1, <2>3, <4>1
      <4> QED BY <2>2, <4>1, <4>2
    <3>2. Stops(n + 1)
      BY <2>3, <3>1
    <3> QED BY <2>0, <3>2
  <2>4. CASE Goes(n)
    <3>1. PICK t : Exec(s, a, t, X) /\ Good(t, X) /\ Wiped(s, t, p, n) /\ (X # {} \/ CanUndo(t, u))
      BY <2>1, <2>4
    <3>2. BlankStep(st, u, X)
      BY <2>0, <2>1
    <3>3. CASE st.k = "refuse"
      <4>1. X = {} /\ st.undo = u
        BY <3>2, <3>3 DEF BlankStep
      <4>2. Undoable(t, st.undo)
        BY <3>1, <4>1, CanUndoIs
      <4>3. ASSUME NEW q \in Seq(Steps) PROVE Safe(s, SubSeq(p, 1, n + 1) \o q, X)
        <5>1. (a \o <<st>>) \o q = a \o (<<st>> \o q)
          BY <2>2
        <5>2. Safe(t, <<st>> \o q, X)
          BY <2>2, <3>3, <4>1, <4>2, SafeRefuse
        <5>3. Safe(s, a \o (<<st>> \o q), X)
          BY <3>1, <5>2, ExecSafe
        <5> QED BY <2>2, <5>1, <5>3
      <4>4. Stops(n + 1)
        BY <2>0, <2>1, <3>3, <4>1, <4>3
      <4> QED BY <2>0, <4>4
    <3>4. CASE st.k # "refuse"
      <4>1. PICK r : Moves(t, st, r, X) /\ Good(r, X) /\ Wiped(s, r, p, n + 1) /\ (X # {} \/ CanUndo(r, u))
        BY <2>1, <3>1, <3>2, <3>4, WipeOne
      <4>2. Exec(t, <<st>>, r, X)
        BY <4>1, ExecOne
      <4>3. Exec(s, a \o <<st>>, r, X)
        BY <3>1, <4>2, ExecExec
      <4>4. Goes(n + 1)
        BY <2>2, <4>1, <4>3
      <4> QED BY <2>0, <4>4
    <3> QED BY <3>3, <3>4
  <2> QED BY <1>2, <2>3, <2>4
<1>3. T = {n \in 0..Len(p) : Stops(n) \/ Goes(n)}
  OBVIOUS
<1> HIDE DEF T
<1>4. \A n \in 0..Len(p) : n \in T
  BY <1>0, <1>1, <1>2, BoundedInduction
<1>5. Stops(Len(p)) \/ Goes(Len(p))
  BY <1>0, <1>3, <1>4
<1> QED BY <1>5, PrefixAll

(* What a failure is to undo, put on every step of a sequence.             *)
WithUndo(st, u) == [st EXCEPT !.undo = u]

(* OnFailure gives each step of a plan the same undo.                      *)
LEMMA OnFailureIs ==
  ASSUME NEW p \in Seq(Steps), NEW u \in Undos
  PROVE  /\ OnFailure(p, u) \in Seq(Steps) /\ Len(OnFailure(p, u)) = Len(p)
         /\ \A k \in 1..Len(p) : OnFailure(p, u)[k] = WithUndo(p[k], u)
<1>1. DOMAIN p = 1..Len(p) /\ Len(p) \in Nat
  OBVIOUS
<1>2. OnFailure(p, u) = [k \in 1..Len(p) |-> WithUndo(p[k], u)]
  BY <1>1 DEF OnFailure, WithUndo
<1>3. \A k \in 1..Len(p) : WithUndo(p[k], u) \in Steps
  BY UndoTypes DEF WithUndo
<1>4. OnFailure(p, u) \in [1..Len(p) -> Steps]
  BY <1>2, <1>3
<1> QED BY <1>1, <1>2, <1>4

(* OnFailure on each part of a plan.                                       *)
LEMMA OnFailureConcat ==
  ASSUME NEW p \in Seq(Steps), NEW q \in Seq(Steps), NEW u \in Undos
  PROVE  OnFailure(p \o q, u) = OnFailure(p, u) \o OnFailure(q, u)
<1>0. PICK r, a, b, c, d : /\ r = p \o q /\ a = OnFailure(r, u) /\ b = OnFailure(p, u)
                           /\ c = OnFailure(q, u) /\ d = b \o c
  OBVIOUS
<1>1. r \in Seq(Steps) /\ Len(r) = Len(p) + Len(q) /\ Len(p) \in Nat /\ Len(q) \in Nat
      /\ (\A k \in 1..Len(p) : r[k] = p[k]) /\ \A k \in 1..Len(q) : r[Len(p) + k] = q[k]
  BY <1>0
<1>2. a \in Seq(Steps) /\ Len(a) = Len(p) + Len(q) /\ \A k \in 1..(Len(p) + Len(q)) : a[k] = WithUndo(r[k], u)
  BY <1>0, <1>1, OnFailureIs, ZenonT(60)
<1>3. /\ b \in Seq(Steps) /\ Len(b) = Len(p) /\ \A k \in 1..Len(p) : b[k] = WithUndo(p[k], u)
      /\ c \in Seq(Steps) /\ Len(c) = Len(q) /\ \A k \in 1..Len(q) : c[k] = WithUndo(q[k], u)
  BY <1>0, OnFailureIs
<1>4. d \in Seq(Steps) /\ Len(d) = Len(b) + Len(c)
      /\ (\A k \in 1..Len(b) : d[k] = b[k]) /\ \A k \in 1..Len(c) : d[Len(b) + k] = c[k]
  <2>1. d = b \o c /\ b \in Seq(Steps) /\ c \in Seq(Steps)
    BY <1>0, <1>3
  <2> QED BY <2>1
<1>5. ASSUME NEW k \in 1..(Len(p) + Len(q)) PROVE a[k] = d[k]
  <2>1. CASE k <= Len(p)
    <3>1. k \in 1..Len(p)
      BY <1>1, <2>1
    <3> QED BY <1>1, <1>2, <1>3, <1>4, <3>1
  <2>2. CASE k > Len(p)
    <3>1. PICK j : j = k - Len(p)
      OBVIOUS
    <3>2. j \in 1..Len(q) /\ k = Len(p) + j
      BY <1>1, <2>2, <3>1
    <3> QED BY <1>1, <1>2, <1>3, <1>4, <3>2
  <2> QED BY <1>1, <2>1, <2>2
<1>6. a = d
  BY <1>2, <1>3, <1>4, <1>5
<1> QED BY <1>0, <1>6

(* A plan that undoes nothing is left alone.                               *)
LEMMA OnFailureNone ==
  ASSUME NEW p \in Seq(Steps), \A k \in 1..Len(p) : p[k].undo = <<>>
  PROVE  OnFailure(p, <<>>) = p
<1>1. <<>> \in Undos
  BY DEF Undos
<1>2. \A k \in 1..Len(p) : WithUndo(p[k], <<>>) = p[k]
  <2> SUFFICES ASSUME NEW k \in 1..Len(p) PROVE WithUndo(p[k], <<>>) = p[k]
    OBVIOUS
  <2>1. PICK st \in Steps : st = p[k] /\ st.undo = <<>>
    OBVIOUS
  <2>2. [st EXCEPT !.undo = <<>>] = st
    BY <2>1 DEF Steps
  <2> QED BY <2>1, <2>2 DEF WithUndo
<1>3. OnFailure(p, <<>>) \in Seq(Steps) /\ Len(OnFailure(p, <<>>)) = Len(p)
      /\ \A k \in 1..Len(p) : OnFailure(p, <<>>)[k] = p[k]
  BY <1>1, <1>2, OnFailureIs
<1> QED BY <1>3

(* OnFailure on a single step.                                             *)
LEMMA OnFailureOne ==
  ASSUME NEW st \in Steps, NEW u \in Undos
  PROVE  OnFailure(<<st>>, u) = <<WithUndo(st, u)>>
<1>0. PICK p, q : p = <<st>> /\ q = OnFailure(p, u)
  OBVIOUS
<1>1. p \in Seq(Steps) /\ Len(p) = 1 /\ p[1] = st
  BY <1>0
<1>2. q \in Seq(Steps) /\ Len(q) = 1 /\ q[1] = WithUndo(st, u)
  <2>1. q \in Seq(Steps) /\ Len(q) = Len(p) /\ \A k \in 1..Len(p) : q[k] = WithUndo(p[k], u)
    BY <1>0, <1>1, OnFailureIs
  <2> QED BY <1>1, <2>1
<1>3. q = <<WithUndo(st, u)>>
  BY <1>2
<1> QED BY <1>0, <1>3

(* The claims a state's table serves.                                      *)
Held(s, X) == s.ent \cup CoreClaims(s.fat, s.core, X)

(* A change to the table off every chain.                                  *)
LEMMA MoveOff ==
  ASSUME NEW s, NEW X, Good(s, X), NEW st \in Steps, st.k = "fat",
         Unowned(s.fat, Held(s, X), st.c),
         X # {} \/ (CanUndo(s, st.undo) /\ (s.fat[st.c] = FREE \/ st.undo = <<>>)),
         NEW G, G = SetIn(s.fat, st)
  PROVE  \E t : /\ Moves(s, st, t, X) /\ Tabled(s, st, t, X, G)
                /\ (X # {} \/ CanUndo(t, st.undo))
                /\ \A z \in Held(s, X) \cup {RootClaim} : Chain(G, z[2]) = Chain(s.fat, z[2])
                /\ \A c \in Clus : Unowned(s.fat, Held(s, X), c) => Unowned(G, Held(s, X), c)
<1>0. PICK E, F, C : E = Held(s, X) /\ F = s.fat /\ C = {st.c}
  OBVIOUS
<1>1. st.c \in Clus /\ st.v \in Links
  BY DEF Steps
<1>2. s.fat \in Tables /\ E \in SUBSET AllClaims /\ Sound(s.fat, E) /\ Chain(s.fat, Root) \in Seq(Clus) /\ s.fat \in s.tabs
  BY <1>0, GoodFacts DEF Held
<1>3. G \in Tables /\ (\A b \in Clus \ C : G[b] = F[b]) /\ \A b \in C : Unowned(F, E, b)
  BY <1>0, <1>1, <1>2 DEF Tables, SetIn
<1>4. Sound(G, E) /\ (\A z \in E \cup {RootClaim} : Chain(G, z[2]) = Chain(s.fat, z[2]))
      /\ \A c \in Clus : Unowned(s.fat, E, c) => Unowned(G, E, c)
  <2>1. F \in Tables /\ G \in Tables /\ E \in SUBSET AllClaims /\ Sound(F, E)
    BY <1>0, <1>2, <1>3
  <2>2. Sound(G, E)
    BY <1>3, <2>1, SoundOff
  <2>3. \A z \in E \cup {RootClaim} : Chain(G, z[2]) = Chain(F, z[2])
    BY <1>3, <2>1, SoundOff
  <2>4. \A c \in Clus : Unowned(F, E, c) => Unowned(G, E, c)
    BY <1>3, <2>1, SoundOff
  <2> QED BY <1>0, <2>2, <2>3, <2>4
<1>5. RootGrows(s.fat, G)
  BY <1>2, <1>4, RootIs, SameRoot
<1>6. PICK t : Tabled(s, st, t, X, G)
  BY <1>0, <1>4, <1>5, MoveFat DEF Held
<1>7. X # {} \/ CanUndo(t, st.undo)
  <2> SUFFICES ASSUME X = {} PROVE CanUndo(t, st.undo)
    OBVIOUS
  <2>1. CASE st.undo = <<>>
    BY <2>1 DEF CanUndo
  <2>2. CASE s.fat[st.c] = FREE
    <3>1. \A c \in Clus : s.fat[c] = EOC => c # st.c
      BY <2>2, ConstFacts
    <3>2. \A c \in Clus : s.fat[c] = EOC => G[c] = EOC
      BY <1>0, <1>3, <3>1
    <3>3. \A c \in Clus : Unowned(s.fat, s.ent \cup CoreClaims(s.fat, s.core, {}), c) =>
            Unowned(G, s.ent \cup CoreClaims(s.fat, s.core, {}), c)
      BY <1>0, <1>4 DEF Held
    <3>4. CanUndo(s, st.undo)
      OBVIOUS
    <3>5. t.fat = G /\ t.tabs = s.tabs \cup {G} /\ t.ent = s.ent
          /\ CoreClaims(t.fat, t.core, {}) = CoreClaims(s.fat, s.core, {})
      BY <1>6 DEF Tabled
    <3> QED BY <1>2, <3>2, <3>3, <3>4, <3>5, CanUndoFat
  <2> QED BY <2>1, <2>2
<1>8. Moves(s, st, t, X)
  BY <1>6, <1>7, MovesIf DEF Tabled
<1> QED BY <1>0, <1>4, <1>6, <1>7, <1>8

(* The clusters ch[1..n] were freed between s and t, and no claim noticed. *)
Freed(s, t, ch, n, X) ==
  /\ Good(t, X) /\ t.ent = s.ent /\ t.dat = s.dat /\ t.core = s.core
  /\ Held(t, X) = Held(s, X)
  /\ \A c \in Clus : t.fat[c] = IF \E k \in 1..n : ch[k] = c THEN FREE ELSE s.fat[c]
  /\ \A z \in Held(s, X) \cup {RootClaim} : Chain(t.fat, z[2]) = Chain(s.fat, z[2])
  /\ \A c \in Clus : Unowned(s.fat, Held(s, X), c) => Unowned(t.fat, Held(s, X), c)

(* fat_free_chain of clusters that nobody holds.                           *)
LEMMA ExecFrees ==
  ASSUME NEW s, NEW X, Good(s, X), NEW ch \in Seq(Clus),
         \A k \in 1..Len(ch) : Unowned(s.fat, Held(s, X), ch[k]),
         NEW p, p = [k \in DOMAIN ch |-> SetFat(ch[k], FREE, "low")]
  PROVE  \E t : Exec(s, p, t, X) /\ Freed(s, t, ch, Len(ch), X)
<1> DEFINE Goes(n) == \E t : Exec(s, SubSeq(p, 1, n), t, X) /\ Freed(s, t, ch, n, X)
           T == {n \in 0..Len(ch) : Goes(n)}
<1>0. Len(ch) \in Nat /\ DOMAIN ch = 1..Len(ch)
  OBVIOUS
<1>1. p \in Seq(Steps) /\ Len(p) = Len(ch) /\ \A k \in 1..Len(ch) : p[k] = SetFat(ch[k], FREE, "low")
  <2>1. \A k \in 1..Len(ch) : SetFat(ch[k], FREE, "low") \in Steps
    BY StepTypes DEF Links
  <2>2. p \in [1..Len(ch) -> Steps]
    BY <1>0, <2>1
  <2> QED BY <1>0, <2>2
<1>2. 0 \in T
  <2>1. SubSeq(p, 1, 0) = <<>>
    BY <1>1, PrefixAll
  <2>2. Exec(s, SubSeq(p, 1, 0), s, X)
    BY <2>1, ExecNil
  <2>3. Freed(s, s, ch, 0, X)
    BY DEF Freed
  <2>4. Goes(0)
    BY <2>2, <2>3
  <2>5. 0 \in 0..Len(ch)
    BY <1>0
  <2> QED BY <2>4, <2>5
<1>3. ASSUME NEW n \in 0..(Len(ch) - 1), n \in T PROVE n + 1 \in T
  <2>0. n + 1 \in 0..Len(ch) /\ n + 1 \in 1..Len(ch) /\ n \in Nat /\ n \in 0..(Len(p) - 1)
    BY <1>0, <1>1
  <2>1. PICK a, st, c : a = SubSeq(p, 1, n) /\ st = p[n + 1] /\ c = ch[n + 1]
    OBVIOUS
  <2>2. SubSeq(p, 1, n + 1) = a \o <<st>> /\ st \in Steps
    BY <1>1, <2>0, <2>1, PrefixStep
  <2>3. st.k = "fat" /\ st.c = c /\ st.v = FREE /\ st.undo = <<>> /\ c \in Clus
    BY <1>1, <2>0, <2>1 DEF SetFat
  <2>4. PICK r : Exec(s, a, r, X) /\ Freed(s, r, ch, n, X)
    BY <1>3, <2>1
  <2>5. Unowned(r.fat, Held(r, X), c)
    BY <2>0, <2>1, <2>3, <2>4 DEF Freed
  <2>6. PICK G : G = SetIn(r.fat, st)
    OBVIOUS
  <2>7. CanUndo(r, st.undo)
    BY <2>3 DEF CanUndo
  <2>8. PICK t : /\ Moves(r, st, t, X) /\ Tabled(r, st, t, X, G)
                 /\ \A z \in Held(r, X) \cup {RootClaim} : Chain(G, z[2]) = Chain(r.fat, z[2])
                 /\ \A b \in Clus : Unowned(r.fat, Held(r, X), b) => Unowned(G, Held(r, X), b)
    BY <2>2, <2>3, <2>4, <2>5, <2>6, <2>7, MoveOff DEF Freed
  <2>9. Exec(s, a \o <<st>>, t, X)
    BY <2>4, <2>8, ExecOne, ExecExec
  <2>10. Freed(s, t, ch, n + 1, X)
    <3>1. Good(t, X) /\ t.ent = s.ent /\ t.dat = s.dat /\ t.core = s.core /\ t.fat = G
      BY <2>4, <2>8 DEF Freed, Tabled
    <3>2. Held(t, X) = Held(r, X)
      BY <2>8 DEF Tabled, Held
    <3>3. ASSUME NEW b \in Clus PROVE t.fat[b] = IF \E k \in 1..(n + 1) : ch[k] = b THEN FREE ELSE s.fat[b]
      <4>1. r.fat \in Tables
        BY <2>4, GoodFacts DEF Freed
      <4>2. G[b] = IF b = c THEN FREE ELSE r.fat[b]
        BY <2>3, <2>6, <4>1 DEF SetIn, Tables
      <4>3. r.fat[b] = IF \E k \in 1..n : ch[k] = b THEN FREE ELSE s.fat[b]
        BY <2>4 DEF Freed
      <4>4. (\E k \in 1..(n + 1) : ch[k] = b) <=> (b = c \/ \E k \in 1..n : ch[k] = b)
        BY <2>0, <2>1
      <4> QED BY <3>1, <4>2, <4>3, <4>4
    <3>4. Held(r, X) = Held(s, X)
      BY <2>4 DEF Freed
    <3>5. \A z \in Held(s, X) \cup {RootClaim} : Chain(t.fat, z[2]) = Chain(s.fat, z[2])
      BY <2>4, <2>8, <3>1, <3>4 DEF Freed
    <3>6. \A b \in Clus : Unowned(s.fat, Held(s, X), b) => Unowned(t.fat, Held(s, X), b)
      BY <2>4, <2>8, <3>1, <3>4 DEF Freed
    <3> QED BY <3>1, <3>2, <3>3, <3>4, <3>5, <3>6 DEF Freed
  <2> QED BY <2>0, <2>2, <2>9, <2>10
<1>4. T = {n \in 0..Len(ch) : Goes(n)}
  OBVIOUS
<1> HIDE DEF T
<1>5. \A n \in 0..Len(ch) : n \in T
  BY <1>0, <1>2, <1>3, BoundedInduction
<1>6. Goes(Len(ch)) /\ SubSeq(p, 1, Len(ch)) = p
  BY <1>0, <1>1, <1>4, <1>5, PrefixAll
<1> QED BY <1>6

(* A sector of one kind of unit is a patch of the whole of it.             *)
LEMMA AllOfIs ==
  ASSUME NEW x \in Units
  PROVE  AllOf(x) \in Patches /\ DOMAIN AllOf(x) = 1..UNITS /\ \A j \in 1..UNITS : AllOf(x)[j] = x
<1>1. AllOf(x) \in [1..UNITS -> Units]
  BY DEF AllOf
<1> QED BY <1>1 DEF Patches, AllOf

(* Cluster c was allocated between s and t, and no claim noticed.          *)
Allocated(s, t, c) ==
  /\ Good(t, {}) /\ t.fat = [s.fat EXCEPT ![c] = EOC] /\ t.ent \subseteq s.ent
  /\ t.core = s.core
  /\ \A b \in Clus, j \in 1..UNITS : t.dat[b][j] = IF b = c THEN Zero ELSE s.dat[b][j]
  /\ CoreClaims(t.fat, t.core, {}) = CoreClaims(s.fat, s.core, {})
  /\ Held(t, {}) \subseteq Held(s, {})
  /\ \A z \in Held(s, {}) \cup {RootClaim} : Chain(t.fat, z[2]) = Chain(s.fat, z[2])
  /\ \A b \in Clus : Unowned(s.fat, Held(s, {}), b) => Unowned(t.fat, Held(s, {}), b)
  /\ Unowned(t.fat, Held(t, {}), c)

(* fat_alloc_cluster of a free cluster.                                    *)
LEMMA AllocExec ==
  ASSUME NEW s, Good(s, {}), NEW c \in Clus, s.fat[c] = FREE, NEW u \in Undos, CanUndo(s, u),
         NEW p, p = OnFailure(Alloc(c), u)
  PROVE  \E t : Exec(s, p, t, {}) /\ Allocated(s, t, c) /\ CanUndo(t, u)
<1>0. PICK x, y, a, b, X, Z : /\ x = Data(c, AllOf(Zero)) /\ y = SetFat(c, EOC, "next") /\ a = WithUndo(x, u)
                              /\ b = WithUndo(y, u) /\ X = {} /\ Z = {}
  OBVIOUS
<1>1. Zero \in Units /\ Zero \in Blanks /\ EOC \in Links
  BY BlanksAre DEF Blanks, Links
<1>2. x \in Steps /\ y \in Steps
  BY <1>0, <1>1, AllOfIs, StepTypes
<1>3. /\ a \in Steps /\ a.k = "data" /\ a.c = c /\ a.u = AllOf(Zero) /\ a.undo = u
      /\ b \in Steps /\ b.k = "fat" /\ b.c = c /\ b.v = EOC /\ b.undo = u
  <2>1. x.k = "data" /\ x.c = c /\ x.u = AllOf(Zero) /\ y.k = "fat" /\ y.c = c /\ y.v = EOC
    BY <1>0 DEF Data, SetFat
  <2> QED BY <1>0, <1>2, <2>1, UndoTypes DEF WithUndo
<1>4. p = <<a>> \o <<b>>
  <2>1. PICK m, n : m = <<x>> /\ n = <<y>>
    OBVIOUS
  <2>2. Alloc(c) = m \o n /\ m \in Seq(Steps) /\ n \in Seq(Steps)
    BY <1>0, <1>2, <2>1 DEF Alloc
  <2>3. OnFailure(m \o n, u) = OnFailure(m, u) \o OnFailure(n, u)
    BY <2>2, OnFailureConcat
  <2>4. OnFailure(m, u) = <<a>> /\ OnFailure(n, u) = <<b>>
    BY <1>0, <1>2, <2>1, OnFailureOne
  <2> QED BY <2>2, <2>3, <2>4
<1>5. DOMAIN a.u = 1..UNITS /\ (\A j \in 1..UNITS : a.u[j] = Zero) /\ \A j \in DOMAIN a.u : a.u[j] \in Blanks
  BY <1>1, <1>3, AllOfIs
<1>6. PICK r : /\ Moves(s, a, r, X) /\ Patched(s, a, r, X, Z) /\ r.ent \subseteq s.ent
               /\ CoreClaims(r.fat, r.core, X) = CoreClaims(s.fat, s.core, X)
               /\ X # {} \/ CanUndo(r, a.undo)
  <2>1. Good(s, X) /\ a.k \in {"data", "xfer"} /\ CanUndo(s, a.undo)
    BY <1>0, <1>3
  <2> QED BY <1>0, <1>3, <1>5, <2>1, MoveBlank
<1>7. r.fat = s.fat /\ r.core = s.core /\ Good(r, X) /\ Held(r, X) \subseteq Held(s, X)
  BY <1>3, <1>6 DEF Patched, Held
<1>8. Unowned(r.fat, Held(r, X), c)
  BY <1>0, <1>7, GoodFacts, FreeUnowned DEF Held
<1>9. PICK G : G = SetIn(r.fat, b)
  OBVIOUS
<1>10. PICK t : /\ Moves(r, b, t, X) /\ Tabled(r, b, t, X, G)
                /\ (X # {} \/ CanUndo(t, b.undo))
                /\ \A z \in Held(r, X) \cup {RootClaim} : Chain(G, z[2]) = Chain(r.fat, z[2])
                /\ \A d \in Clus : Unowned(r.fat, Held(r, X), d) => Unowned(G, Held(r, X), d)
  BY <1>0, <1>3, <1>6, <1>7, <1>8, <1>9, MoveOff
<1>11. G = [s.fat EXCEPT ![c] = EOC] /\ s.fat \in Tables /\ G \in Tables
  BY <1>1, <1>3, <1>7, <1>9, GoodFacts DEF SetIn, Tables
<1>12. Exec(s, p, t, X)
  BY <1>4, <1>6, <1>10, ExecOne, ExecExec
<1>13. PICK E, F, C : E = Held(s, X) /\ F = s.fat /\ C = {c}
  OBVIOUS
<1>14. F \in Tables /\ E \in SUBSET AllClaims /\ Sound(F, E) /\ \A d \in C : Unowned(F, E, d)
  <2>1. F \in Tables /\ E \in SUBSET AllClaims /\ Sound(F, E)
    BY <1>0, <1>13, GoodFacts DEF Held
  <2> QED BY <1>13, <2>1, FreeUnowned
<1>15. G \in Tables /\ \A d \in Clus \ C : G[d] = F[d]
  BY <1>11, <1>13 DEF Tables
<1>16. \A z \in E \cup {RootClaim} : Chain(G, z[2]) = Chain(F, z[2])
  BY <1>14, <1>15, SoundOff
<1>17. \A d \in Clus : Unowned(F, E, d) => Unowned(G, E, d)
  BY <1>14, <1>15, SoundOff
<1>18. t.fat = G /\ t.core = s.core /\ t.dat = r.dat /\ t.ent \subseteq s.ent /\ Good(t, X) /\ t.ent = r.ent
      /\ CoreClaims(t.fat, t.core, X) = CoreClaims(s.fat, s.core, X)
  BY <1>6, <1>7, <1>10 DEF Tabled
<1>19. \A d \in Clus, j \in 1..UNITS : t.dat[d][j] = IF d = c THEN Zero ELSE s.dat[d][j]
  BY <1>3, <1>5, <1>6, <1>18 DEF Patched
<1>20. Held(t, X) = Held(r, X)
  BY <1>6, <1>18 DEF Held
<1>21. Unowned(t.fat, Held(t, X), c)
  BY <1>8, <1>10, <1>18, <1>20
<1>22. Allocated(s, t, c)
  BY <1>0, <1>7, <1>11, <1>13, <1>16, <1>17, <1>18, <1>19, <1>20, <1>21 DEF Allocated
<1> QED BY <1>0, <1>3, <1>10, <1>12, <1>22

(* One pass of a scan.                                                     *)
TakeOne(x, S, w) == IF x \in S THEN Append(w, x) ELSE w

ScanOf(U, s, S, w) ==
  /\ w \in [0..Len(s) -> Seq(U)]
  /\ Taken(s, S) = w[Len(s)] /\ w[0] = <<>>
  /\ \A k \in 1..Len(s) : w[k] = TakeOne(s[k], S, w[k - 1])

(* A scan makes one pass for each element.                                 *)
LEMMA TakenIs ==
  ASSUME NEW U, NEW s \in Seq(U), NEW S
  PROVE  \E w : ScanOf(U, s, S, w)
<1> DEFINE Q == Seq(U)
           N == Len(s)
           H == [k \in 1..N |-> [r \in Q |-> TakeOne(s[k], S, r)]]
           D(g) == [k \in 0..N |-> IF k = 0 THEN <<>> ELSE TakeOne(s[k], S, g[k - 1])]
           w == CHOOSE g : g = D(g)
<1>0. N \in Nat /\ <<>> \in Q
  OBVIOUS
<1>1. \A k \in 1..N, r \in Q : TakeOne(s[k], S, r) \in Q
  BY DEF TakeOne
<1>2. H \in [1..N -> [Q -> Q]] /\ \A k \in 1..N, r \in Q : H[k][r] = TakeOne(s[k], S, r)
  BY <1>1
<1>7. Taken(s, S) = w[N]
  BY DEF Taken, TakeOne
<1> HIDE DEF H, N
<1>3. PICK g \in [0..N -> Q] : g[0] = <<>> /\ \A i \in 1..N : g[i] = H[i][g[i - 1]]
  <2> HIDE DEF Q, D, w
  <2>1. PICK e, n, A, K : e = <<>> /\ n = N /\ A = Q /\ K = H
    OBVIOUS
  <2>2. e \in A /\ K \in [1..n -> [A -> A]] /\ n \in Nat
    BY <1>0, <1>2, <2>1
  <2>3. \E g \in [0..n -> A] : g[0] = e /\ \A i \in 1..n : g[i] = K[i][g[i - 1]]
    BY <2>2, WalkExists
  <2> QED BY <2>1, <2>3
<1>4. ASSUME NEW k \in 0..N
      PROVE  g[k] = IF k = 0 THEN <<>> ELSE TakeOne(s[k], S, g[k - 1])
  <2>1. CASE k = 0
    BY <1>3, <2>1
  <2>2. CASE k # 0
    <3>1. k \in 1..N /\ k - 1 \in 0..N
      BY <1>0, <2>2
    <3> QED BY <2>2, <3>1, <1>2, <1>3
  <2> QED BY <2>1, <2>2
<1>5. g = D(g)
  <2>1. g = [k \in 0..N |-> g[k]]
    BY <1>3
  <2>2. \A k \in 0..N : D(g)[k] = IF k = 0 THEN <<>> ELSE TakeOne(s[k], S, g[k - 1])
    OBVIOUS
  <2>3. D(g) = [k \in 0..N |-> D(g)[k]]
    OBVIOUS
  <2> HIDE DEF D
  <2>4. \A k \in 0..N : g[k] = D(g)[k]
    BY <1>4, <2>2, Zenon
  <2> QED BY <2>1, <2>3, <2>4
<1>6. w = D(w)
  <2> HIDE DEF D
  <2> QED BY <1>5, Zenon
<1> HIDE DEF w
<1>8. w[0] = <<>> /\ \A k \in 1..N : w[k] = TakeOne(s[k], S, w[k - 1])
  <2>1. \A k \in 0..N : D(w)[k] = IF k = 0 THEN <<>> ELSE TakeOne(s[k], S, w[k - 1])
    OBVIOUS
  <2> HIDE DEF D
  <2>2. \A k \in 0..N : w[k] = IF k = 0 THEN <<>> ELSE TakeOne(s[k], S, w[k - 1])
    BY <1>6, <2>1, Zenon
  <2> QED BY <1>0, <2>2
<1> DEFINE T == {k \in 0..N : w[k] \in Q}
<1>9. 0 \in T
  <2> HIDE DEF Q
  <2> QED BY <1>0, <1>8
<1>10. ASSUME NEW k \in 0..(N - 1), k \in T PROVE k + 1 \in T
  <2>1. k + 1 \in 1..N /\ (k + 1) - 1 = k /\ w[k] \in Q
    BY <1>0, <1>10
  <2>2. w[k + 1] = TakeOne(s[k + 1], S, w[k])
    BY <1>8, <2>1
  <2> QED BY <1>1, <2>1, <2>2, SMTT(30)
<1> HIDE DEF T
<1>11. \A k \in 0..N : k \in T
  BY <1>0, <1>9, <1>10, BoundedInduction
<1>12. w = [k \in 0..N |-> w[k]]
  <2>1. D(w) = [k \in 0..N |-> D(w)[k]]
    OBVIOUS
  <2> HIDE DEF D
  <2> QED BY <1>6, <2>1
<1>13. w \in [0..N -> Q]
  BY <1>11, <1>12 DEF T
<1> QED BY <1>7, <1>8, <1>13 DEF N, ScanOf

(* What a scan takes is in the set, in order, and all there is.            *)
TakesAll(s, S, t) ==
  /\ \A k \in 1..Len(t) : t[k] \in S
  /\ \E f \in [1..Len(t) -> 1..Len(s)] :
       /\ \A k \in 1..Len(t) : t[k] = s[f[k]]
       /\ \A j, k \in 1..Len(t) : j < k => f[j] < f[k]
  /\ \A m \in 1..Len(s) : s[m] \in S => \E k \in 1..Len(t) : t[k] = s[m]

(* A scan takes the elements of S, all of them, in their order.            *)
LEMMA TakenAll ==
  ASSUME NEW U, NEW s \in Seq(U), NEW S
  PROVE  Taken(s, S) \in Seq(U) /\ TakesAll(s, S, Taken(s, S))
<1>1a. PICK w : ScanOf(U, s, S, w)
  BY TakenIs
<1>1. /\ w \in [0..Len(s) -> Seq(U)]
      /\ Taken(s, S) = w[Len(s)] /\ w[0] = <<>>
      /\ \A k \in 1..Len(s) : w[k] = TakeOne(s[k], S, w[k - 1])
  BY <1>1a DEF ScanOf
<1>0. Len(s) \in Nat
  OBVIOUS
<1> DEFINE OK(n) ==
      /\ \A k \in 1..Len(w[n]) : w[n][k] \in S
      /\ \E f \in [1..Len(w[n]) -> 1..n] :
           /\ \A k \in 1..Len(w[n]) : w[n][k] = s[f[k]]
           /\ \A j, k \in 1..Len(w[n]) : j < k => f[j] < f[k]
      /\ \A m \in 1..n : s[m] \in S => \E k \in 1..Len(w[n]) : w[n][k] = s[m]
           T == {n \in 0..Len(s) : OK(n)}
<1>2. OK(0)
  <2>1. Len(w[0]) = 0
    BY <1>1
  <2>2. PICK f : f = [k \in 1..0 |-> k]
    OBVIOUS
  <2>3. f \in [1..Len(w[0]) -> 1..0]
    BY <2>1, <2>2
  <2>4. ~(\E k \in 1..Len(w[0]) : TRUE) /\ ~(\E k \in 1..0 : TRUE)
    BY <2>1
  <2>5. \E h \in [1..Len(w[0]) -> 1..0] :
           /\ \A k \in 1..Len(w[0]) : w[0][k] = s[h[k]]
           /\ \A j, k \in 1..Len(w[0]) : j < k => h[j] < h[k]
    BY <2>3, <2>4
  <2> QED BY <2>4, <2>5
<1>3. ASSUME NEW n \in 0..(Len(s) - 1), OK(n) PROVE OK(n + 1)
  <2>0. n \in Nat /\ n + 1 \in 1..Len(s) /\ (n + 1) - 1 = n /\ n \in 0..Len(s)
    BY <1>0
  <2>1. PICK a, b, x : a = w[n] /\ b = w[n + 1] /\ x = s[n + 1]
    OBVIOUS
  <2>2. b = TakeOne(x, S, a) /\ a \in Seq(U) /\ x \in U
    BY <1>1, <2>0, <2>1
  <2>3. PICK f \in [1..Len(a) -> 1..n] :
           /\ \A k \in 1..Len(a) : a[k] = s[f[k]]
           /\ \A j, k \in 1..Len(a) : j < k => f[j] < f[k]
    BY <1>3, <2>1
  <2>4. \A k \in 1..Len(a) : a[k] \in S
    BY <1>3, <2>1
  <2>5. \A m \in 1..n : s[m] \in S => \E k \in 1..Len(a) : a[k] = s[m]
    BY <1>3, <2>1
  <2> HIDE DEF OK
  <2>6. CASE x \notin S
    <3>1. b = a
      BY <2>2, <2>6 DEF TakeOne
    <3>2. f \in [1..Len(b) -> 1..(n + 1)]
      BY <2>0, <2>3, <3>1
    <3>3. \A m \in 1..(n + 1) : s[m] \in S => m \in 1..n
      BY <2>0, <2>1, <2>6
    <3>4. \A m \in 1..(n + 1) : s[m] \in S => \E k \in 1..Len(b) : b[k] = s[m]
      BY <2>5, <3>1, <3>3
    <3>5. \A k \in 1..Len(b) : b[k] \in S
      BY <2>4, <3>1
    <3>6. /\ \A k \in 1..Len(b) : b[k] = s[f[k]]
          /\ \A j, k \in 1..Len(b) : j < k => f[j] < f[k]
      BY <2>3, <3>1
    <3> QED BY <2>1, <3>2, <3>4, <3>5, <3>6 DEF OK
  <2>7. CASE x \in S
    <3>1. b = Append(a, x) /\ Len(a) \in Nat
      BY <2>2, <2>7 DEF TakeOne
    <3>2. Len(b) = Len(a) + 1 /\ (\A k \in 1..Len(a) : b[k] = a[k]) /\ b[Len(a) + 1] = x
      BY <2>2, <3>1
    <3>3. PICK g : g = [k \in 1..(Len(a) + 1) |-> IF k = Len(a) + 1 THEN n + 1 ELSE f[k]]
      OBVIOUS
    <3>4. \A k \in 1..(Len(a) + 1) : k = Len(a) + 1 \/ k \in 1..Len(a)
      BY <3>1
    <3>5. \A k \in 1..(Len(a) + 1) : g[k] = IF k = Len(a) + 1 THEN n + 1 ELSE f[k]
      BY <3>3
    <3>6. \A k \in 1..Len(a) : g[k] = f[k] /\ f[k] \in 1..n
      BY <2>3, <3>1, <3>5, SMTT(30)
    <3>7. g[Len(a) + 1] = n + 1
      BY <3>1, <3>5
    <3>8. g \in [1..Len(b) -> 1..(n + 1)]
      <4>1. \A k \in 1..(Len(a) + 1) : g[k] \in 1..(n + 1)
        BY <2>0, <3>4, <3>6, <3>7
      <4> QED BY <3>2, <3>3, <4>1
    <3>9. ASSUME NEW k \in 1..Len(b) PROVE b[k] = s[g[k]] /\ b[k] \in S
      <4>1. CASE k \in 1..Len(a)
        <5>1. b[k] = a[k] /\ g[k] = f[k]
          BY <3>2, <3>6, <4>1
        <5> QED BY <2>3, <2>4, <4>1, <5>1
      <4>2. CASE k = Len(a) + 1
        BY <2>1, <2>7, <3>2, <3>7, <4>2
      <4> QED BY <3>2, <3>4, <4>1, <4>2
    <3>10. ASSUME NEW j \in 1..Len(b), NEW k \in 1..Len(b), j < k PROVE g[j] < g[k]
      <4>1. j \in 1..Len(a)
        BY <3>1, <3>2, <3>10
      <4>2. CASE k \in 1..Len(a)
        BY <2>3, <3>6, <3>10, <4>1, <4>2
      <4>3. CASE k = Len(a) + 1
        BY <2>0, <3>6, <3>7, <4>1, <4>3
      <4> QED BY <3>2, <3>4, <4>2, <4>3
    <3>11. ASSUME NEW m \in 1..(n + 1), s[m] \in S PROVE \E k \in 1..Len(b) : b[k] = s[m]
      <4>1. CASE m = n + 1
        <5>1. Len(a) + 1 \in 1..Len(b) /\ b[Len(a) + 1] = s[m]
          BY <2>1, <3>1, <3>2, <4>1
        <5> QED BY <5>1
      <4>2. CASE m \in 1..n
        BY <2>5, <3>1, <3>2, <3>11, <4>2
      <4> QED BY <2>0, <4>1, <4>2
    <3> QED BY <2>1, <3>8, <3>9, <3>10, <3>11 DEF OK
  <2> QED BY <2>6, <2>7
<1>4. T = {n \in 0..Len(s) : OK(n)}
  OBVIOUS
<1> HIDE DEF T, OK
<1>5. 0 \in T /\ \A n \in 0..(Len(s) - 1) : n \in T => n + 1 \in T
  BY <1>0, <1>2, <1>3, <1>4
<1>6. \A n \in 0..Len(s) : n \in T
  BY <1>0, <1>5, BoundedInduction
<1>7. OK(Len(s)) /\ w[Len(s)] \in Seq(U)
  BY <1>0, <1>1, <1>4, <1>6
<1>8. PICK t : t = w[Len(s)]
  OBVIOUS
<1>9. t \in Seq(U) /\ TakesAll(s, S, t)
  BY <1>7, <1>8 DEF OK, TakesAll
<1> QED BY <1>1, <1>8, <1>9

(* Elements of a sequence without repetition are taken once.               *)
LEMMA TakenOnce ==
  ASSUME NEW s, NEW S, NEW t, TakesAll(s, S, t), Len(t) \in Nat,
         \A j, k \in 1..Len(s) : s[j] = s[k] => j = k
  PROVE  \A j, k \in 1..Len(t) : t[j] = t[k] => j = k
<1>1. PICK f \in [1..Len(t) -> 1..Len(s)] :
       /\ \A k \in 1..Len(t) : t[k] = s[f[k]]
       /\ \A j, k \in 1..Len(t) : j < k => f[j] < f[k]
  BY DEF TakesAll
<1> SUFFICES ASSUME NEW j \in 1..Len(t), NEW k \in 1..Len(t), t[j] = t[k] PROVE j = k
  OBVIOUS
<1>2. f[j] = f[k] /\ f[j] \in 1..Len(s)
  BY <1>1, SMTT(30)
<1>3. ~(j < k) /\ ~(k < j)
  <2>1. ~(f[j] < f[k]) /\ ~(f[k] < f[j])
    BY <1>2
  <2> QED BY <1>1, <2>1
<1> QED BY <1>3

(* The free clusters, each once.                                           *)
LEMMA FreeFromIs ==
  ASSUME NEW F \in Tables, NEW h \in Clus
  PROVE  /\ FreeFrom(F, h) \in Seq(Clus)
         /\ \A k \in 1..Len(FreeFrom(F, h)) : F[FreeFrom(F, h)[k]] = FREE
         /\ \A j, k \in 1..Len(FreeFrom(F, h)) : FreeFrom(F, h)[j] = FreeFrom(F, h)[k] => j = k
<1>0. CLUSTERS \in Nat \ {0} /\ h \in Nat /\ h >= 2
  BY ConstFacts
<1>1. PICK s, S, t : /\ s = [k \in 1..CLUSTERS |-> 2 + ((h - 2 + k - 1) % CLUSTERS)]
                     /\ S = {c \in Clus : F[c] = FREE} /\ t = FreeFrom(F, h)
  OBVIOUS
<1>2. t = Taken(s, S)
  BY <1>1 DEF FreeFrom
<1>3. \A k \in 1..CLUSTERS : /\ h - 2 + k - 1 \in Nat /\ s[k] = 2 + ((h - 2 + k - 1) % CLUSTERS)
                             /\ (h - 2 + k - 1) % CLUSTERS \in 0..(CLUSTERS - 1)
  <2> SUFFICES ASSUME NEW k \in 1..CLUSTERS
               PROVE  /\ h - 2 + k - 1 \in Nat /\ s[k] = 2 + ((h - 2 + k - 1) % CLUSTERS)
                      /\ (h - 2 + k - 1) % CLUSTERS \in 0..(CLUSTERS - 1)
    OBVIOUS
  <2>1. h - 2 + k - 1 \in Nat
    BY <1>0
  <2> QED BY <1>0, <1>1, <2>1, SlotInRing
<1>4. \A k \in 1..CLUSTERS : s[k] \in Clus
  BY <1>0, <1>3 DEF Clus
<1>5. s \in [1..CLUSTERS -> Clus]
  <2>1. s = [k \in 1..CLUSTERS |-> s[k]]
    BY <1>1
  <2> QED BY <1>4, <2>1
<1>6. s \in Seq(Clus) /\ Len(s) = CLUSTERS
  BY <1>0, <1>5
<1>7. ASSUME NEW j \in 1..CLUSTERS, NEW k \in 1..CLUSTERS, j < k PROVE s[j] # s[k]
  <2>1. PICK x, y : x = h - 2 + j - 1 /\ y = h - 2 + k - 1
    OBVIOUS
  <2>2. x \in Nat /\ y \in Nat /\ x < y /\ y < x + CLUSTERS
    BY <1>0, <1>7, <2>1
  <2>3. x % CLUSTERS # y % CLUSTERS
    BY <1>0, <2>2, SlotsDistinct
  <2>4. s[j] = 2 + (x % CLUSTERS) /\ s[k] = 2 + (y % CLUSTERS) /\ x % CLUSTERS \in Nat /\ y % CLUSTERS \in Nat
    BY <1>3, <2>1
  <2> QED BY <2>3, <2>4
<1>8. \A j, k \in 1..Len(s) : s[j] = s[k] => j = k
  BY <1>0, <1>6, <1>7
<1>9. t \in Seq(Clus) /\ TakesAll(s, S, t) /\ Len(t) \in Nat
  BY <1>2, <1>6, TakenAll
<1>10. \A j, k \in 1..Len(t) : t[j] = t[k] => j = k
  BY <1>8, <1>9, TakenOnce
<1>11. \A k \in 1..Len(t) : F[t[k]] = FREE
  BY <1>1, <1>9 DEF TakesAll
<1> QED BY <1>1, <1>9, <1>10, <1>11

(* The sequences ss, joined one at a time.                                 *)
Joined(A, ss, w) ==
  /\ w \in [0..Len(ss) -> Seq(A)] /\ w[0] = <<>>
  /\ \A k \in 1..Len(ss) : w[k] = w[k - 1] \o ss[k]
  /\ FlattenSeq(ss) = w[Len(ss)]

(* The fold that joins plans is defined, one plan at a time.               *)
LEMMA FlattenIs ==
  ASSUME NEW A, NEW ss \in Seq(Seq(A))
  PROVE  \E w : Joined(A, ss, w)
<1> DEFINE Q == Seq(A)
           N == Len(ss)
           D(g) == [k \in 1..N |-> IF k = 1 THEN ss[k] ELSE g[k - 1] \o ss[k]]
           f == CHOOSE g : g = D(g)
<1>0. N \in Nat /\ <<>> \in Q /\ \A k \in 1..N : ss[k] \in Q /\ <<>> \o ss[k] = ss[k]
  OBVIOUS
<1>1. CASE N = 0
  <2>1. ss = <<>> /\ FlattenSeq(ss) = ss
    BY <1>1 DEF FlattenSeq
  <2>2. PICK w : w = [k \in 0..0 |-> <<>>]
    OBVIOUS
  <2>3. Len(ss) = 0 /\ w \in [0..Len(ss) -> Seq(A)] /\ w[0] = <<>> /\ w[Len(ss)] = <<>>
    BY <1>1, <2>2
  <2>4. Joined(A, ss, w)
    BY <2>1, <2>3 DEF Joined
  <2> QED BY <2>4
<1>2. CASE N # 0
  <2>0. N >= 1
    BY <1>0, <1>2
  <2>1. FlattenSeq(ss) = f[N]
    BY <1>2 DEF FlattenSeq
  <2> DEFINE H == [k \in 1..N |-> [r \in Q |-> r \o ss[k]]]
  <2>2. H \in [1..N -> [Q -> Q]] /\ \A k \in 1..N, r \in Q : H[k][r] = r \o ss[k]
    BY <1>0
  <2> HIDE DEF H, N, f, D
  <2>3. PICK g \in [0..N -> Q] : g[0] = <<>> /\ \A i \in 1..N : g[i] = H[i][g[i - 1]]
    <3> HIDE DEF Q
    <3>1. PICK e, n, B, K : e = <<>> /\ n = N /\ B = Q /\ K = H
      OBVIOUS
    <3>2. e \in B /\ K \in [1..n -> [B -> B]] /\ n \in Nat
      BY <1>0, <2>2, <3>1
    <3>3. \E g \in [0..n -> B] : g[0] = e /\ \A i \in 1..n : g[i] = K[i][g[i - 1]]
      BY <3>2, WalkExists, SMTT(30)
    <3> QED BY <3>1, <3>3
  <2>4. \A k \in 1..N : g[k] = g[k - 1] \o ss[k]
    <3> HIDE DEF Q
    <3>1. \A k \in 1..N : k - 1 \in 0..N
      BY <1>0
    <3> QED BY <2>2, <2>3, <3>1
  <2>5. PICK h : h = [k \in 1..N |-> g[k]]
    OBVIOUS
  <2>6. h = D(h)
    <3>1. ASSUME NEW k \in 1..N PROVE h[k] = IF k = 1 THEN ss[k] ELSE h[k - 1] \o ss[k]
      <4>1. CASE k = 1
        <5>0. k - 1 = 0
          BY <4>1
        <5>2. g[k] = g[k - 1] \o ss[k]
          BY <2>4
        <5>1. g[k] = g[0] \o ss[k]
          BY <5>0, <5>2
        <5> QED BY <1>0, <2>3, <2>5, <4>1, <5>1
      <4>2. CASE k # 1
        <5>1. k - 1 \in 1..N
          BY <1>0, <4>2
        <5> QED BY <2>4, <2>5, <4>2, <5>1
      <4> QED BY <4>1, <4>2
    <3>2. \A k \in 1..N : D(h)[k] = IF k = 1 THEN ss[k] ELSE h[k - 1] \o ss[k]
      BY DEF D
    <3>3. D(h) = [k \in 1..N |-> D(h)[k]]
      BY DEF D
    <3>4. h = [k \in 1..N |-> h[k]]
      BY <2>5
    <3>5. \A k \in 1..N : h[k] = D(h)[k]
      BY <3>1, <3>2, Zenon
    <3> QED BY <3>3, <3>4, <3>5
  <2>7. f = D(f)
    BY <2>6, Zenon DEF f
  <2>8. \A k \in 1..N : f[k] = IF k = 1 THEN ss[k] ELSE f[k - 1] \o ss[k]
    <3>1. \A k \in 1..N : D(f)[k] = IF k = 1 THEN ss[k] ELSE f[k - 1] \o ss[k]
      BY DEF D
    <3> QED BY <2>7, <3>1, Zenon
  <2>9. PICK w : w = [k \in 0..N |-> IF k = 0 THEN <<>> ELSE f[k]]
    OBVIOUS
  <2>10. w[0] = <<>> /\ \A k \in 1..N : w[k] = f[k]
    BY <1>0, <2>9
  <2> DEFINE T == {k \in 0..N : w[k] \in Q}
  <2> HIDE DEF Q
  <2>11. 0 \in T
    BY <1>0, <2>10
  <2>12. \A a, b \in Q : a \o b \in Q
    BY DEF Q
  <2>13. ASSUME NEW k \in 0..(N - 1), k \in T PROVE k + 1 \in T /\ w[k + 1] = w[k] \o ss[k + 1]
    <3>1. k + 1 \in 1..N /\ (k + 1) - 1 = k /\ w[k] \in Q /\ k + 1 \in 0..N
      BY <1>0, <2>13
    <3>2. w[k + 1] = w[k] \o ss[k + 1]
      <4>1. CASE k = 0
        <5>1. w[k] = <<>> /\ k + 1 = 1
          BY <2>10, <4>1
        <5>2. w[k + 1] = ss[k + 1]
          BY <2>8, <2>10, <3>1, <5>1
        <5>3. <<>> \o ss[k + 1] = ss[k + 1]
          BY <1>0, <3>1
        <5> QED BY <5>1, <5>2, <5>3
      <4>2. CASE k # 0
        <5>1. k \in 1..N /\ k + 1 # 1
          BY <1>0, <4>2
        <5> QED BY <2>8, <2>10, <3>1, <5>1
      <4> QED BY <4>1, <4>2
    <3>3. w[k + 1] \in Q
      BY <1>0, <2>12, <3>1, <3>2
    <3> QED BY <3>1, <3>2, <3>3
  <2>14. T = {k \in 0..N : w[k] \in Q}
    OBVIOUS
  <2> HIDE DEF T
  <2>15. \A k \in 0..N : k \in T
    BY <1>0, <2>11, <2>13, BoundedInduction
  <2>16. w \in [0..N -> Q]
    BY <2>9, <2>14, <2>15
  <2>17. \A k \in 1..N : w[k] = w[k - 1] \o ss[k]
    <3> SUFFICES ASSUME NEW k \in 1..N PROVE w[k] = w[k - 1] \o ss[k]
      OBVIOUS
    <3>1. k - 1 \in 0..(N - 1) /\ (k - 1) + 1 = k /\ k - 1 \in 0..N
      BY <1>0
    <3> QED BY <2>13, <2>15, <3>1
  <2>18. FlattenSeq(ss) = w[N]
    BY <1>0, <2>0, <2>1, <2>10
  <2> QED BY <2>10, <2>16, <2>17, <2>18 DEF Joined, N, Q
<1> QED BY <1>1, <1>2

(* A directory that grows twice has grown.                                 *)
LEMMA RootGrowsTrans ==
  ASSUME NEW F, NEW G, NEW H, RootGrows(F, G), RootGrows(G, H),
         Chain(F, Root) \in Seq(Clus), Chain(G, Root) \in Seq(Clus), Chain(H, Root) \in Seq(Clus)
  PROVE  RootGrows(F, H)
<1>1. PICK a, b, c : a = Chain(F, Root) /\ b = Chain(G, Root) /\ c = Chain(H, Root)
  OBVIOUS
<1>2. Len(a) \in Nat /\ Len(b) \in Nat /\ Len(c) \in Nat
  BY <1>1
<1>3. Len(a) <= Len(b) /\ (\A k \in 1..Len(a) : b[k] = a[k]) /\ Len(b) <= Len(c) /\ \A k \in 1..Len(b) : c[k] = b[k]
  BY <1>1 DEF RootGrows
<1>4. Len(a) <= Len(c) /\ \A k \in 1..Len(a) : c[k] = a[k]
  BY <1>2, <1>3
<1> QED BY <1>1, <1>4 DEF RootGrows

(* Allocation without anything to undo.                                    *)
LEMMA AllocSteps ==
  ASSUME NEW c \in Clus
  PROVE  Alloc(c) \in Seq(Steps) /\ OnFailure(Alloc(c), <<>>) = Alloc(c) /\ <<>> \in Undos
<1>0. PICK x, y, p : x = Data(c, AllOf(Zero)) /\ y = SetFat(c, EOC, "next") /\ p = Alloc(c)
  OBVIOUS
<1>1. Zero \in Units /\ EOC \in Links
  BY BlanksAre DEF Links
<1>2. x \in Steps /\ y \in Steps
  BY <1>0, <1>1, AllOfIs, StepTypes
<1>3. x.undo = <<>> /\ y.undo = <<>>
  BY <1>0 DEF Data, SetFat
<1>4. p \in Seq(Steps) /\ Len(p) = 2 /\ p[1] = x /\ p[2] = y
  BY <1>0, <1>2 DEF Alloc
<1>5. \A k \in 1..Len(p) : p[k].undo = <<>>
  BY <1>3, <1>4
<1>6. OnFailure(p, <<>>) = p
  BY <1>4, <1>5, OnFailureNone
<1> QED BY <1>0, <1>4, <1>6 DEF Undos

(* The table G after the first k of the clusters behind full[m] have been  *)
(* allocated and linked in F.                                              *)
Linked(F, G, full, m, k) ==
  /\ \A j \in 1..(m + k) : j >= m => G[full[j]] = IF j = m + k THEN EOC ELSE full[j + 1]
  /\ \A c \in Clus : (\A j \in 1..(m + k) : j >= m => full[j] # c) => G[c] = F[c]

(* The chain of the file at index i is full[1..m+k].                       *)
Filled(s, t, i, claimed, full, m, k) ==
  /\ Good(t, {}) /\ RootGrows(s.fat, t.fat) /\ Linked(s.fat, t.fat, full, m, k)
  /\ \A x \in Slots : t.core[x] = IF x = i /\ m = 0 /\ k >= 1 THEN claimed ELSE s.core[x]
  /\ \A b \in Clus, j \in 1..UNITS : s.fat[b] # FREE => t.dat[b][j] = s.dat[b][j]

(* What ensure_clusters starts from.                                       *)
Fillable(s, i, claimed, full, m, n) ==
  /\ Good(s, {}) /\ i \in Slots /\ InRoot(s.fat, i) /\ claimed \in Inodes
  /\ full \in Seq(Clus) /\ m \in Nat /\ n \in Nat /\ Len(full) = m + n
  /\ \A j, k \in 1..(m + n) : full[j] = full[k] => j = k
  /\ \A k \in 1..n : s.fat[full[m + k]] = FREE
  /\ m > 0 /\ n > 0 => s.fat[full[m]] = EOC
  /\ m = 0 /\ n > 0 => claimed.first \in {full[1], EOC}

JoinStep(i, claimed, full, j) ==
  IF j = 1 THEN Core(i, claimed) ELSE SetFat(full[j - 1], full[j], "keep")

(* One cluster more.                                                       *)
LEMMA EnsureOne ==
  ASSUME NEW s, NEW i, NEW claimed, NEW full, NEW m, NEW n, Fillable(s, i, claimed, full, m, n),
         NEW k \in 0..(n - 1), NEW q, Filled(s, q, i, claimed, full, m, k),
         NEW p, p = Alloc(full[m + (k + 1)]) \o <<JoinStep(i, claimed, full, m + (k + 1))>>
  PROVE  \E t : Exec(q, p, t, {}) /\ Filled(s, t, i, claimed, full, m, k + 1)
<1>0. PICK c, X, st, E, u : /\ c = full[m + (k + 1)] /\ X = {} /\ st = JoinStep(i, claimed, full, m + (k + 1))
                            /\ u = <<>> /\ E = Held(q, X)
  OBVIOUS
<1>1. /\ m \in Nat /\ n \in Nat /\ k \in Nat /\ k + 1 \in 1..n /\ m + (k + 1) \in 1..(m + n)
      /\ c \in Clus /\ s.fat[c] = FREE /\ i \in Slots /\ claimed \in Inodes /\ full \in Seq(Clus) /\ Len(full) = m + n
      /\ Good(s, X) /\ Good(q, X) /\ i \in Nat
  <2>1. /\ m \in Nat /\ n \in Nat /\ i \in Slots /\ claimed \in Inodes /\ full \in Seq(Clus) /\ Len(full) = m + n
        /\ Good(s, X) /\ Good(q, X)
    BY <1>0 DEF Fillable, Filled
  <2>2. k \in Nat /\ k + 1 \in 1..n /\ m + (k + 1) \in 1..(m + n) /\ i \in Nat
    BY <2>1 DEF Slots
  <2>3. c \in Clus /\ s.fat[c] = FREE
    <3>1. PICK d : d = k + 1
      OBVIOUS
    <3>2. s.fat[full[m + d]] = FREE
      BY <2>2, <3>1 DEF Fillable
    <3>3. full[m + d] \in Clus
      BY <2>1, <2>2, <3>1
    <3> QED BY <1>0, <3>1, <3>2, <3>3
  <2> QED BY <2>1, <2>2, <2>3
<1>2. s.fat \in Tables /\ q.fat \in Tables /\ Chain(s.fat, Root) \in Seq(Clus) /\ Chain(q.fat, Root) \in Seq(Clus)
  BY <1>1, GoodFacts
<1>3. \A j \in 1..(m + k) : full[j] # c /\ full[j] \in Clus
  <2>1. \A j \in 1..(m + k) : j \in 1..(m + n) /\ j # m + (k + 1)
    BY <1>1
  <2> QED BY <1>0, <1>1, <2>1 DEF Fillable
<1>4. q.fat[c] = FREE
  BY <1>1, <1>3 DEF Filled, Linked
<1>5. PICK r : Exec(q, Alloc(c), r, X) /\ Allocated(q, r, c)
  <2>1. u \in Undos /\ OnFailure(Alloc(c), u) = Alloc(c) /\ CanUndo(q, u)
    BY <1>0, <1>1, AllocSteps DEF CanUndo
  <2>2. PICK a : a = OnFailure(Alloc(c), u)
    OBVIOUS
  <2>3. \E r : Exec(q, a, r, {}) /\ Allocated(q, r, c) /\ CanUndo(r, u)
    BY <1>0, <1>1, <1>4, <2>1, <2>2, AllocExec
  <2> QED BY <1>0, <2>1, <2>2, <2>3
<1>6. /\ Good(r, X) /\ r.core = q.core /\ r.fat \in Tables /\ r.fat[c] = EOC
      /\ (\A b \in Clus : b # c => r.fat[b] = q.fat[b])
      /\ Unowned(r.fat, Held(r, X), c) /\ Chain(r.fat, Root) = Chain(q.fat, Root)
      /\ \A b \in Clus, j \in 1..UNITS : b # c => r.dat[b][j] = q.dat[b][j]
  <2>1. Good(r, X) /\ r.core = q.core /\ Unowned(r.fat, Held(r, X), c) /\ Chain(r.fat, Root) = Chain(q.fat, Root)
    BY <1>0, <1>5, RootIs DEF Allocated
  <2>2. r.fat = [q.fat EXCEPT ![c] = EOC]
    BY <1>5 DEF Allocated
  <2>3. r.fat \in Tables /\ r.fat[c] = EOC /\ \A b \in Clus : b # c => r.fat[b] = q.fat[b]
    BY <1>1, <1>2, <2>2 DEF Tables, Links
  <2>4. \A b \in Clus, j \in 1..UNITS : b # c => r.dat[b][j] = q.dat[b][j]
    BY <1>5 DEF Allocated
  <2> QED BY <2>1, <2>3, <2>4
<1>7. RootGrows(s.fat, r.fat)
  BY <1>1, <1>2, <1>6 DEF Filled, RootGrows
<1>8. PICK F, D : F = r.fat /\ D = Held(r, X)
  OBVIOUS
<1>9. F \in Tables /\ D \in SUBSET AllClaims /\ Sound(F, D) /\ Unowned(F, D, c) /\ F[c] = EOC
  BY <1>6, <1>8, GoodFacts DEF Held
<1>10. ASSUME NEW t, Moves(r, st, t, X)
       PROVE  Exec(q, p, t, {})
  <2>1. Exec(r, <<st>>, t, X)
    BY <1>10, ExecOne
  <2> QED BY <1>0, <1>5, <2>1, ExecExec
<1>11. \A b \in Clus, j \in 1..UNITS : s.fat[b] # FREE => r.dat[b][j] = s.dat[b][j]
  BY <1>1, <1>6 DEF Filled
<1>12. \A x \in Slots : r.core[x] = IF x = i /\ m = 0 /\ k >= 1 THEN claimed ELSE s.core[x]
  BY <1>6 DEF Filled
<1>13. \A z : CanUndo(z, <<>>)
  BY DEF CanUndo
<1>14. CASE m + (k + 1) = 1
  <2>0. m = 0 /\ k = 0
    BY <1>1, <1>14
  <2>1. st = Core(i, claimed)
    BY <1>0, <1>14 DEF JoinStep
  <2>2. st \in Steps /\ st.k = "core" /\ st.i = i /\ st.in = claimed /\ st.undo = <<>>
    BY <1>1, <2>1, StepTypes DEF Core
  <2>3. InRoot(r.fat, i)
    BY <1>2, <1>6, <1>7, RootGrowsPlaces DEF Fillable
  <2>4. claimed.first \in Clus => Sound(r.fat, (r.ent \cup CoreClaims(r.fat, r.core, X)) \cup {<<SlotPlace(r.fat, i), claimed.first>>})
    <3> SUFFICES ASSUME claimed.first \in Clus PROVE Sound(F, D \cup {<<SlotPlace(r.fat, i), claimed.first>>})
      BY <1>8 DEF Held
    <3>1. claimed.first = c
      BY <1>0, <1>1, <2>0, ConstFacts DEF Fillable
    <3>2. PICK o : o = SlotPlace(r.fat, i)
      OBVIOUS
    <3>3. Sound(F, D \cup {<<o, c>>})
      BY <1>1, <1>9, SoundAdd
    <3> QED BY <3>1, <3>2, <3>3
  <2>5. PICK t : Cored(r, st, t, X)
    <3>1. X \subseteq X \cup {st.i} /\ X \subseteq X
      OBVIOUS
    <3> QED BY <1>6, <2>2, <2>3, <2>4, <3>1, MoveCore
  <2>6. Moves(r, st, t, X)
    BY <1>0, <1>6, <1>13, <2>2, <2>5, MovesIf DEF Cored
  <2>7. t.fat = r.fat /\ t.dat = r.dat /\ Good(t, X) /\ \A x \in Slots : t.core[x] = IF x = i THEN claimed ELSE r.core[x]
    BY <2>2, <2>5 DEF Cored
  <2>8. Linked(s.fat, t.fat, full, m, k + 1)
    <3>1. \A j \in 1..(m + (k + 1)) : j = 1 /\ full[j] = c
      BY <1>0, <2>0
    <3>2. 1 \in 1..(m + (k + 1)) /\ 1 >= m /\ full[1] = c
      BY <1>0, <2>0
    <3>3. \A b \in Clus : b # c => t.fat[b] = s.fat[b]
      <4>1. \A b \in Clus : q.fat[b] = s.fat[b]
        BY <2>0 DEF Filled, Linked
      <4> QED BY <1>6, <2>7, <4>1
    <3>4. t.fat[c] = EOC /\ m + (k + 1) = 1
      BY <1>6, <1>14, <2>7
    <3> QED BY <3>1, <3>2, <3>3, <3>4 DEF Linked
  <2>9. \A x \in Slots : t.core[x] = IF x = i /\ m = 0 /\ k + 1 >= 1 THEN claimed ELSE s.core[x]
    BY <1>1, <1>12, <2>0, <2>7
  <2>10. Filled(s, t, i, claimed, full, m, k + 1)
    BY <1>0, <1>7, <1>11, <2>7, <2>8, <2>9 DEF Filled
  <2> QED BY <1>10, <2>6, <2>10
<1>15. CASE m + (k + 1) # 1
  <2>0. m + k >= 1 /\ m + k \in 1..(m + n) /\ (m + (k + 1)) - 1 = m + k /\ m + k \in 1..(m + k)
    BY <1>1, <1>15
  <2>1. PICK x : x = full[m + k]
    OBVIOUS
  <2>2. x \in Clus /\ x # c /\ q.fat[x] = EOC
    <3>1. m + k >= m
      BY <1>1
    <3> QED BY <1>3, <2>0, <2>1, <3>1 DEF Filled, Linked
  <2>3. st = SetFat(x, c, "keep")
    BY <1>0, <1>15, <2>0, <2>1 DEF JoinStep
  <2>4. st \in Steps /\ st.k = "fat" /\ st.c = x /\ st.v = c /\ st.undo = <<>>
    <3>1. c \in Links
      BY <1>1 DEF Links
    <3> QED BY <2>2, <2>3, <3>1, StepTypes DEF SetFat
  <2>5. PICK G : G = [F EXCEPT ![x] = c]
    OBVIOUS
  <2>6. F[x] = EOC
    BY <1>6, <1>8, <2>2
  <2>7. G \in Tables /\ Sound(G, D) /\ Grown(F, G, D, x, c)
    <3>1. c \in Clus /\ x \in Clus /\ x # c
      BY <1>1, <2>2
    <3> QED BY <1>9, <2>5, <2>6, <3>1, SoundLink
  <2>8. RootGrows(F, G)
    <3>1. PICK ch, dh : ch = Chain(F, Root) /\ dh = Chain(G, Root)
      OBVIOUS
    <3>2. dh = Append(ch, c) \/ dh = ch
      BY <2>7, <3>1, RootIs DEF Grown
    <3>3. ch \in Seq(Clus)
      BY <1>2, <1>6, <1>8, <3>1
    <3>4. Len(ch) <= Len(dh) /\ \A j \in 1..Len(ch) : dh[j] = ch[j]
      <4>1. c \in Clus
        BY <1>1
      <4>2. CASE dh = ch
        BY <3>3, <4>2
      <4>3. CASE dh = Append(ch, c)
        BY <3>3, <4>1, <4>3
      <4> QED BY <3>2, <4>2, <4>3
    <3> QED BY <3>1, <3>4 DEF RootGrows
  <2>9. PICK t : Tabled(r, st, t, X, G)
    <3>1. G = SetIn(r.fat, st)
      BY <1>8, <2>4, <2>5 DEF SetIn
    <3>2. Sound(G, r.ent \cup CoreClaims(r.fat, r.core, X)) /\ RootGrows(r.fat, G)
      BY <1>8, <2>7, <2>8 DEF Held
    <3> QED BY <1>6, <2>4, <3>1, <3>2, MoveFat
  <2>10. Moves(r, st, t, X)
    BY <1>0, <1>6, <1>13, <2>4, <2>9, MovesIf DEF Tabled
  <2>11. t.fat = G /\ t.dat = r.dat /\ Good(t, X) /\ t.core = r.core
    BY <2>9 DEF Tabled
  <2>12. RootGrows(s.fat, t.fat)
    <3>1. Chain(r.fat, Root) \in Seq(Clus) /\ Chain(t.fat, Root) \in Seq(Clus)
      BY <1>6, <2>11, GoodFacts
    <3>2. RootGrows(r.fat, t.fat)
      BY <1>8, <2>8, <2>11
    <3> QED BY <1>2, <1>7, <3>1, <3>2, RootGrowsTrans
  <2>13. \A b \in Clus : G[b] = IF b = x THEN c ELSE IF b = c THEN EOC ELSE q.fat[b]
    <3>1. \A b \in Clus : G[b] = IF b = x THEN c ELSE F[b]
      BY <1>9, <2>2, <2>5 DEF Tables
    <3>2. \A b \in Clus : F[b] = IF b = c THEN EOC ELSE q.fat[b]
      BY <1>6, <1>8
    <3> QED BY <2>2, <3>1, <3>2
  <2>14. Linked(s.fat, G, full, m, k + 1)
    <3>1. ASSUME NEW j \in 1..(m + (k + 1)), j >= m
          PROVE  G[full[j]] = IF j = m + (k + 1) THEN EOC ELSE full[j + 1]
      <4>1. CASE j = m + (k + 1)
        BY <1>0, <1>1, <2>2, <2>13, <4>1
      <4>2. CASE j = m + k
        <5>1. full[j] = x /\ j + 1 = m + (k + 1) /\ j # m + (k + 1)
          BY <1>1, <2>1, <4>2
        <5> QED BY <1>0, <2>2, <2>13, <5>1
      <4>3. CASE j # m + k /\ j # m + (k + 1)
        <5>1. j \in 1..(m + k) /\ m + k \in 1..(m + n) /\ j \in 1..(m + n)
          BY <1>1, <2>0, <4>3
        <5>2. full[j] # c /\ full[j] \in Clus /\ full[j] # x
          BY <1>3, <2>1, <4>3, <5>1 DEF Fillable
        <5>3. q.fat[full[j]] = full[j + 1]
          BY <3>1, <4>3, <5>1 DEF Filled, Linked
        <5> QED BY <2>13, <4>3, <5>2, <5>3
      <4> QED BY <4>1, <4>2, <4>3
    <3>2. ASSUME NEW b \in Clus, \A j \in 1..(m + (k + 1)) : j >= m => full[j] # b
          PROVE  G[b] = s.fat[b]
      <4>1. b # c
        <5>1. m + (k + 1) \in 1..(m + (k + 1)) /\ m + (k + 1) >= m
          BY <1>1
        <5> QED BY <1>0, <3>2, <5>1
      <4>2. b # x
        <5>1. m + k \in 1..(m + (k + 1)) /\ m + k >= m
          BY <1>1, <2>0
        <5> QED BY <2>1, <3>2, <5>1
      <4>3. \A j \in 1..(m + k) : j >= m => full[j] # b
        <5>1. \A j \in 1..(m + k) : j \in 1..(m + (k + 1))
          BY <1>1
        <5> QED BY <3>2, <5>1
      <4>4. q.fat[b] = s.fat[b]
        BY <4>3 DEF Filled, Linked
      <4> QED BY <2>13, <4>1, <4>2, <4>4
    <3> QED BY <3>1, <3>2 DEF Linked
  <2>15. \A y \in Slots : t.core[y] = IF y = i /\ m = 0 /\ k + 1 >= 1 THEN claimed ELSE s.core[y]
    <3>1. m = 0 => k >= 1
      BY <1>1, <2>0
    <3>2. k + 1 >= 1
      BY <1>1
    <3> QED BY <1>12, <2>11, <3>1, <3>2
  <2>16. Filled(s, t, i, claimed, full, m, k + 1)
    BY <1>0, <1>11, <2>11, <2>12, <2>14, <2>15 DEF Filled
  <2> QED BY <1>10, <2>10, <2>16
<1> QED BY <1>14, <1>15

(* ensure_clusters' loop: a cluster at a time.                             *)
LEMMA EnsureAll ==
  ASSUME NEW s, NEW i, NEW claimed, NEW full, NEW m, NEW n, Fillable(s, i, claimed, full, m, n), n > 0,
         NEW ss, ss = [k \in 1..n |-> Alloc(full[m + k]) \o <<JoinStep(i, claimed, full, m + k)>>]
  PROVE  \E t : Exec(s, FlattenSeq(ss), t, {}) /\ Filled(s, t, i, claimed, full, m, n)
<1>1. /\ m \in Nat /\ n \in Nat /\ i \in Slots /\ i \in Nat /\ claimed \in Inodes /\ full \in Seq(Clus) /\ Len(full) = m + n
      /\ Good(s, {})
  BY DEF Fillable, Slots
<1>2. \A k \in 1..n : ss[k] \in Seq(Steps)
  <2> SUFFICES ASSUME NEW k \in 1..n PROVE ss[k] \in Seq(Steps)
    OBVIOUS
  <2>1. PICK a, st : a = Alloc(full[m + k]) /\ st = JoinStep(i, claimed, full, m + k)
    OBVIOUS
  <2>2. full[m + k] \in Clus
    BY <1>1
  <2>3. a \in Seq(Steps)
    BY <2>1, <2>2, AllocSteps
  <2>4. st \in Steps
    <3>1. CASE m + k = 1
      BY <1>1, <2>1, <3>1, StepTypes DEF JoinStep
    <3>2. CASE m + k # 1
      <4>1. (m + k) - 1 \in 1..Len(full)
        BY <1>1, <3>2
      <4>2. full[(m + k) - 1] \in Clus
        BY <1>1, <4>1
      <4> QED BY <2>1, <2>2, <3>2, <4>2, StepTypes DEF JoinStep, Links
    <3> QED BY <3>1, <3>2
  <2>5. ss[k] = a \o <<st>>
    BY <2>1
  <2>6. PICK b : b = <<st>>
    OBVIOUS
  <2>7. b \in Seq(Steps)
    BY <2>4, <2>6
  <2>8. a \o b \in Seq(Steps)
    BY <2>3, <2>7
  <2> QED BY <2>5, <2>6, <2>8
<1>3. ss \in Seq(Seq(Steps)) /\ Len(ss) = n
  <2>1. ss \in [1..n -> Seq(Steps)]
    BY <1>2
  <2>2. PICK A : A = Seq(Steps)
    OBVIOUS
  <2>3. n \in Nat /\ ss \in [1..n -> A]
    BY <1>1, <2>1, <2>2
  <2>4. ss \in Seq(A) /\ Len(ss) = n
    BY <2>3
  <2> QED BY <2>2, <2>4
<1>4. PICK w : Joined(Steps, ss, w)
  BY <1>3, FlattenIs
<1>5. /\ w \in [0..n -> Seq(Steps)] /\ w[0] = <<>>
      /\ (\A k \in 1..n : w[k] = w[k - 1] \o ss[k]) /\ FlattenSeq(ss) = w[n]
  BY <1>3, <1>4 DEF Joined
<1> DEFINE Goes(k) == \E t : Exec(s, w[k], t, {}) /\ Filled(s, t, i, claimed, full, m, k)
           T == {k \in 0..n : Goes(k)}
<1>6. 0 \in T
  <2>1. Exec(s, w[0], s, {})
    BY <1>5, ExecNil
  <2>2. Linked(s.fat, s.fat, full, m, 0)
    <3>1. ASSUME NEW j \in 1..(m + 0), j >= m PROVE s.fat[full[j]] = IF j = m + 0 THEN EOC ELSE full[j + 1]
      <4>1. j = m /\ m > 0 /\ n > 0
        BY <1>1, <3>1
      <4> QED BY <1>1, <4>1 DEF Fillable
    <3> QED BY <3>1 DEF Linked
  <2>3. RootGrows(s.fat, s.fat)
    BY <1>1, GoodFacts, SameRoot
  <2>4. Filled(s, s, i, claimed, full, m, 0)
    BY <1>1, <2>2, <2>3 DEF Filled
  <2> QED BY <1>1, <2>1, <2>4
<1>7. ASSUME NEW k \in 0..(n - 1), k \in T PROVE k + 1 \in T
  <2>0. k + 1 \in 1..n /\ k + 1 \in 0..n /\ (k + 1) - 1 = k
    BY <1>1
  <2>1. PICK q : Exec(s, w[k], q, {}) /\ Filled(s, q, i, claimed, full, m, k)
    BY <1>7
  <2>2. PICK p : p = ss[k + 1]
    OBVIOUS
  <2>3. p = Alloc(full[m + (k + 1)]) \o <<JoinStep(i, claimed, full, m + (k + 1))>>
    BY <2>0, <2>2
  <2>4. PICK t : Exec(q, p, t, {}) /\ Filled(s, t, i, claimed, full, m, k + 1)
    BY <2>1, <2>3, EnsureOne
  <2>5. Exec(s, w[k] \o p, t, {})
    BY <2>1, <2>4, ExecExec
  <2>6. w[k + 1] = w[k] \o p
    BY <1>5, <2>0, <2>2
  <2> QED BY <2>0, <2>4, <2>5, <2>6
<1>8. T = {k \in 0..n : Goes(k)}
  OBVIOUS
<1> HIDE DEF T
<1>9. \A k \in 0..n : k \in T
  BY <1>1, <1>6, <1>7, BoundedInduction
<1>10. Goes(n)
  BY <1>1, <1>8, <1>9
<1> QED BY <1>5, <1>10

(* The lesser of two numbers.                                              *)
LEMMA LesserOf ==
  ASSUME NEW a \in Int, NEW b \in Int
  PROVE  Min({a, b}) \in {a, b} /\ Min({a, b}) <= a /\ Min({a, b}) <= b
<1>1. \E x \in {a, b} : \A y \in {a, b} : x =< y
  BY DEF Min
<1>2. PICK m : m = Min({a, b})
  OBVIOUS
<1>3. m \in {a, b} /\ \A y \in {a, b} : m =< y
  BY <1>1, <1>2 DEF Min
<1> QED BY <1>2, <1>3

(* A chain's clusters are in use.                                          *)
LEMMA PathUsed ==
  ASSUME NEW F, NEW s, Path(F, s), NEW k \in 1..Len(s)
  PROVE  F[s[k]] # FREE /\ s[k] \in Clus
<1>1. s \in Seq(Clus) /\ Len(s) \in Nat
  BY DEF Path
<1>2. CASE k = Len(s)
  BY <1>1, <1>2, ConstFacts DEF Path
<1>3. CASE k # Len(s)
  <2>1. k \in 1..(Len(s) - 1) /\ k + 1 \in 1..Len(s)
    BY <1>1, <1>3
  <2>2. F[s[k]] = s[k + 1] /\ s[k + 1] \in Clus
    BY <1>1, <2>1 DEF Path
  <2> QED BY <1>1, <2>2, ConstFacts
<1> QED BY <1>2, <1>3

(* full is ch and the first n of the clusters in free.                     *)
Behind(F, ch, free, n, full) ==
  /\ full \in Seq(Clus) /\ Len(full) = Len(ch) + n
  /\ \A j \in 1..Len(ch) : full[j] = ch[j]
  /\ \A k \in 1..n : full[Len(ch) + k] = free[k] /\ F[full[Len(ch) + k]] = FREE
  /\ \A j, k \in 1..(Len(ch) + n) : full[j] = full[k] => j = k

(* A chain with free clusters behind it.                                   *)
LEMMA FullIs ==
  ASSUME NEW F \in Tables, NEW ch \in Seq(Clus), ch = <<>> \/ Path(F, ch),
         NEW free \in Seq(Clus), \A k \in 1..Len(free) : F[free[k]] = FREE,
         \A j, k \in 1..Len(free) : free[j] = free[k] => j = k,
         NEW n \in 0..Len(free), NEW full, full = ch \o SubSeq(free, 1, n)
  PROVE  Behind(F, ch, free, n, full)
<1>0. PICK b, m : b = SubSeq(free, 1, n) /\ m = Len(ch)
  OBVIOUS
<1>1. b \in Seq(Clus) /\ Len(b) = n /\ (\A k \in 1..n : b[k] = free[k]) /\ m \in Nat /\ n \in Nat
  BY <1>0
<1>2. full \in Seq(Clus) /\ Len(full) = m + n /\ (\A j \in 1..m : full[j] = ch[j]) /\ \A k \in 1..n : full[m + k] = b[k]
  <2>1. full = ch \o b
    BY <1>0
  <2> QED BY <1>0, <1>1, <2>1
<1>3. \A k \in 1..n : full[m + k] = free[k] /\ F[full[m + k]] = FREE
  BY <1>1, <1>2, SMTT(30)
<1>4. \A j \in 1..m : F[full[j]] # FREE
  <2> SUFFICES ASSUME NEW j \in 1..m PROVE F[full[j]] # FREE
    OBVIOUS
  <2>1. Path(F, ch) /\ j \in 1..Len(ch)
    BY <1>0, <1>1
  <2>2. F[ch[j]] # FREE
    BY <2>1, PathUsed
  <2> QED BY <1>2, <2>2
<1>5. ASSUME NEW j \in 1..(m + n), NEW k \in 1..(m + n), full[j] = full[k] PROVE j = k
  <2>0. \A x \in 1..(m + n) : x \in 1..m \/ (x - m \in 1..n /\ x = m + (x - m))
    BY <1>1
  <2>1. CASE j \in 1..m /\ k \in 1..m
    <3>1. Path(F, ch)
      BY <1>0, <1>1, <2>1
    <3> QED BY <1>0, <1>2, <1>5, <2>1, <3>1 DEF Path
  <2>2. CASE j \notin 1..m /\ k \notin 1..m
    <3>1. PICK x, y : x = j - m /\ y = k - m
      OBVIOUS
    <3>2. x \in 1..n /\ y \in 1..n /\ j = m + x /\ k = m + y
      BY <2>0, <2>2, <3>1
    <3>3. free[x] = free[y]
      BY <1>3, <1>5, <3>2
    <3>4. x \in 1..Len(free) /\ y \in 1..Len(free)
      <4>1. n \in 0..Len(free) /\ Len(free) \in Nat
        OBVIOUS
      <4> QED BY <3>2, <4>1
    <3> QED BY <3>2, <3>3, <3>4
  <2>3. CASE j \in 1..m /\ k \notin 1..m
    <3>1. PICK y : y = k - m
      OBVIOUS
    <3>2. y \in 1..n /\ k = m + y
      BY <2>0, <2>3, <3>1
    <3>3. F[full[k]] = FREE /\ F[full[j]] # FREE
      BY <1>3, <1>4, <2>3, <3>2
    <3> QED BY <1>5, <3>3
  <2>4. CASE j \notin 1..m /\ k \in 1..m
    <3>1. PICK y : y = j - m
      OBVIOUS
    <3>2. y \in 1..n /\ j = m + y
      BY <2>0, <2>4, <3>1
    <3>3. F[full[j]] = FREE /\ F[full[k]] # FREE
      BY <1>3, <1>4, <2>4, <3>2
    <3> QED BY <1>5, <3>3
  <2> QED BY <2>1, <2>2, <2>3, <2>4
<1> QED BY <1>0, <1>2, <1>3, <1>5 DEF Behind

(* The table ensure_clusters leaves.                                       *)
TableAfter(F, ch, full, n) ==
  [c \in Clus |->
     IF \E j \in Len(ch)..(Len(full) - 1) : j > 0 /\ full[j] = c
     THEN full[1 + CHOOSE j \in DOMAIN full : full[j] = c]
     ELSE IF n > 0 /\ c = Last(full) THEN EOC ELSE F[c]]

(* The table after the links of fat_alloc_chain: exactly those.            *)
LEMMA TableAfterIs ==
  ASSUME NEW F \in Tables, NEW ch \in Seq(Clus), NEW full \in Seq(Clus), NEW n \in Nat,
         Len(full) = Len(ch) + n,
         \A j, k \in 1..(Len(ch) + n) : full[j] = full[k] => j = k
  PROVE  /\ TableAfter(F, ch, full, n) \in Tables
         /\ n > 0 => Linked(F, TableAfter(F, ch, full, n), full, Len(ch), n)
         /\ n = 0 => TableAfter(F, ch, full, n) = F
<1>0. PICK m, G : m = Len(ch) /\ G = TableAfter(F, ch, full, n)
  OBVIOUS
<1>1. m \in Nat /\ DOMAIN full = 1..(m + n) /\ Len(full) = m + n /\ Last(full) = full[m + n]
  BY <1>0 DEF Last
<1>2. \A c \in Clus : G[c] = IF \E j \in m..(m + n - 1) : j > 0 /\ full[j] = c
                             THEN full[1 + CHOOSE j \in DOMAIN full : full[j] = c]
                             ELSE IF n > 0 /\ c = full[m + n] THEN EOC ELSE F[c]
  BY <1>0, <1>1 DEF TableAfter
<1>3. \A j \in 1..(m + n) : \A k \in 1..(m + n) : full[j] = full[k] => j = k
  BY <1>0
<1>4. ASSUME NEW j \in m..(m + n - 1), j > 0
      PROVE  G[full[j]] = full[j + 1] /\ full[j + 1] \in Clus /\ full[j] \in Clus
  <2>1. j \in 1..(m + n) /\ j + 1 \in 1..(m + n) /\ j \in DOMAIN full
    BY <1>1, <1>4
  <2>2. PICK d : d = CHOOSE k \in DOMAIN full : full[k] = full[j]
    OBVIOUS
  <2>3. d \in DOMAIN full /\ full[d] = full[j]
    BY <2>1, <2>2
  <2>4. d = j
    BY <1>1, <1>3, <2>1, <2>3
  <2>5. full[j] \in Clus /\ full[j + 1] \in Clus
    BY <1>1, <2>1
  <2>6. G[full[j]] = full[1 + d]
    BY <1>2, <1>4, <2>2, <2>5
  <2>7. 1 + d = j + 1
    BY <2>1, <2>4
  <2> QED BY <2>5, <2>6, <2>7
<1>5. G \in Tables
  <2>1. ASSUME NEW c \in Clus PROVE G[c] \in Links
    <3>1. CASE \E j \in m..(m + n - 1) : j > 0 /\ full[j] = c
      BY <1>4, <3>1 DEF Links
    <3>2. CASE ~\E j \in m..(m + n - 1) : j > 0 /\ full[j] = c
      BY <1>2, <3>2 DEF Links, Tables
    <3> QED BY <3>1, <3>2
  <2>2. G = [c \in Clus |-> G[c]]
    BY <1>0 DEF TableAfter
  <2> QED BY <2>1, <2>2 DEF Tables
<1>6. ASSUME n > 0 PROVE Linked(F, G, full, m, n)
  <2>1. ASSUME NEW j \in 1..(m + n), j >= m PROVE G[full[j]] = IF j = m + n THEN EOC ELSE full[j + 1]
    <3>1. CASE j = m + n
      <4>1. full[j] \in Clus
        BY <1>1
      <4>2. ~\E k \in m..(m + n - 1) : k > 0 /\ full[k] = full[j]
        <5>1. \A k \in m..(m + n - 1) : k > 0 => k \in 1..(m + n) /\ k # j
          BY <1>1, <3>1
        <5> QED BY <1>3, <5>1
      <4> QED BY <1>2, <1>6, <3>1, <4>1, <4>2
    <3>2. CASE j # m + n
      <4>1. j \in m..(m + n - 1) /\ j > 0
        BY <1>1, <2>1, <3>2
      <4> QED BY <1>4, <3>2, <4>1
    <3> QED BY <3>1, <3>2
  <2>2. ASSUME NEW c \in Clus, \A j \in 1..(m + n) : j >= m => full[j] # c PROVE G[c] = F[c]
    <3>1. m + n \in 1..(m + n) /\ m + n >= m
      BY <1>1, <1>6
    <3>2. \A k \in m..(m + n - 1) : k > 0 => k \in 1..(m + n) /\ k >= m
      BY <1>1
    <3>3. c # full[m + n] /\ ~\E k \in m..(m + n - 1) : k > 0 /\ full[k] = c
      BY <2>2, <3>1, <3>2
    <3> QED BY <1>2, <3>3
  <2> QED BY <2>1, <2>2 DEF Linked
<1>7. ASSUME n = 0 PROVE G = F
  <2>1. \A c \in Clus : G[c] = F[c]
    <3>1. ~\E j \in m..(m + n - 1) : TRUE
      BY <1>1, <1>7
    <3>2. \A c \in Clus : ~(\E j \in m..(m + n - 1) : j > 0 /\ full[j] = c)
      BY <3>1
    <3>3. ~(n > 0)
      BY <1>7
    <3> QED BY <1>2, <3>2, <3>3
  <2> QED BY <1>5, <2>1 DEF Tables
<1> QED BY <1>0, <1>5, <1>6, <1>7

(* The links determine the table.                                          *)
LEMMA LinkedSame ==
  ASSUME NEW F, NEW G \in Tables, NEW H \in Tables, NEW full, NEW m, NEW n,
         Linked(F, G, full, m, n), Linked(F, H, full, m, n)
  PROVE  G = H
<1>1. ASSUME NEW c \in Clus PROVE G[c] = H[c]
  <2>1. CASE \E j \in 1..(m + n) : j >= m /\ full[j] = c
    <3>1. PICK j \in 1..(m + n) : j >= m /\ full[j] = c
      BY <2>1
    <3> QED BY <3>1 DEF Linked
  <2>2. CASE ~\E j \in 1..(m + n) : j >= m /\ full[j] = c
    BY <2>2 DEF Linked
  <2> QED BY <2>1, <2>2
<1> QED BY <1>1 DEF Tables

(* The clusters for a number of bytes are a number.                        *)
LEMMA ClustersForIs ==
  ASSUME NEW b \in Nat
  PROVE  ClustersFor(b) \in Nat
<1>1. UNITS \in Nat \ {0}
  BY ConstFacts
<1>2. PICK x : x = b + UNITS - 1
  OBVIOUS
<1>3. x \in Nat
  BY <1>1, <1>2
<1>4. x \div UNITS \in Int /\ x % UNITS \in 0..(UNITS - 1) /\ x = UNITS * (x \div UNITS) + (x % UNITS)
  BY <1>1, <1>3, RingsAndSlot
<1>5. PICK a : a = x \div UNITS
  OBVIOUS
<1>8. a \in Int /\ x % UNITS \in 0..(UNITS - 1) /\ x = UNITS * a + (x % UNITS)
  BY <1>4, <1>5
<1>9. PICK r : r = x % UNITS
  OBVIOUS
<1>10. a \in Int /\ r \in 0..(UNITS - 1) /\ x = UNITS * a + r
  BY <1>8, <1>9
<1>6. a <= -1 => UNITS * a <= -UNITS
  <2>1. a \in Int /\ UNITS \in Nat
    BY <1>1, <1>10
  <2> QED BY <2>1
<1>7. a >= 0
  BY <1>1, <1>3, <1>6, <1>10
<1> QED BY <1>2, <1>4, <1>5, <1>7 DEF ClustersFor

(* The inode claims the chain of the file.                                 *)
LEMMA InodePath ==
  ASSUME NEW s, NEW X, Good(s, X), NEW i \in Slots \ X, s.core[i].first \in Clus
  PROVE  /\ Path(s.fat, Chain(s.fat, s.core[i].first))
         /\ <<SlotPlace(s.fat, i), s.core[i].first>> \in CoreClaims(s.fat, s.core, X)
<1>1. PICK z : z = <<SlotPlace(s.fat, i), s.core[i].first>>
  OBVIOUS
<1>2. z \in CoreClaims(s.fat, s.core, X) /\ z[2] = s.core[i].first
  BY <1>1 DEF CoreClaims
<1>3. Path(s.fat, Chain(s.fat, z[2]))
  BY <1>2 DEF Good, Sound
<1> QED BY <1>1, <1>2, <1>3

(* What ensure_clusters does: the chain of the file is long enough.        *)
Ensured(s, t, i, e) ==
  /\ Good(t, {}) /\ RootGrows(s.fat, t.fat) /\ t.fat = e.fat
  /\ \A x \in Slots : t.core[x] = IF x = i THEN e.in ELSE s.core[x]
  /\ \A b \in Clus, j \in 1..UNITS : s.fat[b] # FREE => t.dat[b][j] = s.dat[b][j]

(* ensure_clusters: whatever it allocates is linked behind the chain, and  *)
(* what it leaves on an error or power loss is good.                       *)
LEMMA EnsureExec ==
  ASSUME NEW s, Good(s, {}), s.fat = Fat, hint \in Clus, NEW i \in Slots, InRoot(s.fat, i),
         NEW in, in = s.core[i], NEW bytes \in Nat, NEW e, e = Ensure(i, in, bytes)
  PROVE  /\ e.steps \in Seq(Steps) /\ e.in \in Inodes /\ e.fat \in Tables /\ e.in.size = in.size
         /\ \/ \A q \in Seq(Steps) : Safe(s, e.steps \o q, {})
            \/ \E t : Exec(s, e.steps, t, {}) /\ Ensured(s, t, i, e)
<1> DEFINE ch     == Chain(Fat, in.first)
           free   == FreeFrom(Fat, hint)
           short  == ClustersFor(bytes) - Len(ch)
           broken == ch # <<>> /\ Fat[Last(ch)] # EOC
           n      == IF short <= 0 \/ broken THEN 0 ELSE Min({short, Len(free)})
           full   == ch \o SubSeq(free, 1, n)
           claimed == IF in.first = 0 /\ n > 0
                      THEN [in EXCEPT !.first = free[1], !.cur = free[1], !.curi = 0]
                      ELSE in
           join(j) == IF j = 1 THEN <<Core(i, claimed)>>
                      ELSE <<SetFat(full[j - 1], full[j], "keep")>>
           ts == [k \in 1..n |-> Alloc(full[Len(ch) + k]) \o join(Len(ch) + k)]
           ss == [k \in 1..n |-> Alloc(full[Len(ch) + k]) \o <<JoinStep(i, claimed, full, Len(ch) + k)>>]
           rest == IF short > n THEN <<Refuse>> ELSE <<>>
<1>1. /\ e.steps = FlattenSeq(ts) \o rest /\ e.in = claimed /\ e.fat = TableAfter(Fat, ch, full, n)
  BY DEF Ensure, TableAfter
<1>2. ts = ss
  <2>1. \A j : join(j) = <<JoinStep(i, claimed, full, j)>>
    BY DEF JoinStep
  <2> HIDE DEF join, claimed, full, n, ch
  <2> QED BY <2>1
<1> HIDE DEF ts, join
<1>3. PICK F, m : F = Fat /\ m = Len(ch)
  OBVIOUS
<1>4. F \in Tables /\ F = s.fat /\ in \in Inodes /\ in.first \in Links /\ s.core \in [Slots -> Inodes]
  <2>1. s.fat \in Tables /\ s.core \in [Slots -> Inodes]
    BY GoodFacts
  <2> QED BY <1>3, <2>1 DEF Inodes
<1>5. /\ ch \in Seq(Clus) /\ m \in Nat /\ (in.first \notin Clus => ch = <<>>) /\ (in.first \in Clus => m >= 1)
  <2>1. /\ ch \in Seq(Clus) /\ (in.first \notin Clus => ch = <<>>) /\ (in.first \in Clus => Len(ch) >= 1)
    BY <1>3, <1>4, ChainType
  <2> QED BY <1>3, <2>1
<1>6. ch = <<>> \/ Path(F, ch)
  <2>1. in.first \in Clus => Path(s.fat, Chain(s.fat, in.first))
    <3>1. PICK X : X = {}
      OBVIOUS
    <3>2. Good(s, X) /\ i \in Slots \ X
      BY <3>1
    <3> QED BY <3>2, InodePath
  <2> QED BY <1>3, <1>4, <1>5, <2>1
<1>7. /\ free \in Seq(Clus) /\ (\A k \in 1..Len(free) : F[free[k]] = FREE)
      /\ \A j, k \in 1..Len(free) : free[j] = free[k] => j = k
  BY <1>3, <1>4, FreeFromIs
<1>8. n \in 0..Len(free) /\ (n > 0 => ~broken) /\ short \in Int /\ n \in Nat
  <2>1. short \in Int /\ Len(free) \in Nat
    <3>1. ClustersFor(bytes) \in Nat
      BY ClustersForIs
    <3>2. Len(ch) \in Nat /\ Len(free) \in Nat
      BY <1>5, <1>7
    <3> QED BY <3>1, <3>2
  <2> HIDE DEF short, broken, free
  <2>2. Min({short, Len(free)}) \in {short, Len(free)} /\ Min({short, Len(free)}) <= short /\ Min({short, Len(free)}) <= Len(free)
    <3>1. PICK a, b : a = short /\ b = Len(free)
      OBVIOUS
    <3>2. a \in Int /\ b \in Int
      BY <2>1, <3>1
    <3>3. Min({a, b}) \in {a, b} /\ Min({a, b}) <= a /\ Min({a, b}) <= b
      BY <3>2, LesserOf
    <3> QED BY <3>1, <3>3
  <2> QED BY <2>1, <2>2
<1> HIDE DEF n, short, free
<1>9. /\ full \in Seq(Clus) /\ Len(full) = m + n
      /\ (\A j \in 1..m : full[j] = ch[j])
      /\ (\A k \in 1..n : full[m + k] = free[k] /\ F[full[m + k]] = FREE)
      /\ \A j, k \in 1..(m + n) : full[j] = full[k] => j = k
  <2>1. PICK fs, c2, f2 : fs = full /\ c2 = ch /\ f2 = free
    OBVIOUS
  <2>2. c2 \in Seq(Clus) /\ (c2 = <<>> \/ Path(F, c2)) /\ f2 \in Seq(Clus) /\ (\A k \in 1..Len(f2) : F[f2[k]] = FREE)
        /\ (\A j, k \in 1..Len(f2) : f2[j] = f2[k] => j = k) /\ n \in 0..Len(f2) /\ fs = c2 \o SubSeq(f2, 1, n)
    BY <1>5, <1>6, <1>7, <1>8, <2>1
  <2>3. F \in Tables
    BY <1>4
  <2>4. Behind(F, c2, f2, n, fs)
    BY <2>2, <2>3, FullIs
  <2>5. PICK k2 : k2 = Len(c2)
    OBVIOUS
  <2>6. /\ fs \in Seq(Clus) /\ Len(fs) = k2 + n
        /\ (\A j \in 1..k2 : fs[j] = c2[j])
        /\ (\A k \in 1..n : fs[k2 + k] = f2[k] /\ F[fs[k2 + k]] = FREE)
        /\ \A j, k \in 1..(k2 + n) : fs[j] = fs[k] => j = k
    BY <2>4, <2>5 DEF Behind
  <2>7. k2 = m
    BY <1>3, <2>1, <2>5
  <2> QED BY <2>1, <2>6, <2>7
<1> HIDE DEF full
<1>10. claimed \in Inodes /\ claimed.size = in.size
      /\ (m = 0 /\ n > 0 => claimed.first \in {full[1], EOC}) /\ (m > 0 \/ n = 0 => claimed = in)
  <2>1. n > 0 => free[1] \in Clus
    BY <1>7, <1>8
  <2>2. n > 0 => free[1] \in Links
    BY <2>1 DEF Links
  <2>3. claimed \in Inodes /\ claimed.size = in.size
    BY <1>4, <1>8, <2>2 DEF Inodes
  <2>4. ASSUME m = 0, n > 0 PROVE claimed.first \in {full[1], EOC}
    <3>1. 1 \in 1..n /\ m + 1 = 1
      BY <1>8, <2>4
    <3>2. full[1] = free[1]
      BY <1>9, <3>1
    <3>3. in.first \notin Clus
      BY <1>5, <2>4
    <3>4. in.first = 0 \/ in.first = EOC
      BY <1>4, <3>3 DEF Links, FREE
    <3>5. CASE in.first = 0
      BY <1>4, <2>4, <3>2, <3>5 DEF Inodes
    <3>6. CASE in.first = EOC /\ in.first # 0
      BY <3>6
    <3> QED BY <3>4, <3>5, <3>6
  <2>5. ASSUME m > 0 \/ n = 0 PROVE claimed = in
    <3>1. CASE n = 0
      BY <3>1
    <3>2. CASE m > 0
      <4>1. in.first \in Clus
        BY <1>3, <1>5, <3>2
      <4>2. in.first # 0
        BY <4>1, ConstFacts DEF FREE
      <4> QED BY <4>2
    <3> QED BY <2>5, <3>1, <3>2
  <2> QED BY <2>3, <2>4, <2>5
<1> HIDE DEF claimed
<1>11. /\ e.fat \in Tables
       /\ (n > 0 => Linked(F, e.fat, full, m, n)) /\ (n = 0 => e.fat = F)
  <2>1. PICK fs, c2 : fs = full /\ c2 = ch
    OBVIOUS
  <2>2. /\ c2 \in Seq(Clus) /\ fs \in Seq(Clus) /\ n \in Nat /\ Len(fs) = Len(c2) + n
        /\ (\A j, k \in 1..(Len(c2) + n) : fs[j] = fs[k] => j = k)
    BY <1>3, <1>5, <1>8, <1>9, <2>1
  <2>3. /\ TableAfter(F, c2, fs, n) \in Tables
         /\ (n > 0 => Linked(F, TableAfter(F, c2, fs, n), fs, Len(c2), n))
         /\ (n = 0 => TableAfter(F, c2, fs, n) = F)
    BY <1>4, <2>2, TableAfterIs
  <2> QED BY <1>1, <1>3, <2>1, <2>3
<1>12. PICK a : a = FlattenSeq(ss)
  OBVIOUS
<1>13. \E t : Exec(s, a, t, {}) /\ Ensured(s, t, i, e)
  <2>1. CASE n > 0
    <3>1. Fillable(s, i, claimed, full, m, n)
      <4>1. m > 0 => s.fat[full[m]] = EOC
        <5>1. ASSUME m > 0 PROVE F[full[m]] = EOC
          <6>1. ch # <<>> /\ m \in 1..m
            BY <1>3, <1>5, <5>1
          <6>2. F[Last(ch)] = EOC
            BY <1>3, <1>8, <2>1, <6>1
          <6> QED BY <1>3, <1>9, <6>1, <6>2 DEF Last
        <5> QED BY <1>4, <5>1
      <4> QED BY <1>4, <1>5, <1>8, <1>9, <1>10, <2>1, <4>1 DEF Fillable
    <3>2. PICK t : Exec(s, a, t, {}) /\ Filled(s, t, i, claimed, full, m, n)
      <4>1. ss = [k \in 1..n |-> Alloc(full[m + k]) \o <<JoinStep(i, claimed, full, m + k)>>]
        BY <1>3
      <4> HIDE DEF ss
      <4> QED BY <1>12, <2>1, <3>1, <4>1, EnsureAll
    <3>3. t.fat = e.fat
      <4>1. t.fat \in Tables
        BY <3>2, GoodFacts DEF Filled
      <4>2. Linked(F, t.fat, full, m, n)
        BY <1>4, <3>2 DEF Filled
      <4>3. PICK G, H : G = t.fat /\ H = e.fat
        OBVIOUS
      <4>4. G = H
        BY <1>11, <2>1, <4>1, <4>2, <4>3, LinkedSame
      <4> QED BY <4>3, <4>4
    <3>4. \A x \in Slots : t.core[x] = IF x = i THEN e.in ELSE s.core[x]
      <4>1. n >= 1
        BY <1>8, <2>1
      <4>2. \A x \in Slots : t.core[x] = IF x = i /\ m = 0 THEN claimed ELSE s.core[x]
        BY <3>2, <4>1 DEF Filled
      <4>3. m # 0 => claimed = s.core[i]
        BY <1>5, <1>10
      <4> QED BY <1>1, <4>2, <4>3
    <3> QED BY <3>2, <3>3, <3>4 DEF Ensured, Filled
  <2>2. CASE ~(n > 0)
    <3>1. n = 0 /\ claimed = in /\ e.fat = s.fat
      BY <1>4, <1>8, <1>10, <1>11, <2>2
    <3>2. ss = <<>>
      BY <3>1
    <3>3. a = <<>>
      BY <1>12, <3>2 DEF FlattenSeq
    <3>4. RootGrows(s.fat, s.fat)
      BY GoodFacts, SameRoot
    <3>5. Ensured(s, s, i, e)
      BY <1>1, <3>1, <3>4 DEF Ensured
    <3>6. Exec(s, a, s, {})
      BY <3>3, ExecNil
    <3> QED BY <3>5, <3>6
  <2> QED BY <2>1, <2>2
<1>14. PICK t : Exec(s, a, t, {}) /\ Ensured(s, t, i, e)
  BY <1>13
<1>15. a \in Seq(Steps) /\ e.steps = a \o rest
  BY <1>1, <1>2, <1>12, <1>14 DEF Exec
<1>16. CASE short > n
  <2>1. PICK st, b : st = Refuse /\ b = <<st>>
    OBVIOUS
  <2>2. st \in Steps /\ st.k = "refuse" /\ st.undo = <<>> /\ b \in Seq(Steps) /\ rest = b
    BY <1>16, <2>1, StepTypes DEF Refuse
  <2> HIDE DEF rest
  <2>3. e.steps \in Seq(Steps) /\ e.steps = a \o b
    BY <1>15, <2>2
  <2>4. ASSUME NEW q \in Seq(Steps) PROVE Safe(s, e.steps \o q, {})
    <3>1. (a \o b) \o q = a \o (b \o q)
      BY <1>15, <2>2
    <3>2. Undoable(t, st.undo)
      BY <2>2 DEF Undoable
    <3>3. Safe(t, b \o q, {})
      BY <2>1, <2>2, <3>2, SafeRefuse
    <3>4. Safe(s, a \o (b \o q), {})
      BY <1>14, <3>3, ExecSafe
    <3> QED BY <2>3, <3>1, <3>4
  <2> QED BY <1>1, <1>10, <1>11, <2>3, <2>4
<1>17. CASE ~(short > n)
  <2>1. rest = <<>> /\ e.steps = a
    BY <1>15, <1>17
  <2> QED BY <1>1, <1>10, <1>11, <1>14, <1>15, <2>1
<1> QED BY <1>16, <1>17

(* A quotient of naturals is one.                                          *)
LEMMA DivNat ==
  ASSUME NEW x \in Nat
  PROVE  x \div UNITS \in Nat
<1>1. UNITS \in Nat \ {0} /\ UNITS \in Nat
  BY ConstFacts
<1>2. PICK a, r : a = x \div UNITS /\ r = x % UNITS
  OBVIOUS
<1>3. a \in Int /\ r \in 0..(UNITS - 1) /\ x = UNITS * a + r
  BY <1>1, <1>2, RingsAndSlot
<1>4. a <= -1 => UNITS * a <= -UNITS
  BY <1>1, <1>3
<1>5. a >= 0
  BY <1>1, <1>3, <1>4
<1> QED BY <1>2, <1>3, <1>5

(* chain_at finds a cluster of the file or none.                           *)
LEMMA ChainAtIs ==
  ASSUME NEW in \in Inodes, NEW F \in Tables, NEW p0, NEW pos
  PROVE  \/ ChainAt(in, F, p0, pos) = 0
         \/ /\ ChainAt(in, F, p0, pos) \in Clus
            /\ \/ in.cur # 0 /\ ChainAt(in, F, p0, pos) \in Own(F, in.cur)
               \/ ChainAt(in, F, p0, pos) \in Own(F, in.first)
<1>1. in.cur \in Links /\ in.first \in Links
  BY DEF Inodes
<1> DEFINE resume == in.cur # 0 /\ in.curi <= p0
           from == IF resume THEN in.cur ELSE in.first
           ch == Chain(F, from)
           k == pos + 1 - (IF resume THEN in.curi ELSE 0)
<1>2. ChainAt(in, F, p0, pos) = IF k \in DOMAIN ch THEN ch[k] ELSE 0
  BY DEF ChainAt
<1>3. from \in Links /\ (from = in.first \/ (from = in.cur /\ in.cur # 0))
  BY <1>1
<1> HIDE DEF k, from
<1>4. ch \in Seq(Clus)
  BY <1>3, ChainType
<1>5. k \in DOMAIN ch => ch[k] \in Clus /\ ch[k] \in Range(ch)
  <2> HIDE DEF ch
  <2> QED BY <1>4 DEF Range
<1> QED BY <1>2, <1>3, <1>5 DEF Own

(* rw_bytes writes to clusters of the file, or refuses.                    *)
PutOf(p, i, in, F, u) ==
  /\ p \in Seq(Steps)
  /\ \A k \in 1..Len(p) :
       /\ BlankStep(p[k], <<>>, {})
       /\ p[k].k = "xfer" \/ p[k].k = "refuse"
       /\ p[k].k = "xfer" =>
            /\ p[k].i = i
            /\ (in.cur # 0 /\ p[k].c \in Own(F, in.cur)) \/ p[k].c \in Own(F, in.first)

(* The transfers of rw_bytes write bytes into the chain they follow.       *)
LEMMA PutIs ==
  ASSUME NEW i \in Nat, NEW in \in Inodes, NEW F \in Tables, NEW from \in Nat, NEW to \in Nat,
         NEW u \in Blanks, NEW p, p = Put(i, in, F, from, to, u)
  PROVE  PutOf(p, i, in, F, u)
<1>1. CASE from >= to
  <2>1. p = <<>>
    BY <1>1 DEF Put
  <2> QED BY <2>1 DEF PutOf
<1>2. CASE ~(from >= to)
  <2> DEFINE p0 == from \div UNITS
             p1 == (to - 1) \div UNITS
             in_cluster(pos) == {j \in 1..UNITS : pos * UNITS + j \in (from + 1)..to}
             at(pos) == ChainAt(in, F, p0, pos)
             step(pos) == IF at(pos) = 0 THEN Refuse
                          ELSE Xfer(at(pos), [j \in in_cluster(pos) |-> u], i, pos)
             n == p1 - p0 + 1
  <2>1. p = [k \in 1..n |-> step(p0 + k - 1)]
    BY <1>2 DEF Put
  <2>2. p0 \in Nat /\ p1 \in Nat /\ n \in Int
    <3>1. to - 1 \in Nat
      BY <1>2
    <3> QED BY <3>1, DivNat
  <2> HIDE DEF p0, p1
  <2>3. ASSUME NEW pos \in Nat
        PROVE  /\ step(pos) \in Steps /\ BlankStep(step(pos), <<>>, {})
               /\ step(pos).k = "xfer" \/ step(pos).k = "refuse"
               /\ step(pos).k = "xfer" =>
                    /\ step(pos).i = i
                    /\ (in.cur # 0 /\ step(pos).c \in Own(F, in.cur)) \/ step(pos).c \in Own(F, in.first)
    <3>1. CASE at(pos) = 0
      <4>1. step(pos) = Refuse
        BY <3>1
      <4> HIDE DEF step, at
      <4> QED BY <4>1, StepTypes DEF Refuse, BlankStep
    <3>2. CASE at(pos) # 0
      <4>1. at(pos) \in Clus /\ ((in.cur # 0 /\ at(pos) \in Own(F, in.cur)) \/ at(pos) \in Own(F, in.first))
        BY <3>2, ChainAtIs
      <4>2. PICK w, c : w = [j \in in_cluster(pos) |-> u] /\ c = at(pos)
        OBVIOUS
      <4>3. in_cluster(pos) \in SUBSET (1..UNITS)
        OBVIOUS
      <4>4. step(pos) = Xfer(c, w, i, pos)
        BY <3>2, <4>2
      <4> HIDE DEF step, at, in_cluster
      <4>5. w \in [in_cluster(pos) -> Units] /\ \A j \in DOMAIN w : w[j] \in Blanks
        BY <4>2 DEF Units
      <4>6. w \in Patches
        BY <4>3, <4>5 DEF Patches
      <4>7. step(pos) \in Steps
        BY <4>1, <4>2, <4>4, <4>6, StepTypes
      <4> QED BY <4>1, <4>2, <4>4, <4>5, <4>7 DEF Xfer, BlankStep
    <3> QED BY <3>1, <3>2
  <2> HIDE DEF step
  <2>4. CASE n \in Nat
    <3> HIDE DEF n
    <3>1. \A k \in 1..n : p0 + k - 1 \in Nat /\ p[k] = step(p0 + k - 1)
      BY <2>1, <2>2, <2>4
    <3>2. p \in [1..n -> Steps]
      BY <2>1, <2>3, <3>1
    <3>3. p \in Seq(Steps) /\ Len(p) = n
      BY <2>4, <3>2
    <3> QED BY <2>3, <3>1, <3>3 DEF PutOf
  <2>5. CASE n \notin Nat
    <3>1. 1..n = {}
      BY <2>2, <2>5
    <3>2. p = <<>>
      BY <2>1, <3>1
    <3> QED BY <3>2 DEF PutOf
  <2> QED BY <2>4, <2>5
<1> QED BY <1>1, <1>2

(* What a failed operation undoes in core: an inode whose chain is whole.  *)
CoreBack(s, u) ==
  \/ u = <<>>
  \/ \E i \in Slots, in \in Inodes :
       /\ u = <<Core(i, in)>>
       /\ in.first \in Clus => /\ InRoot(s.fat, i)
                               /\ Sound(s.fat, Held(s, {}) \cup {<<SlotPlace(s.fat, i), in.first>>})

(* Putting an inode back in core can be undone to.                         *)
LEMMA CoreBackIs ==
  ASSUME NEW s, Good(s, {}), NEW u, CoreBack(s, u)
  PROVE  Undoable(s, u) /\ u \in Undos
<1>1. CASE u = <<>>
  BY <1>1 DEF Undoable, Undos
<1>2. CASE u # <<>>
  <2>1. PICK i \in Slots, in \in Inodes :
       /\ u = <<Core(i, in)>>
       /\ in.first \in Clus => /\ InRoot(s.fat, i)
                               /\ Sound(s.fat, Held(s, {}) \cup {<<SlotPlace(s.fat, i), in.first>>})
    BY <1>2 DEF CoreBack
  <2>2. PICK st, X : st = Core(i, in) /\ X = {}
    OBVIOUS
  <2>3. i \in Nat
    BY DEF Slots
  <2>4. st \in Steps /\ st.k = "core" /\ st.i = i /\ st.in = in /\ st.undo = <<>>
    BY <2>2, <2>3, StepTypes DEF Core
  <2>5. PICK t : Cored(s, st, t, X)
    <3>1. X \subseteq X \cup {st.i} /\ X \subseteq X /\ Good(s, X)
      BY <2>2
    <3>2. st.in.first \in Clus => /\ InRoot(s.fat, st.i)
                                  /\ Sound(s.fat, (s.ent \cup CoreClaims(s.fat, s.core, X)) \cup {<<SlotPlace(s.fat, st.i), st.in.first>>})
      BY <2>1, <2>2, <2>4 DEF Held
    <3> QED BY <2>4, <3>1, <3>2, MoveCore
  <2>6. \E x \in Steps : \E y : <<st>> = <<x>> /\ x.undo = <<>> /\ Does(s, x, y) /\ Good(y, {})
    BY <2>2, <2>4, <2>5 DEF Cored
  <2>7. u \in Undos
    BY <2>1, <2>3 DEF Undos
  <2> QED BY <2>1, <2>2, <2>6, <2>7 DEF Undoable
<1> QED BY <1>1, <1>2

(* It still can be while the table is the same and no more is held.        *)
LEMMA CoreBackKeeps ==
  ASSUME NEW s, NEW t, NEW u, CoreBack(s, u), t.fat = s.fat, Held(t, {}) \subseteq Held(s, {})
  PROVE  CoreBack(t, u)
<1>1. CASE u = <<>>
  BY <1>1 DEF CoreBack
<1>2. CASE u # <<>>
  <2>1. PICK i \in Slots, in \in Inodes :
       /\ u = <<Core(i, in)>>
       /\ in.first \in Clus => /\ InRoot(s.fat, i)
                               /\ Sound(s.fat, Held(s, {}) \cup {<<SlotPlace(s.fat, i), in.first>>})
    BY <1>2 DEF CoreBack
  <2>2. ASSUME in.first \in Clus
        PROVE  InRoot(t.fat, i) /\ Sound(t.fat, Held(t, {}) \cup {<<SlotPlace(t.fat, i), in.first>>})
    <3>1. PICK D, E, F : D = Held(t, {}) \cup {<<SlotPlace(t.fat, i), in.first>>}
                       /\ E = Held(s, {}) \cup {<<SlotPlace(s.fat, i), in.first>>} /\ F = s.fat
      OBVIOUS
    <3>2. D \subseteq E /\ Sound(F, E)
      BY <2>1, <2>2, <3>1
    <3>3. Sound(F, D)
      BY <3>2, SoundSub
    <3> QED BY <2>1, <2>2, <3>1, <3>3
  <2> QED BY <2>1, <2>2 DEF CoreBack
<1> QED BY <1>1, <1>2

(* s is the volume as reads return it.                                     *)
IsNow(s) == s.fat = Fat /\ \A c \in Clus : s.dat[c] = now[c]

(* The record at a directory index.                                        *)
LEMMA DirIs ==
  ASSUME NEW s, NEW X, Good(s, X), IsNow(s), NEW i, InRoot(s.fat, i)
  PROVE  /\ SlotClus(i) \in Clus /\ SlotUnit(i) \in 1..UNITS
         /\ SlotPlace(s.fat, i) = <<SlotClus(i), SlotUnit(i)>>
         /\ Dir[i] = s.dat[SlotClus(i)][SlotUnit(i)] /\ Dir[i] \in Units
         /\ i \in Slots
<1>0. PICK F, ch : F = s.fat /\ ch = Chain(F, Root)
  OBVIOUS
<1>1. F \in Tables /\ ch \in Seq(Clus) /\ Len(ch) \in Nat /\ Path(F, ch) /\ s.dat \in [Clus -> Sectors]
  <2>1. s.fat \in Tables /\ Chain(s.fat, Root) \in Seq(Clus) /\ Path(s.fat, Chain(s.fat, Root)) /\ s.dat \in [Clus -> Sectors]
    BY GoodFacts
  <2>2. ch \in Seq(Clus)
    BY <1>0, <2>1
  <2> QED BY <1>0, <2>1, <2>2
<1>2. i \in 1..(Len(ch) * UNITS)
  BY <1>0 DEF InRoot
<1>3. 1 + ((i - 1) \div UNITS) \in 1..Len(ch) /\ 1 + ((i - 1) % UNITS) \in 1..UNITS
  BY <1>1, <1>2, UnitPosition
<1>4. SlotClus(i) = ch[1 + ((i - 1) \div UNITS)] /\ SlotUnit(i) = 1 + ((i - 1) % UNITS)
  BY <1>0 DEF SlotClus, SlotUnit, IsNow
<1>5. SlotClus(i) \in Clus /\ SlotUnit(i) \in 1..UNITS
  BY <1>1, <1>3, <1>4
<1>6. SlotPlace(s.fat, i) = <<SlotClus(i), SlotUnit(i)>>
  BY <1>0, <1>4 DEF SlotPlace
<1>7. Dir[i] = now[SlotClus(i)][SlotUnit(i)]
  <2>1. Dir = [k \in 1..(Len(ch) * UNITS) |-> now[ch[1 + ((k - 1) \div UNITS)]][1 + ((k - 1) % UNITS)]]
    BY <1>0 DEF Dir, Records, IsNow
  <2> QED BY <1>2, <1>4, <2>1
<1>8. s.dat[SlotClus(i)][SlotUnit(i)] \in Units
  BY <1>1, <1>5 DEF Sectors
<1>9. i \in Slots
  <2>1. Len(ch) \in 1..CLUSTERS /\ UNITS \in Nat /\ CLUSTERS \in Nat
    BY <1>1, PathShort, ConstFacts
  <2>2. \A a, b, u \in Nat : a <= b => a * u <= b * u
    OBVIOUS
  <2>3. Len(ch) * UNITS <= CLUSTERS * UNITS /\ Len(ch) * UNITS \in Nat /\ CLUSTERS * UNITS \in Nat
    BY <2>1, <2>2
  <2> QED BY <1>2, <2>3 DEF Slots
<1> QED BY <1>5, <1>6, <1>7, <1>8, <1>9 DEF IsNow

(* An entry with another first cluster and size.                           *)
LEMMA EntryWith ==
  ASSUME NEW d \in Units, IsEntry(d), NEW first \in Links, NEW size \in Nat,
         NEW x, x = [d EXCEPT !.first = first, !.size = size]
  PROVE  x \in Entries /\ x \in Units /\ IsEntry(x) /\ x.first = first /\ x.kind = d.kind /\ x.name = d.name
<1>1. d \in Entries
  BY BlanksAre DEF Units
<1> QED BY <1>1 DEF Entries, Units, IsEntry

(* A patch of one unit.                                                    *)
LEMMA AtIs ==
  ASSUME NEW j \in 1..UNITS, NEW x \in Units
  PROVE  At(j, x) \in Patches /\ DOMAIN At(j, x) = {j} /\ At(j, x)[j] = x
<1>1. At(j, x) \in [{j} -> Units] /\ {j} \in SUBSET (1..UNITS)
  BY DEF At
<1> QED BY <1>1 DEF Patches, At

(* The elements of two sequences joined.                                   *)
LEMMA ConcatIs ==
  ASSUME NEW A, NEW x \in Seq(A), NEW y \in Seq(A), NEW w, w = x \o y
  PROVE  /\ w \in Seq(A) /\ Len(w) = Len(x) + Len(y) /\ \A k \in 1..Len(x) : w[k] = x[k]
         /\ \A k \in 1..Len(y) : w[Len(x) + k] = y[k]
OBVIOUS

(* Three steps joined one by one.                                          *)
LEMMA ThreeSteps ==
  ASSUME NEW A, NEW a \in A, NEW b \in A, NEW c \in A
  PROVE  (<<a>> \o <<b>>) \o <<c>> = <<a, b, c>> /\ <<a>> \o <<b>> = <<a, b>>
<1>1. PICK x, y, z : x = <<a>> /\ y = <<b>> /\ z = <<c>>
  OBVIOUS
<1>2. x \in Seq(A) /\ y \in Seq(A) /\ z \in Seq(A) /\ Len(x) = 1 /\ Len(y) = 1 /\ Len(z) = 1 /\ x[1] = a /\ y[1] = b /\ z[1] = c
  BY <1>1
<1>3. PICK w : w = x \o y
  OBVIOUS
<1>4. w \in Seq(A) /\ Len(w) = 2 /\ w[1] = a /\ w[2] = b
  <2>1. w \in Seq(A) /\ Len(w) = Len(x) + Len(y) /\ (\A k \in 1..Len(x) : w[k] = x[k]) /\ \A k \in 1..Len(y) : w[Len(x) + k] = y[k]
    <3>1. x \in Seq(A) /\ y \in Seq(A)
      BY <1>2
    <3> QED BY <1>3, <3>1, ConcatIs
  <2>2. 1 \in 1..1 /\ 1 + 1 = 2
    OBVIOUS
  <2> QED BY <1>2, <2>1, <2>2
<1>5. PICK v : v = w \o z
  OBVIOUS
<1>6. v \in Seq(A) /\ Len(v) = 3 /\ v[1] = a /\ v[2] = b /\ v[3] = c
  <2>1. v \in Seq(A) /\ Len(v) = Len(w) + Len(z) /\ (\A k \in 1..Len(w) : v[k] = w[k]) /\ \A k \in 1..Len(z) : v[Len(w) + k] = z[k]
    <3>1. w \in Seq(A) /\ z \in Seq(A)
      BY <1>2, <1>4
    <3> QED BY <1>5, <3>1, ConcatIs
  <2>2. 1 \in 1..2 /\ 2 \in 1..2 /\ 1 \in 1..1 /\ 2 + 1 = 3
    OBVIOUS
  <2> QED BY <1>2, <1>4, <2>1, <2>2
<1>7. v = <<a, b, c>>
  BY <1>6
<1>8. w = <<a, b>>
  BY <1>4
<1> QED BY <1>1, <1>3, <1>5, <1>7, <1>8

(* commit publishes the first cluster the inode holds.                     *)
Committed(s, t, i, x) ==
  /\ Good(t, {}) /\ t.fat = s.fat /\ t.core = s.core /\ t.tabs = {s.fat} /\ t.ent = DatClaims(t.dat)
  /\ Held(t, {}) \subseteq Held(s, {})
  /\ \A b \in Clus, j \in 1..UNITS :
       t.dat[b][j] = IF b = SlotClus(i) /\ j = SlotUnit(i) THEN x ELSE s.dat[b][j]

(* fat_commit: the entry written back claims what the inode in core does.  *)
LEMMA CommitExec ==
  ASSUME NEW s, Good(s, {}), NEW i \in Slots, InRoot(s.fat, i),
         SlotPlace(s.fat, i) = <<SlotClus(i), SlotUnit(i)>>,
         SlotClus(i) \in Clus, SlotUnit(i) \in 1..UNITS, Dir[i] \in Units,
         NEW first, first = s.core[i].first, NEW size \in Nat,
         NEW u, CoreBack(s, u), NEW p, p = OnFailure(Commit(i, first, size), u)
  PROVE  /\ p \in Seq(Steps)
         /\ \/ \A q \in Seq(Steps) : Safe(s, p \o q, {})
            \/ /\ IsEntry(Dir[i])
               /\ \E t : Exec(s, p, t, {}) /\ Committed(s, t, i, [Dir[i] EXCEPT !.first = first, !.size = size])
<1> DEFINE x == [Dir[i] EXCEPT !.first = first, !.size = size]
           mid == IF IsEntry(Dir[i]) THEN Data(SlotClus(i), At(SlotUnit(i), x)) ELSE Refuse
<1>0. PICK X : X = {}
  OBVIOUS
<1>1. first \in Links /\ u \in Undos
  <2>1. s.core \in [Slots -> Inodes]
    BY GoodFacts
  <2> QED BY <2>1, CoreBackIs DEF Inodes
<1>2. mid \in Steps /\ Barrier \in Steps
  <2>1. CASE IsEntry(Dir[i])
    <3>1. x \in Units
      BY <1>1, <2>1, EntryWith
    <3> HIDE DEF x
    <3> QED BY <2>1, <3>1, AtIs, StepTypes
  <2>2. CASE ~IsEntry(Dir[i])
    BY <2>2, StepTypes
  <2> QED BY <2>1, <2>2
<1>3. PICK a, b, c : a = WithUndo(Barrier, u) /\ b = WithUndo(mid, u) /\ c = <<a, b, a>>
  OBVIOUS
<1>4. /\ a \in Steps /\ a.k = "barrier" /\ a.undo = u /\ b \in Steps /\ b.undo = u
  BY <1>1, <1>2, <1>3, UndoTypes DEF WithUndo, Barrier
<1>5. p = c /\ c \in Seq(Steps)
  <2>1. Commit(i, first, size) = <<Barrier, mid, Barrier>>
    BY DEF Commit
  <2> HIDE DEF mid
  <2>2. PICK r : r = <<Barrier, mid, Barrier>>
    OBVIOUS
  <2>3. r \in Seq(Steps) /\ Len(r) = 3 /\ r[1] = Barrier /\ r[2] = mid /\ r[3] = Barrier
    BY <1>2, <2>2
  <2>4. OnFailure(r, u) \in Seq(Steps) /\ Len(OnFailure(r, u)) = Len(r) /\ \A k \in 1..Len(r) : OnFailure(r, u)[k] = WithUndo(r[k], u)
    BY <1>1, <2>3, OnFailureIs
  <2>7. p = OnFailure(r, u)
    BY <2>1, <2>2
  <2>8. p \in Seq(Steps) /\ Len(p) = Len(r) /\ \A k \in 1..Len(r) : p[k] = WithUndo(r[k], u)
    BY <2>4, <2>7
  <2>9. 1 \in 1..3 /\ 2 \in 1..3 /\ 3 \in 1..3
    OBVIOUS
  <2>5. p \in Seq(Steps) /\ Len(p) = 3 /\ p[1] = a /\ p[2] = b /\ p[3] = a
    BY <1>3, <2>3, <2>8, <2>9
  <2>6. c \in Seq(Steps) /\ Len(c) = 3 /\ c[1] = a /\ c[2] = b /\ c[3] = a
    BY <1>3, <1>4
  <2> QED BY <2>5, <2>6
<1>6. ASSUME NEW q, NEW t, Good(q, {}), CoreBack(q, u), CoreBack(t, u), NEW st \in Steps, st.undo = u,
             Does(q, st, t), Good(t, {})
      PROVE  Moves(q, st, t, {})
  BY <1>6, CoreBackIs DEF Moves
<1>7. PICK q : Flushed(s, a, q, X)
  BY <1>0, <1>4, MoveBarrier
<1>8. /\ Good(q, X) /\ q.fat = s.fat /\ q.core = s.core /\ q.tabs = {s.fat} /\ q.dat = s.dat /\ q.ent \subseteq s.ent
      /\ Held(q, X) \subseteq Held(s, X)
  BY <1>7 DEF Flushed, Held
<1>9. CoreBack(q, u)
  BY <1>0, <1>8, CoreBackKeeps
<1>10. Exec(s, <<a>>, q, X)
  <2>1. Moves(s, a, q, X)
    BY <1>0, <1>4, <1>6, <1>7, <1>8, <1>9 DEF Flushed
  <2> QED BY <2>1, ExecOne
<1>11. CASE ~IsEntry(Dir[i])
  <2>1. mid = Refuse
    BY <1>11
  <2>2. b.k = "refuse"
    BY <1>1, <1>2, <1>3, <2>1, UndoTypes DEF WithUndo, Refuse
  <2>3. ASSUME NEW r \in Seq(Steps) PROVE Safe(s, p \o r, {})
    <3>1. PICK d, e, f : d = <<a>> /\ e = <<b>> /\ f = <<a>> \o r
      OBVIOUS
    <3>2. f \in Seq(Steps) /\ c \o r = d \o (e \o f)
      BY <1>3, <1>4, <3>1
    <3>3. Safe(q, e \o f, {})
      <4>1. Undoable(q, b.undo)
        BY <1>0, <1>4, <1>8, <1>9, CoreBackIs
      <4> QED BY <1>4, <2>2, <3>1, <3>2, <4>1, SafeRefuse
    <3>4. Safe(s, d \o (e \o f), {})
      BY <1>0, <1>10, <3>1, <3>3, ExecSafe
    <3> QED BY <1>5, <3>2, <3>4
  <2> QED BY <1>5, <2>3
<1>12. CASE IsEntry(Dir[i])
  <2>1. mid = Data(SlotClus(i), At(SlotUnit(i), x))
    BY <1>12
  <2>2. x \in Units /\ IsEntry(x) /\ x.first = first
    <3>1. PICK d, y : d = Dir[i] /\ y = [d EXCEPT !.first = first, !.size = size]
      OBVIOUS
    <3>2. d \in Units /\ IsEntry(d)
      BY <1>12, <3>1
    <3>3. y = [d EXCEPT !.first = first, !.size = size] /\ first \in Links /\ size \in Nat
      BY <1>1, <3>1
    <3>4. y \in Units
      BY <3>2, <3>3, EntryWith
    <3>5. IsEntry(y)
      BY <3>2, <3>3, EntryWith
    <3>6. y.first = first
      <4>1. d \in Entries
        BY <3>2, BlanksAre DEF Units
      <4> QED BY <3>3, <4>1 DEF Entries
    <3> QED BY <3>1, <3>4, <3>5, <3>6
  <2>x. x = [Dir[i] EXCEPT !.first = first, !.size = size]
    OBVIOUS
  <2> HIDE DEF x
  <2>3. b.k = "data" /\ b.c = SlotClus(i) /\ DOMAIN b.u = {SlotUnit(i)} /\ b.u[SlotUnit(i)] = x
    <3>1. mid.k = "data" /\ mid.c = SlotClus(i) /\ mid.u = At(SlotUnit(i), x)
      BY <2>1 DEF Data
    <3>2. b.k = "data" /\ b.c = SlotClus(i) /\ b.u = At(SlotUnit(i), x)
      BY <1>1, <1>2, <1>3, <3>1, UndoTypes DEF WithUndo
    <3> QED BY <2>2, <3>2, AtIs
  <2>4. PICK Z : Z = IF first \in Clus THEN {<<SlotPlace(s.fat, i), first>>} ELSE {}
    OBVIOUS
  <2>5. Z \subseteq CoreClaims(q.fat, q.core, X)
    <3>1. CASE first \in Clus
      <4>1. i \in {k \in Slots \ X : q.core[k].first \in Clus} /\ q.core[i].first = first
        BY <1>0, <1>8, <3>1
      <4>2. <<SlotPlace(q.fat, i), first>> \in CoreClaims(q.fat, q.core, X)
        BY <4>1 DEF CoreClaims
      <4> QED BY <1>8, <2>4, <3>1, <4>2
    <3>2. CASE first \notin Clus
      BY <2>4, <3>2
    <3> QED BY <3>1, <3>2
  <2>6. PICK r : Patched(q, b, r, X, Z)
    <3>1. Z \in SUBSET AllClaims
      BY <1>8, <2>5, GoodFacts
    <3>2. \A j \in DOMAIN b.u : IsEntry(b.u[j]) /\ b.u[j].first \in Clus => <<<<b.c, j>>, b.u[j].first>> \in Z
      BY <2>2, <2>3, <2>4
    <3>3. Sound(q.fat, q.ent \cup CoreClaims(q.fat, q.core, X))
      BY <1>8, GoodFacts
    <3>4. \A F \in q.tabs : Sound(F, q.ent \cup Z)
      <4>1. q.ent \cup Z \subseteq q.ent \cup CoreClaims(q.fat, q.core, X)
        BY <2>5
      <4>2. Sound(q.fat, q.ent \cup Z)
        BY <3>3, <4>1, SoundSub
      <4> QED BY <1>8, <4>2
    <3>5. Sound(q.fat, (q.ent \cup CoreClaims(q.fat, q.core, X)) \cup Z)
      <4>1. (q.ent \cup CoreClaims(q.fat, q.core, X)) \cup Z = q.ent \cup CoreClaims(q.fat, q.core, X)
        BY <2>5
      <4> QED BY <3>3, <4>1
    <3>6. b.k \in {"data", "xfer"}
      BY <2>3
    <3> QED BY <1>4, <1>8, <3>1, <3>2, <3>4, <3>5, <3>6, MoveData
  <2>7. /\ Good(r, X) /\ r.fat = q.fat /\ r.tabs = q.tabs /\ r.ent \subseteq q.ent \cup Z /\ r.core = q.core
        /\ \A d \in Clus, j \in 1..UNITS :
             r.dat[d][j] = IF d = SlotClus(i) /\ j = SlotUnit(i) THEN x ELSE q.dat[d][j]
    BY <2>3, <2>6 DEF Patched
  <2>8. Held(r, X) \subseteq Held(q, X)
    BY <2>5, <2>7 DEF Held
  <2>9. CoreBack(r, u)
    BY <1>0, <1>9, <2>7, <2>8, CoreBackKeeps
  <2>10. Exec(q, <<b>>, r, X)
    <3>1. Moves(q, b, r, X)
      BY <1>0, <1>4, <1>6, <1>8, <1>9, <2>6, <2>7, <2>9 DEF Patched
    <3> QED BY <3>1, ExecOne
  <2>11. PICK t : Flushed(r, a, t, X)
    BY <1>4, <2>7, MoveBarrier
  <2>12. /\ Good(t, X) /\ t.fat = r.fat /\ t.core = r.core /\ t.tabs = {r.fat} /\ t.dat = r.dat /\ t.ent = DatClaims(r.dat)
         /\ t.ent \subseteq r.ent /\ Held(t, X) \subseteq Held(r, X)
    BY <2>11 DEF Flushed, Held
  <2>13. CoreBack(t, u)
    BY <1>0, <2>9, <2>12, CoreBackKeeps
  <2>14. Exec(r, <<a>>, t, X)
    <3>1. Moves(r, a, t, X)
      BY <1>0, <1>4, <1>6, <2>7, <2>9, <2>11, <2>12, <2>13 DEF Flushed
    <3> QED BY <3>1, ExecOne
  <2>15. Exec(s, p, t, {})
    <3>1. PICK d, e : d = <<a>> /\ e = <<b>>
      OBVIOUS
    <3>2. Exec(s, d \o e, r, X)
      BY <1>10, <2>10, <3>1, ExecExec
    <3>3. Exec(s, (d \o e) \o d, t, X)
      BY <2>14, <3>1, <3>2, ExecExec
    <3>4. (d \o e) \o d = c
      BY <1>3, <1>4, <3>1, ThreeSteps
    <3> QED BY <1>0, <1>5, <3>3, <3>4
  <2>16. Committed(s, t, i, x)
    BY <1>0, <1>8, <2>7, <2>8, <2>12 DEF Committed
  <2> QED BY <1>5, <1>12, <2>15, <2>16, <2>x
<1> QED BY <1>11, <1>12

(* The greater of two numbers is one.                                      *)
LEMMA GreaterOf ==
  ASSUME NEW a \in Nat, NEW b \in Nat
  PROVE  Max({a, b}) \in Nat
<1>1. \E x \in {a, b} : \A y \in {a, b} : x >= y
  OBVIOUS
<1>2. Max({a, b}) \in {a, b}
  BY <1>1 DEF Max
<1> QED BY <1>2

(* Joining sequences is associative.                                       *)
LEMMA JoinAgain ==
  ASSUME NEW A, NEW x \in Seq(A), NEW y \in Seq(A), NEW z \in Seq(A)
  PROVE  (x \o y) \o z = x \o (y \o z) /\ y \o z \in Seq(A) /\ x \o y \in Seq(A)
OBVIOUS

(* The same of plans.                                                      *)
LEMMA PlansJoin ==
  \A x, y, z \in Seq(Steps) : /\ (x \o y) \o z = x \o (y \o z)
                              /\ y \o z \in Seq(Steps) /\ x \o y \in Seq(Steps)
<1>1. PICK A : A = Steps
  OBVIOUS
<1>2. \A x, y, z \in Seq(A) : /\ (x \o y) \o z = x \o (y \o z)
                              /\ y \o z \in Seq(A) /\ x \o y \in Seq(A)
  BY JoinAgain
<1> QED BY <1>1, <1>2

(* Four sequences, joined from either end.                                 *)
LEMMA JoinFour ==
  ASSUME NEW A, NEW x \in Seq(A), NEW y \in Seq(A), NEW z \in Seq(A), NEW w \in Seq(A)
  PROVE  ((x \o y) \o z) \o w = x \o (y \o (z \o w)) /\ y \o (z \o w) \in Seq(A)
<1>1. PICK zw : zw = z \o w
  OBVIOUS
<1>2. PICK xy : xy = x \o y
  OBVIOUS
<1>3. zw \in Seq(A) /\ xy \in Seq(A)
  BY <1>1, <1>2
<1>4. (xy \o z) \o w = xy \o (z \o w)
  BY <1>3
<1>5. (x \o y) \o zw = x \o (y \o zw) /\ y \o zw \in Seq(A)
  BY <1>3
<1> QED BY <1>1, <1>2, <1>4, <1>5, Zenon

(* The same of plans.                                                      *)
JoinsFour(x, y, z, w) ==
  ((x \o y) \o z) \o w = x \o (y \o (z \o w)) /\ y \o (z \o w) \in Seq(Steps)

(* Four plans join so.                                                     *)
LEMMA PlansJoinFour == \A x, y, z, w \in Seq(Steps) : JoinsFour(x, y, z, w)
BY JoinFour, Zenon DEF JoinsFour

(* A plan of one step.                                                     *)
LEMMA OnePlan == \A st \in Steps : <<st>> \in Seq(Steps)
OBVIOUS

(* A step between two of the same kind, none of which is undone.           *)
LEMMA ThreePlan ==
  ASSUME NEW b \in Steps, NEW mid \in Steps, b.undo = <<>>, mid.undo = <<>>, NEW c, c = <<b, mid, b>>
  PROVE  c \in Seq(Steps) /\ \A k \in 1..Len(c) : c[k].undo = <<>>
<1>1. c \in Seq(Steps) /\ Len(c) = 3 /\ c[1] = b /\ c[2] = mid /\ c[3] = b
  OBVIOUS
<1>2. \A k \in 1..3 : k = 1 \/ k = 2 \/ k = 3
  OBVIOUS
<1> QED BY <1>1, <1>2

(* Directory indexes are numbers.                                          *)
LEMMA SlotsAre == \A i \in Slots : i \in Nat
BY ConstFacts DEF Slots

(* The bytes of a transfer.                                                *)
LEMMA BlankUnits ==
  /\ Zero \in Blanks /\ Deleted \in Blanks /\ Dots \in Blanks
  /\ \A n \in FileNames : Byte(n, 1) \in Blanks
  /\ \A n \in Names : Lfn(n) \in Blanks
BY DEF Blanks

(* Two transfers after each other are one.                                 *)
LEMMA PutConcat ==
  ASSUME NEW p, NEW q, NEW i, NEW in, NEW F, NEW u, NEW v, PutOf(p, i, in, F, u), PutOf(q, i, in, F, v),
         NEW w, w = p \o q
  PROVE  PutOf(w, i, in, F, v)
<1>1. p \in Seq(Steps) /\ q \in Seq(Steps) /\ Len(p) \in Nat /\ Len(q) \in Nat
  BY DEF PutOf
<1>2. /\ w \in Seq(Steps) /\ Len(w) = Len(p) + Len(q) /\ \A k \in 1..Len(p) : w[k] = p[k]
      /\ \A k \in 1..Len(q) : w[Len(p) + k] = q[k]
  BY <1>1, ConcatIs
<1>3. \A k \in 1..Len(w) : (k \in 1..Len(p) /\ w[k] = p[k]) \/ \E j \in 1..Len(q) : w[k] = q[j]
  <2> SUFFICES ASSUME NEW k \in 1..Len(w) PROVE (k \in 1..Len(p) /\ w[k] = p[k]) \/ \E j \in 1..Len(q) : w[k] = q[j]
    OBVIOUS
  <2>1. CASE k <= Len(p)
    BY <1>1, <1>2, <2>1
  <2>2. CASE k > Len(p)
    <3>1. k - Len(p) \in 1..Len(q) /\ k = Len(p) + (k - Len(p))
      BY <1>1, <1>2, <2>2
    <3> QED BY <1>2, <3>1
  <2> QED BY <1>1, <1>2, <2>1, <2>2
<1> QED BY <1>2, <1>3 DEF PutOf

(* No transfer is a transfer of nothing.                                   *)
LEMMA PutNone ==
  ASSUME NEW i, NEW in, NEW F, NEW u
  PROVE  PutOf(<<>>, i, in, F, u)
BY DEF PutOf

(* rw_bytes: done, or refused where the chain ends.                        *)
LEMMA PutExec ==
  ASSUME NEW s, Good(s, {}), NEW p, NEW i, NEW in, NEW F, NEW u, PutOf(p, i, in, F, u)
  PROVE  \/ \A q \in Seq(Steps) : Safe(s, p \o q, {})
         \/ \E t : Exec(s, p, t, {}) /\ Good(t, {}) /\ Wiped(s, t, p, Len(p))
<1>1. PICK X, v : X = {} /\ v = <<>>
  OBVIOUS
<1>2. p \in Seq(Steps) /\ \A k \in 1..Len(p) : BlankStep(p[k], v, X)
  BY <1>1 DEF PutOf
<1>3. X # {} \/ CanUndo(s, v)
  BY <1>1 DEF CanUndo
<1>4. \/ X = {} /\ (\E k \in 1..Len(p) : p[k].k = "refuse") /\ \A q \in Seq(Steps) : Safe(s, p \o q, X)
      \/ \E t : Exec(s, p, t, X) /\ Good(t, X) /\ Wiped(s, t, p, Len(p)) /\ (X # {} \/ CanUndo(t, v))
  BY <1>1, <1>2, <1>3, ExecBlanks
<1> QED BY <1>1, <1>4

(* An inode whose first cluster an inode of the index holds already.       *)
LEMMA CoreAgain ==
  ASSUME NEW s, Good(s, {}), NEW i \in Slots, NEW in \in Inodes,
         in.first = s.core[i].first \/ in.first \notin Clus,
         NEW st, st = Core(i, in)
  PROVE  \E t : Moves(s, st, t, {}) /\ Cored(s, st, t, {})
<1>1. PICK X, Y : X = {} /\ Y = {}
  OBVIOUS
<1>2. st \in Steps /\ st.k = "core" /\ st.i = i /\ st.in = in /\ st.undo = <<>>
  <2>1. i \in Nat
    BY DEF Slots
  <2> QED BY <2>1, StepTypes DEF Core
<1>3. ASSUME st.i \in Slots \ Y /\ st.in.first \in Clus
      PROVE  /\ InRoot(s.fat, st.i)
             /\ Sound(s.fat, (s.ent \cup CoreClaims(s.fat, s.core, X)) \cup {<<SlotPlace(s.fat, st.i), st.in.first>>})
  <2>1. s.core[i].first = st.in.first /\ st.in.first \in Clus
    BY <1>2, <1>3
  <2>2. <<SlotPlace(s.fat, i), s.core[i].first>> \in CoreClaims(s.fat, s.core, X)
    BY <1>1, <2>1, InodePath
  <2>3. InRoot(s.fat, i)
    BY <2>1 DEF Good
  <2>4. Sound(s.fat, s.ent \cup CoreClaims(s.fat, s.core, X))
    BY <1>1, GoodFacts
  <2>5. (s.ent \cup CoreClaims(s.fat, s.core, X)) \cup {<<SlotPlace(s.fat, st.i), st.in.first>>}
          = s.ent \cup CoreClaims(s.fat, s.core, X)
    BY <1>2, <2>1, <2>2
  <2> QED BY <1>2, <2>3, <2>4, <2>5
<1>4. X \subseteq Y \cup {st.i} /\ Y \subseteq X /\ Good(s, X)
  BY <1>1
<1>5. PICK t : Cored(s, st, t, Y)
  BY <1>2, <1>3, <1>4, MoveCore
<1>6. Moves(s, st, t, {})
  BY <1>1, <1>2, <1>5 DEF Cored, Moves, Undoable
<1> QED BY <1>1, <1>5, <1>6

(* fat_op_write, and fat_op_truncate to a larger size.                     *)
LEMMA ExtendSafe ==
  ASSUME NEW s, Good(s, {}), IsNow(s), hint \in Clus, NEW i \in Slots, InRoot(s.fat, i),
         NEW in, in = s.core[i], NEW bytes \in Nat, NEW e, e = Ensure(i, in, bytes),
         NEW p, NEW u, PutOf(p, i, e.in, e.fat, u), NEW size \in Nat,
         NEW plan,
         plan = ((e.steps \o p) \o Commit(i, e.in.first, size)) \o <<Core(i, [e.in EXCEPT !.size = size])>>
  PROVE  Safe(s, plan, {})
<1>1. /\ e.steps \in Seq(Steps) /\ e.in \in Inodes /\ e.fat \in Tables
      /\ \/ \A q \in Seq(Steps) : Safe(s, e.steps \o q, {})
         \/ \E t : Exec(s, e.steps, t, {}) /\ Ensured(s, t, i, e)
  <2>1. s.fat = Fat
    BY DEF IsNow
  <2> QED BY <2>1, EnsureExec
<1>2. /\ SlotClus(i) \in Clus /\ SlotUnit(i) \in 1..UNITS
      /\ SlotPlace(s.fat, i) = <<SlotClus(i), SlotUnit(i)>> /\ Dir[i] \in Units
  BY DirIs
<1>3. PICK a, c, in2, d, st : a = e.steps /\ c = Commit(i, e.in.first, size) /\ in2 = [e.in EXCEPT !.size = size]
                     /\ st = Core(i, in2) /\ d = <<st>>
  OBVIOUS
<1>4. in2 \in Inodes /\ in2.first = e.in.first
  BY <1>1, <1>3 DEF Inodes
<1>5. st \in Steps /\ d \in Seq(Steps)
  <2>1. i \in Nat
    BY SlotsAre, Zenon
  <2>2. Core(i, in2) \in Steps
    BY <1>4, <2>1, StepTypes, Zenon
  <2>3. st \in Steps
    BY <1>3, <2>2, Zenon
  <2> QED BY <1>3, <2>3, OnePlan, Zenon
<1>6. c \in Seq(Steps) /\ OnFailure(c, <<>>) = c
  <2>1. PICK mid :
          mid = IF IsEntry(Dir[i])
                THEN Data(SlotClus(i), At(SlotUnit(i), [Dir[i] EXCEPT !.first = e.in.first, !.size = size]))
                ELSE Refuse
    OBVIOUS
  <2>2. c = <<Barrier, mid, Barrier>>
    BY <1>3, <2>1 DEF Commit
  <2>3. mid \in Steps /\ mid.undo = <<>>
    <3>1. CASE IsEntry(Dir[i])
      <4>1. PICK x : x = [Dir[i] EXCEPT !.first = e.in.first, !.size = size]
        OBVIOUS
      <4>2. e.in.first \in Links
        BY <1>1 DEF Inodes
      <4>3. x \in Units
        BY <1>2, <3>1, <4>1, <4>2, EntryWith
      <4>4. At(SlotUnit(i), x) \in Patches
        BY <1>2, <4>3, AtIs
      <4>5. mid = Data(SlotClus(i), At(SlotUnit(i), x))
        BY <2>1, <3>1, <4>1
      <4> QED BY <1>2, <4>4, <4>5, StepTypes DEF Data
    <3>2. CASE ~IsEntry(Dir[i])
      BY <2>1, <3>2, StepTypes DEF Refuse
    <3> QED BY <3>1, <3>2
  <2>4. Barrier \in Steps /\ Barrier.undo = <<>>
    BY StepTypes DEF Barrier
  <2>5. c \in Seq(Steps) /\ \A k \in 1..Len(c) : c[k].undo = <<>>
    BY <2>2, <2>3, <2>4, ThreePlan, Zenon
  <2> QED BY <2>5, OnFailureNone
<1>7. p \in Seq(Steps)
  BY DEF PutOf
<1>8. PICK q : q = p \o (c \o d)
  OBVIOUS
<1>9. ((a \o p) \o c) \o d = a \o q /\ q \in Seq(Steps)
  <2>1. a \in Seq(Steps) /\ p \in Seq(Steps) /\ c \in Seq(Steps) /\ d \in Seq(Steps)
    BY <1>1, <1>3, <1>5, <1>6, <1>7
  <2>2. JoinsFour(a, p, c, d)
    BY <2>1, PlansJoinFour, Zenon
  <2> QED BY <1>8, <2>2, Zenon DEF JoinsFour
<1>10. Safe(s, a \o q, {})
  <2>1. CASE \A r \in Seq(Steps) : Safe(s, e.steps \o r, {})
    BY <1>3, <1>9, <2>1
  <2>2. CASE \E t : Exec(s, e.steps, t, {}) /\ Ensured(s, t, i, e)
    <3>1. PICK t : Exec(s, a, t, {}) /\ Ensured(s, t, i, e)
      BY <1>3, <2>2
    <3>2. /\ Good(t, {}) /\ t.core[i] = e.in /\ InRoot(t.fat, i) /\ SlotPlace(t.fat, i) = SlotPlace(s.fat, i)
      <4>1. Good(t, {}) /\ t.core[i] = e.in /\ RootGrows(s.fat, t.fat)
        BY <3>1 DEF Ensured
      <4>2. s.fat \in Tables /\ t.fat \in Tables
        BY <4>1, GoodFacts
      <4> QED BY <4>1, <4>2, RootGrowsPlaces
    <3>3. Safe(t, q, {})
      <4>1. CASE \A r \in Seq(Steps) : Safe(t, p \o r, {})
        <5>1. c \o d \in Seq(Steps)
          BY <1>5, <1>6, PlansJoin
        <5> QED BY <1>8, <4>1, <5>1
      <4>2. CASE \E r : Exec(t, p, r, {}) /\ Good(r, {}) /\ Wiped(t, r, p, Len(p))
        <5>1. PICK r : Exec(t, p, r, {}) /\ Good(r, {}) /\ Wiped(t, r, p, Len(p))
          BY <4>2
        <5>2. r.fat = t.fat /\ r.core[i].first = e.in.first
          BY <3>2, <5>1 DEF Wiped
        <5>3. InRoot(r.fat, i) /\ SlotPlace(r.fat, i) = <<SlotClus(i), SlotUnit(i)>>
          BY <1>2, <3>2, <5>2
        <5>4. PICK v, first : v = <<>> /\ first = e.in.first
          OBVIOUS
        <5>5. CoreBack(r, v) /\ c = OnFailure(Commit(i, first, size), v) /\ first = r.core[i].first
          BY <1>3, <1>6, <5>2, <5>4 DEF CoreBack
        <5>6. \/ \A x \in Seq(Steps) : Safe(r, c \o x, {})
              \/ \E x : Exec(r, c, x, {}) /\ Committed(r, x, i, [Dir[i] EXCEPT !.first = first, !.size = size])
          BY <1>2, <5>1, <5>3, <5>5, CommitExec
        <5>7. Safe(r, c \o d, {})
          <6>1. CASE \A x \in Seq(Steps) : Safe(r, c \o x, {})
            BY <1>5, <6>1
          <6>2. CASE \E x : Exec(r, c, x, {}) /\ Committed(r, x, i, [Dir[i] EXCEPT !.first = first, !.size = size])
            <7>1. PICK x : Exec(r, c, x, {}) /\ Good(x, {}) /\ x.core = r.core
              BY <6>2 DEF Committed
            <7>2. PICK y : Moves(x, st, y, {}) /\ Cored(x, st, y, {})
              <8>1. in2.first = x.core[i].first
                BY <1>4, <5>2, <7>1
              <8> QED BY <1>3, <1>4, <7>1, <8>1, CoreAgain
            <7>3. Exec(x, d, y, {}) /\ Good(y, {})
              BY <1>3, <7>2, ExecOne DEF Cored
            <7>4. Safe(x, d, {})
              BY <7>3, ExecIsSafe
            <7> QED BY <7>1, <7>4, ExecSafe
          <6> QED BY <5>6, <6>1, <6>2
        <5> QED BY <1>8, <5>1, <5>7, ExecSafe
      <4> QED BY <3>2, <4>1, <4>2, PutExec
    <3> QED BY <3>1, <3>3, ExecSafe
  <2> QED BY <1>1, <2>1, <2>2
<1> QED BY <1>3, <1>9, <1>10

(* The plan of a truncate that grows the file is safe.                     *)
LEMMA GrowSafe ==
  ASSUME NEW s, Good(s, {}), IsNow(s), s.core = icache, hint \in Clus, NEW i \in Slots, InRoot(s.fat, i),
         NEW size \in Nat
  PROVE  Safe(s, GrowPlan(i, size), {})
<1>1. PICK in, e, p : in = s.core[i] /\ e = Ensure(i, in, size) /\ p = Put(i, e.in, e.fat, in.size, size, Zero)
  OBVIOUS
<1>2. e.in \in Inodes /\ e.fat \in Tables /\ i \in Nat /\ in.size \in Nat
  <2>1. s.fat = Fat
    BY DEF IsNow
  <2>2. s.core \in [Slots -> Inodes]
    BY GoodFacts
  <2>3. in.size \in Nat
    BY <1>1, <2>2 DEF Inodes
  <2> QED BY <1>1, <2>1, <2>3, EnsureExec DEF Slots
<1>3. PutOf(p, i, e.in, e.fat, Zero)
  BY <1>1, <1>2, BlankUnits, PutIs
<1>4. GrowPlan(i, size) = ((e.steps \o p) \o Commit(i, e.in.first, size)) \o <<Core(i, [e.in EXCEPT !.size = size])>>
  BY <1>1 DEF GrowPlan
<1>5. PICK plan : plan = GrowPlan(i, size)
  OBVIOUS
<1>6. Safe(s, plan, {})
  <2>1. plan = ((e.steps \o p) \o Commit(i, e.in.first, size)) \o <<Core(i, [e.in EXCEPT !.size = size])>>
    BY <1>4, <1>5
  <2>2. in = s.core[i] /\ e = Ensure(i, in, size)
    BY <1>1
  <2> QED BY <1>3, <2>1, <2>2, ExtendSafe
<1> QED BY <1>5, <1>6

(* The plan of a write is safe.                                            *)
LEMMA WriteSafe ==
  ASSUME NEW s, Good(s, {}), IsNow(s), s.core = icache, hint \in Clus, NEW i \in Slots, InRoot(s.fat, i),
         NEW off \in Nat, NEW len \in Nat, NEW u \in Blanks
  PROVE  Safe(s, WritePlan(i, off, len, u), {})
<1>1. PICK in, bytes, e : in = s.core[i] /\ bytes = off + len /\ e = Ensure(i, in, bytes)
  OBVIOUS
<1>2. e.in \in Inodes /\ e.fat \in Tables /\ i \in Nat /\ in.size \in Nat /\ bytes \in Nat /\ e.steps \in Seq(Steps)
  <2>1. s.fat = Fat
    BY DEF IsNow
  <2>2. s.core \in [Slots -> Inodes]
    BY GoodFacts
  <2>3. in.size \in Nat /\ bytes \in Nat
    BY <1>1, <2>2 DEF Inodes
  <2> QED BY <1>1, <2>1, <2>3, EnsureExec DEF Slots
<1>3. PICK hole, p, w, size : hole = Put(i, e.in, e.fat, in.size, off, Zero) /\ p = Put(i, e.in, e.fat, off, bytes, u)
                        /\ w = hole \o p /\ size = Max({bytes, in.size})
  OBVIOUS
<1>4. PutOf(hole, i, e.in, e.fat, Zero)
  BY <1>2, <1>3, BlankUnits, PutIs
<1>5. PutOf(p, i, e.in, e.fat, u)
  BY <1>2, <1>3, PutIs
<1>6. PutOf(w, i, e.in, e.fat, u)
  BY <1>3, <1>4, <1>5, PutConcat
<1>7. WritePlan(i, off, len, u) = (((e.steps \o hole) \o p) \o Commit(i, e.in.first, size)) \o <<Core(i, [e.in EXCEPT !.size = size])>>
  BY <1>1, <1>3 DEF WritePlan
<1>8. (e.steps \o hole) \o p = e.steps \o w
  <2>1. PICK a : a = e.steps
    OBVIOUS
  <2>2. a \in Seq(Steps) /\ hole \in Seq(Steps) /\ p \in Seq(Steps)
    BY <1>2, <1>4, <1>5, <2>1 DEF PutOf
  <2>3. (a \o hole) \o p = a \o (hole \o p)
    BY <2>2, JoinAgain
  <2> QED BY <1>3, <2>1, <2>3
<1>9. size \in Nat
  BY <1>2, <1>3, GreaterOf
<1>10. PICK plan : plan = WritePlan(i, off, len, u)
  OBVIOUS
<1>11. Safe(s, plan, {})
  <2>1. plan = ((e.steps \o w) \o Commit(i, e.in.first, size)) \o <<Core(i, [e.in EXCEPT !.size = size])>>
    BY <1>7, <1>8, <1>10
  <2>2. in = s.core[i] /\ e = Ensure(i, in, bytes) /\ bytes \in Nat
    BY <1>1, <1>2
  <2> QED BY <1>6, <1>9, <2>1, <2>2, ExtendSafe
<1> QED BY <1>10, <1>11

(* An index has its own place in the directory.                            *)
LEMMA PlaceOnce ==
  ASSUME NEW F \in Tables, NEW ch, ch = Chain(F, Root), Path(F, ch),
         NEW i, NEW k, InRoot(F, i), InRoot(F, k), SlotPlace(F, i) = SlotPlace(F, k)
  PROVE  i = k
<1>1. ch \in Seq(Clus) /\ Len(ch) \in Nat /\ i \in 1..(Len(ch) * UNITS) /\ k \in 1..(Len(ch) * UNITS) /\ UNITS \in Nat /\ UNITS >= 1
  BY ConstFacts DEF Path, InRoot
<1>2. PICK a, b, c, d : a = (i - 1) \div UNITS /\ b = (i - 1) % UNITS /\ c = (k - 1) \div UNITS /\ d = (k - 1) % UNITS
  OBVIOUS
<1>3. 1 + a \in 1..Len(ch) /\ 1 + c \in 1..Len(ch)
  BY <1>1, <1>2, UnitPosition
<1>4. ch[1 + a] = ch[1 + c] /\ 1 + b = 1 + d
  BY <1>2 DEF SlotPlace
<1>5. 1 + a = 1 + c
  BY <1>3, <1>4 DEF Path
<1>6. Len(ch) * UNITS \in Nat /\ i - 1 \in Nat /\ k - 1 \in Nat
  BY <1>1
<1>7. a \in Int /\ b \in Int /\ i - 1 = UNITS * a + b
  BY <1>1, <1>2, <1>6
<1>8. c \in Int /\ d \in Int /\ k - 1 = UNITS * c + d
  BY <1>1, <1>2, <1>6
<1>9. a = c /\ b = d
  BY <1>4, <1>5, <1>7, <1>8
<1>10. i - 1 = k - 1
  BY <1>7, <1>8, <1>9
<1> QED BY <1>1, <1>6, <1>10

(* The claims of one place once everything is down: of its record and of   *)
(* its inode.                                                              *)
LEMMA ClaimsAt ==
  ASSUME NEW s, NEW X, Good(s, X), s.ent = DatClaims(s.dat), NEW i \in Slots, InRoot(s.fat, i),
         NEW b, NEW j, SlotPlace(s.fat, i) = <<b, j>>,
         NEW z, z \in Held(s, X), z[1] = <<b, j>>
  PROVE  /\ z[2] \in Clus
         /\ \/ IsEntry(s.dat[b][j]) /\ s.dat[b][j].first = z[2]
            \/ i \notin X /\ s.core[i].first = z[2]
<1>1. z[2] \in Clus
  <2>1. Held(s, X) \in SUBSET AllClaims
    BY GoodFacts DEF Held
  <2> QED BY <2>1 DEF AllClaims
<1>2. CASE z \in s.ent
  <2>1. PICK dat : dat = s.dat
    OBVIOUS
  <2>2. z \in DatClaims(dat)
    BY <1>2, <2>1
  <2>3. IsEntry(dat[z[1][1]][z[1][2]]) /\ dat[z[1][1]][z[1][2]].first = z[2]
    BY <2>2 DEF DatClaims
  <2>4. z[1][1] = b /\ z[1][2] = j
    OBVIOUS
  <2> QED BY <1>1, <2>1, <2>3, <2>4
<1>3. CASE z \in CoreClaims(s.fat, s.core, X)
  <2>1. PICK k \in Slots \ X : s.core[k].first \in Clus /\ z = <<SlotPlace(s.fat, k), s.core[k].first>>
    BY <1>3 DEF CoreClaims
  <2>2. InRoot(s.fat, k)
    BY <2>1 DEF Good
  <2>3. PICK F, ch : F = s.fat /\ ch = Chain(F, Root)
    OBVIOUS
  <2>4. F \in Tables /\ Path(F, ch)
    BY <2>3, GoodFacts
  <2>5. InRoot(F, i) /\ InRoot(F, k) /\ SlotPlace(F, i) = SlotPlace(F, k)
    BY <2>1, <2>2, <2>3
  <2>6. i = k
    BY <2>3, <2>4, <2>5, PlaceOnce
  <2> QED BY <1>1, <2>1, <2>6
<1> QED BY <1>1, <1>2, <1>3 DEF Held

(* A last flush.                                                           *)
LEMMA FlushSafe ==
  ASSUME NEW s, Good(s, {}), NEW p, p = <<Barrier>>
  PROVE  Safe(s, p, {}) /\ p \in Seq(Steps)
<1>1. PICK X, st : X = {} /\ st = Barrier
  OBVIOUS
<1>2. st \in Steps /\ st.k = "barrier" /\ st.undo = <<>>
  BY <1>1, StepTypes DEF Barrier
<1>3. PICK t : Moves(s, st, t, X) /\ Flushed(s, st, t, X)
  <2>1. X # {} \/ CanUndo(s, st.undo)
    BY <1>2 DEF CanUndo
  <2> QED BY <1>1, <1>2, <2>1, MoveFlush
<1>4. Exec(s, <<st>>, t, {}) /\ Good(t, {})
  BY <1>1, <1>3, ExecOne DEF Flushed
<1> QED BY <1>1, <1>2, <1>4, ExecIsSafe

(* What a chain is cut at is a cluster of it.                              *)
LEMMA CutAt ==
  ASSUME NEW in, in.cur = 0, NEW F \in Tables, in.first \in Links, NEW keep \in Nat \ {0},
         NEW last, last = ChainAt(in, F, keep - 1, keep - 1), last # 0
  PROVE  keep \in 1..Len(Chain(F, in.first)) /\ last = Chain(F, in.first)[keep] /\ in.first \in Clus /\ last \in Clus
<1>1. PICK ch : ch = Chain(F, in.first)
  OBVIOUS
<1>2. ch \in Seq(Clus)
  BY <1>1, ChainType
<1>3. (keep - 1) + 1 - 0 = keep
  OBVIOUS
<1>4. keep \in DOMAIN ch /\ last = ch[keep]
  BY <1>1, <1>3 DEF ChainAt
<1>5. in.first \in Clus
  BY <1>1, <1>4, ChainType
<1> QED BY <1>1, <1>2, <1>4, <1>5

(* What holds of the file at index i when its new, smaller size has been   *)
(* committed: x is its record, core its inode, both with the same first    *)
(* cluster, and old its chain before.                                      *)
Shrunk(s, i, F, old, first) ==
  /\ Good(s, {}) /\ s.fat = F /\ s.tabs = {F} /\ s.core[i].first = first
  /\ InRoot(F, i)
  /\ \A z \in Held(s, {}) : z[1] = SlotPlace(F, i) => z[2] = first
  /\ old \in Clus => /\ Path(F, Chain(F, old))
                     /\ \A z \in Held(s, {}) \cup {RootClaim} : z[1] # SlotPlace(F, i) => Own(F, old) \cap Own(F, z[2]) = {}

(* Changing the inode in core while a chain is being cut.                  *)
LEMMA CoreShrunk ==
  ASSUME NEW s, NEW i \in Slots, NEW F, NEW old, NEW first, Shrunk(s, i, F, old, first),
         NEW in \in Inodes, in.first = first, NEW st, st = Core(i, in)
  PROVE  \E t : Moves(s, st, t, {}) /\ Shrunk(t, i, F, old, first) /\ t.core[i] = in
<1>1. PICK t : Moves(s, st, t, {}) /\ Cored(s, st, t, {})
  <2>1. Good(s, {}) /\ in.first = s.core[i].first
    BY DEF Shrunk
  <2> QED BY <2>1, CoreAgain
<1>2. /\ Good(t, {}) /\ t.fat = s.fat /\ t.tabs = s.tabs /\ t.ent = s.ent
      /\ \A k \in Slots : t.core[k] = IF k = i THEN in ELSE s.core[k]
  BY <1>1 DEF Cored, Core
<1>3. Held(t, {}) = Held(s, {})
  <2>1. \A k \in Slots : t.core[k].first = s.core[k].first
    BY <1>2 DEF Shrunk
  <2>2. CoreClaims(t.fat, t.core, {}) = CoreClaims(s.fat, s.core, {})
    BY <1>2, <2>1, CoreClaimsSame
  <2> QED BY <1>2, <2>2 DEF Held
<1>4. t.core[i] = in
  BY <1>2
<1>5. Shrunk(t, i, F, old, first)
  BY <1>2, <1>3, <1>4 DEF Shrunk
<1> QED BY <1>1, <1>4, <1>5

(* The whole chain of a file that is now empty is freed.                   *)
LEMMA TrimAll ==
  ASSUME NEW s, NEW i \in Slots, NEW F, NEW old \in Links,
         NEW first, Shrunk(s, i, F, old, first), first \notin Clus,
         NEW p, p = FreeChain(F, old)
  PROVE  \E t : Exec(s, p, t, {}) /\ Good(t, {})
<1>0. F \in Tables /\ Good(s, {}) /\ s.fat = F
  BY GoodFacts DEF Shrunk
<1>1. PICK ch, X : ch = Chain(F, old) /\ X = {}
  OBVIOUS
<1>2. ch \in Seq(Clus)
  BY <1>0, <1>1, ChainType
<1>3. ASSUME NEW k \in 1..Len(ch) PROVE Unowned(s.fat, Held(s, X), ch[k])
  <2>1. old \in Clus
    BY <1>0, <1>1, ChainType
  <2>2. ch[k] \in Own(F, old)
    BY <1>1, <1>2 DEF Own, Range
  <2>3. ASSUME NEW z \in Held(s, {}) \cup {RootClaim} PROVE ch[k] \notin Own(F, z[2])
    <3>1. CASE z[1] # SlotPlace(F, i)
      <4>1. Own(F, old) \cap Own(F, z[2]) = {}
        BY <2>1, <3>1 DEF Shrunk
      <4> QED BY <2>2, <4>1
    <3>2. CASE z[1] = SlotPlace(F, i)
      <4>1. z \notin Held(s, {})
        <5>1. ASSUME z \in Held(s, {}) PROVE FALSE
          <6>1. z[2] = first
            BY <3>2, <5>1 DEF Shrunk
          <6>2. Held(s, {}) \in SUBSET AllClaims
            BY <1>0, GoodFacts DEF Held
          <6>3. z[2] \in Clus
            BY <5>1, <6>2 DEF AllClaims
          <6> QED BY <6>1, <6>3
        <5> QED BY <5>1
      <4>2. z[1] = <<Root, 0>>
        BY <4>1, RootIs
      <4>3. SlotPlace(F, i)[2] # 0
        <5>1. Len(Chain(F, Root)) \in Nat /\ i \in 1..(Len(Chain(F, Root)) * UNITS)
          BY <1>0, GoodFacts DEF Shrunk, InRoot
        <5>2. 1 + ((i - 1) % UNITS) \in 1..UNITS
          BY <5>1, UnitPosition
        <5> QED BY <5>2, ConstFacts DEF SlotPlace
      <4> QED BY <3>2, <4>2, <4>3
    <3> QED BY <3>1, <3>2
  <2> QED BY <1>0, <1>1, <2>3 DEF Unowned
<1>4. p = [k \in DOMAIN ch |-> SetFat(ch[k], FREE, "low")]
  BY <1>1 DEF FreeChain
<1>5. PICK t : Exec(s, p, t, X) /\ Freed(s, t, ch, Len(ch), X)
  BY <1>0, <1>1, <1>2, <1>3, <1>4, ExecFrees
<1> QED BY <1>1, <1>5 DEF Freed

(* The chain is ended at its keep-th cluster and the rest freed.           *)
LEMMA TrimTail ==
  ASSUME NEW s, NEW i \in Slots, NEW F, NEW a \in Clus, Shrunk(s, i, F, a, a),
         NEW keep \in 1..Len(Chain(F, a)), NEW last, last = Chain(F, a)[keep],
         F[last] \notin {EOC, FREE},
         NEW p, p = <<SetFat(last, EOC, "keep"), Barrier>> \o FreeChain(F, F[last])
  PROVE  \E t : Exec(s, p, t, {}) /\ Good(t, {})
<1>0. F \in Tables /\ Good(s, {}) /\ s.fat = F /\ s.core[i].first = a /\ InRoot(F, i) /\ s.fat \in s.tabs
  BY GoodFacts DEF Shrunk
<1>1. PICK ch, X, E, o, n : ch = Chain(F, a) /\ X = {} /\ E = Held(s, {}) /\ o = SlotPlace(F, i) /\ n = Len(ch)
  OBVIOUS
<1>2. ch \in Seq(Clus) /\ Path(F, ch) /\ n \in Nat /\ keep \in 1..n /\ last = ch[keep] /\ last \in Clus /\ n = Len(ch)
  <2>1. Path(F, ch)
    BY <1>1 DEF Shrunk
  <2>2. ch \in Seq(Clus) /\ keep \in 1..Len(ch)
    BY <1>1, <2>1 DEF Path
  <2> QED BY <1>1, <2>1, <2>2
<1>3. E \in SUBSET AllClaims /\ Sound(F, E)
  <2>1. s.ent \cup CoreClaims(s.fat, s.core, {}) \in SUBSET AllClaims /\ Sound(s.fat, s.ent \cup CoreClaims(s.fat, s.core, {}))
    BY <1>0, GoodFacts
  <2> QED BY <1>0, <1>1, <2>1 DEF Held
<1>4. <<o, a>> \in E
  <2>1. i \in Slots \ {} /\ s.core[i].first \in Clus
    BY <1>0
  <2>2. <<SlotPlace(s.fat, i), s.core[i].first>> \in CoreClaims(s.fat, s.core, {})
    BY <1>0, <2>1, InodePath
  <2> QED BY <1>0, <1>1, <2>2 DEF Held
<1>5. \A z \in E : z[1] = o => z[2] = a
  BY <1>1 DEF Shrunk
<1>6. o # RootClaim[1]
  <2>1. Len(Chain(F, Root)) \in Nat /\ i \in 1..(Len(Chain(F, Root)) * UNITS)
    BY <1>0, GoodFacts DEF InRoot
  <2>2. 1 + ((i - 1) % UNITS) \in 1..UNITS
    BY <2>1, UnitPosition
  <2>3. o[2] # 0
    BY <1>1, <2>2, ConstFacts DEF SlotPlace
  <2> QED BY <2>3, RootIs
<1>7. PICK st, G : st = SetFat(last, EOC, "keep") /\ G = [F EXCEPT ![ch[keep]] = EOC]
  OBVIOUS
<1>8. st \in Steps /\ st.k = "fat" /\ st.c = last /\ st.v = EOC /\ st.undo = <<>>
  <2>1. EOC \in Links
    BY DEF Links
  <2> QED BY <1>2, <1>7, <2>1, StepTypes DEF SetFat
<1>9. /\ G \in Tables /\ Sound(G, E) /\ Chain(G, Root) = Chain(F, Root)
      /\ \A j \in (keep + 1)..n : Unowned(G, E, ch[j])
  <2>1. PICK z : z = <<o, a>>
    OBVIOUS
  <2>2. z \in E /\ (\A y \in E : y[1] = z[1] => y[2] = z[2]) /\ z[1] # RootClaim[1] /\ ch = Chain(F, z[2])
    BY <1>1, <1>4, <1>5, <1>6, <2>1
  <2>3. EndedAt(F, G, ch[keep])
    BY <1>0, <1>2, <1>7 DEF EndedAt, Tables, Links
  <2>4. F \in Tables /\ keep \in 1..Len(ch)
    BY <1>0, <1>2
  <2>5. /\ Sound(G, E) /\ Chain(G, Root) = Chain(F, Root)
        /\ \A j \in (keep + 1)..Len(ch) : Unowned(G, E, ch[j])
    <3>1. Sound(G, E)
      BY <1>3, <2>2, <2>3, <2>4, SoundCut
    <3>2. Chain(G, Root) = Chain(F, Root)
      BY <1>3, <2>2, <2>3, <2>4, SoundCut
    <3>3. ASSUME NEW j \in (keep + 1)..Len(ch) PROVE Unowned(G, E, ch[j])
      BY <1>3, <2>2, <2>3, <2>4, SoundCut
    <3> QED BY <3>1, <3>2, <3>3
  <2> QED BY <1>2, <2>3, <2>5, RootIs DEF EndedAt
<1>10. PICK t : Tabled(s, st, t, X, G)
  <2>1. G = SetIn(s.fat, st)
    BY <1>0, <1>2, <1>7, <1>8 DEF SetIn
  <2>2. RootGrows(s.fat, G)
    <3>1. Chain(s.fat, Root) \in Seq(Clus)
      BY <1>0, GoodFacts
    <3>2. Chain(G, Root) = Chain(s.fat, Root)
      BY <1>0, <1>9
    <3> QED BY <3>1, <3>2, SameRoot
  <2>3. Sound(G, s.ent \cup CoreClaims(s.fat, s.core, X)) /\ Good(s, X)
    BY <1>0, <1>1, <1>9 DEF Held
  <2> QED BY <1>8, <2>1, <2>2, <2>3, MoveFat
<1>11. Good(t, X) /\ t.fat = G /\ Held(t, X) = E
  BY <1>1, <1>10 DEF Tabled, Held
<1>12. Exec(s, <<st>>, t, X)
  <2>1. Moves(s, st, t, X)
    BY <1>8, <1>10 DEF Tabled, Moves, Undoable
  <2> QED BY <2>1, ExecOne
<1>13. PICK b : b = Barrier
  OBVIOUS
<1>14. b \in Steps /\ b.k = "barrier" /\ b.undo = <<>>
  BY <1>13, StepTypes DEF Barrier
<1>15. PICK r : Moves(t, b, r, X) /\ Flushed(t, b, r, X)
  <2>1. X # {} \/ CanUndo(t, b.undo)
    BY <1>14 DEF CanUndo
  <2> QED BY <1>11, <1>14, <2>1, MoveFlush
<1>16. Good(r, X) /\ r.fat = G /\ Held(r, X) \subseteq E
  BY <1>11, <1>15 DEF Flushed, Held
<1>17. Exec(t, <<b>>, r, X)
  BY <1>15, ExecOne
<1>18. PICK d : d = Chain(F, F[last])
  OBVIOUS
<1>19. d \in Seq(Clus) /\ \A k \in 1..Len(d) : Unowned(r.fat, Held(r, X), d[k])
  <2>1. keep < n
    BY <1>2 DEF Path
  <2>2. keep + 1 \in 1..n /\ keep \in 1..(n - 1)
    BY <1>2, <2>1
  <2>3. F[last] = ch[keep + 1]
    BY <1>2, <2>2 DEF Path
  <2>4. d = SubSeq(ch, keep + 1, n)
    <3>1. PICK k : k = keep + 1
      OBVIOUS
    <3>2. k \in 1..Len(ch)
      BY <1>2, <2>2, <3>1
    <3>3. Chain(F, ch[k]) = SubSeq(ch, k, Len(ch))
      BY <1>0, <1>2, <3>2, PathTail
    <3> QED BY <1>2, <1>18, <2>3, <3>1, <3>3
  <2>5. d \in Seq(Clus) /\ Len(d) = n - keep /\ \A k \in 1..Len(d) : d[k] = ch[keep + k]
    BY <1>2, <2>2, <2>4
  <2>6. ASSUME NEW k \in 1..Len(d) PROVE Unowned(r.fat, Held(r, X), d[k])
    <3>1. keep + k \in (keep + 1)..n /\ d[k] = ch[keep + k]
      BY <1>2, <2>5
    <3>2. Unowned(G, E, d[k])
      BY <1>9, <3>1
    <3> QED BY <1>16, <3>2, UnownedSub
  <2> QED BY <2>5, <2>6
<1>20. PICK f : f = FreeChain(F, F[last])
  OBVIOUS
<1>21. PICK q : Exec(r, f, q, X) /\ Freed(r, q, d, Len(d), X)
  <2>1. f = [k \in DOMAIN d |-> SetFat(d[k], FREE, "low")]
    BY <1>18, <1>20 DEF FreeChain
  <2> QED BY <1>16, <1>19, <2>1, ExecFrees
<1>22. Exec(s, p, q, X)
  <2>1. PICK x, y : x = <<st>> /\ y = <<b>>
    OBVIOUS
  <2>2. Exec(s, x \o y, r, X)
    BY <1>12, <1>17, <2>1, ExecExec
  <2>3. Exec(s, (x \o y) \o f, q, X)
    BY <1>21, <2>2, ExecExec
  <2>4. x \o y = <<st, b>>
    BY <1>8, <1>14, <2>1, ThreeSteps
  <2> QED BY <1>7, <1>13, <1>20, <2>3, <2>4
<1> QED BY <1>1, <1>21, <1>22 DEF Freed

(* What ShrinkPlan does once the size is committed.                        *)
TrimSteps(F, i, keep, old, cut, last) ==
  IF keep = 0 THEN FreeChain(F, old)
  ELSE IF last = 0 THEN <<>>
  ELSE <<Core(i, [cut EXCEPT !.cur = last, !.curi = keep - 1])>>
       \o (IF F[last] = EOC THEN <<>>
           ELSE IF F[last] = FREE THEN <<Refuse>>
           ELSE <<SetFat(last, EOC, "keep"), Barrier>> \o FreeChain(F, F[last]))

(* Cutting a chain is safe once the entry no longer needs its tail.        *)
LEMMA TrimSafe ==
  ASSUME NEW s, NEW i \in Slots, NEW F, NEW old \in Links, NEW keep \in Nat,
         NEW cut \in Inodes, cut.cur = 0, Shrunk(s, i, F, old, cut.first),
         keep = 0 => cut.first \notin Clus, keep # 0 => cut.first = old,
         NEW last, last = ChainAt(cut, F, keep - 1, keep - 1),
         NEW trim, trim = TrimSteps(F, i, keep, old, cut, last),
         NEW fl, fl = <<Barrier>>
  PROVE  trim \in Seq(Steps) /\ Safe(s, trim \o fl, {})
<1>0. F \in Tables /\ Good(s, {}) /\ fl \in Seq(Steps) /\ cut.first \in Links
  BY FlushSafe, GoodFacts DEF Shrunk, Inodes
<1>1. ASSUME NEW p, NEW t, Exec(s, p, t, {}), Good(t, {}) PROVE p \in Seq(Steps) /\ Safe(s, p \o fl, {})
  BY <1>1, FlushSafe, ExecSafe DEF Exec
<1>2. CASE keep = 0
  <2>1. PICK t : Exec(s, trim, t, {}) /\ Good(t, {})
    <3>1. trim = FreeChain(F, old) /\ cut.first \notin Clus
      BY <1>2 DEF TrimSteps
    <3> QED BY <3>1, TrimAll
  <2> QED BY <1>1, <2>1
<1>3. CASE keep # 0 /\ last = 0
  <2>1. trim = <<>>
    BY <1>3 DEF TrimSteps
  <2>2. Exec(s, trim, s, {})
    BY <2>1, ExecNil
  <2> QED BY <1>0, <1>1, <2>2
<1>4. CASE keep # 0 /\ last # 0
  <2>1. PICK k, ch : k = keep /\ ch = Chain(F, cut.first)
    OBVIOUS
  <2>2. keep \in 1..Len(ch) /\ last = ch[keep] /\ cut.first \in Clus /\ last \in Clus /\ cut.first = old
    <3>1. keep \in Nat \ {0}
      BY <1>4
    <3>2. keep \in 1..Len(Chain(F, cut.first)) /\ last = Chain(F, cut.first)[keep] /\ cut.first \in Clus /\ last \in Clus
      BY <1>0, <1>4, <3>1, CutAt
    <3> QED BY <1>4, <2>1, <3>2
  <2>3. PICK in, st : in = [cut EXCEPT !.cur = last, !.curi = keep - 1] /\ st = Core(i, in)
    OBVIOUS
  <2>4. in \in Inodes /\ in.first = cut.first
    <3>1. last \in Links /\ keep - 1 \in Nat
      BY <1>4, <2>2 DEF Links
    <3> QED BY <2>3, <3>1 DEF Inodes
  <2>5. PICK t : Moves(s, st, t, {}) /\ Shrunk(t, i, F, old, cut.first)
    BY <2>3, <2>4, CoreShrunk
  <2>6. Good(t, {}) /\ st \in Steps /\ Exec(s, <<st>>, t, {})
    BY <2>5, ExecOne DEF Shrunk, Moves
  <2>7. PICK g : g = <<st>>
    OBVIOUS
  <2>8. g \in Seq(Steps) /\ Exec(s, g, t, {})
    BY <2>6, <2>7
  <2>9. ASSUME NEW h \in Seq(Steps), trim = g \o h, Safe(t, h \o fl, {})
        PROVE  trim \in Seq(Steps) /\ Safe(s, trim \o fl, {})
    <3>1. (g \o h) \o fl = g \o (h \o fl) /\ g \o h \in Seq(Steps)
      BY <1>0, <2>8, <2>9, PlansJoin
    <3>2. Safe(s, g \o (h \o fl), {})
      BY <2>8, <2>9, ExecSafe
    <3> QED BY <2>9, <3>1, <3>2
  <2>10. CASE F[last] = EOC
    <3>1. PICK h : h = <<>>
      OBVIOUS
    <3>2. trim = g \o h
      BY <1>4, <2>3, <2>7, <2>10, <3>1 DEF TrimSteps
    <3>3. h \in Seq(Steps) /\ h \o fl = fl
      BY <1>0, <3>1
    <3>4. Safe(t, h \o fl, {})
      BY <2>6, <3>3, FlushSafe
    <3> QED BY <2>9, <3>2, <3>3, <3>4
  <2>11. CASE F[last] = FREE
    <3>1. PICK rf, h : rf = Refuse /\ h = <<rf>>
      OBVIOUS
    <3>2. trim = g \o h
      BY <1>4, <2>3, <2>7, <2>11, <3>1, ConstFacts DEF TrimSteps
    <3>3. rf \in Steps /\ rf.k = "refuse" /\ rf.undo = <<>> /\ h \in Seq(Steps)
      BY <3>1, StepTypes DEF Refuse
    <3>4. Undoable(t, rf.undo)
      BY <3>3 DEF Undoable
    <3>5. Safe(t, h \o fl, {})
      BY <1>0, <3>1, <3>3, <3>4, SafeRefuse
    <3> QED BY <2>9, <3>2, <3>3, <3>5
  <2>12. CASE F[last] \notin {EOC, FREE}
    <3>1. PICK h : h = <<SetFat(last, EOC, "keep"), Barrier>> \o FreeChain(F, F[last])
      OBVIOUS
    <3>2. trim = g \o h
      BY <1>4, <2>3, <2>7, <2>12, <3>1 DEF TrimSteps
    <3>3. PICK a : a = old
      OBVIOUS
    <3>4. /\ a \in Clus /\ Shrunk(t, i, F, a, a) /\ keep \in 1..Len(Chain(F, a)) /\ last = Chain(F, a)[keep]
      BY <2>1, <2>2, <2>5, <3>3
    <3>5. PICK r : Exec(t, h, r, {}) /\ Good(r, {})
      BY <2>12, <3>1, <3>4, TrimTail
    <3>6. h \in Seq(Steps) /\ Safe(t, h \o fl, {})
      BY <3>5, FlushSafe, ExecSafe DEF Exec
    <3> QED BY <2>9, <3>2, <3>6
  <2> QED BY <2>10, <2>11, <2>12
<1> QED BY <1>2, <1>3, <1>4

(* fat_op_truncate to a smaller size.                                      *)
LEMMA ShrinkSafe ==
  ASSUME NEW s, Good(s, {}), IsNow(s), s.core = icache, NEW i \in Slots, InRoot(s.fat, i),
         NEW size \in Nat
  PROVE  Safe(s, ShrinkPlan(i, size), {})
<1>1. PICK F, in, keep, X : F = s.fat /\ in = s.core[i] /\ keep = ClustersFor(size) /\ X = {}
  OBVIOUS
<1>2. F \in Tables /\ F = Fat /\ in \in Inodes /\ keep \in Nat
  BY <1>1, GoodFacts, ClustersForIs DEF IsNow
<1>3. PICK to : to = IF keep = 0 THEN [in EXCEPT !.first = 0] ELSE in
  OBVIOUS
<1>4. /\ to \in Inodes /\ (keep = 0 => to.first \notin Clus) /\ (keep # 0 => to.first = in.first)
  BY <1>2, <1>3, ConstFacts DEF Inodes, Links, FREE
<1>5. PICK cut : cut = [to EXCEPT !.size = size, !.cur = 0, !.curi = 0]
  OBVIOUS
<1>6. cut \in Inodes /\ cut.first = to.first /\ cut.cur = 0
  BY <1>4, <1>5 DEF Inodes, Links, FREE
<1>7. PICK last, trim, fl, u, c, st, d, e, g :
          /\ last = ChainAt(cut, F, keep - 1, keep - 1) /\ trim = TrimSteps(F, i, keep, in.first, cut, last) /\ fl = <<Barrier>>
          /\ u = <<Core(i, in)>> /\ c = OnFailure(Commit(i, to.first, size), u)
          /\ st = Core(i, to) /\ d = <<st>> /\ e = Core(i, cut) /\ g = <<e>>
  OBVIOUS
<1>8. ShrinkPlan(i, size) = (((d \o c) \o g) \o trim) \o fl
  BY <1>1, <1>2, <1>3, <1>5, <1>7 DEF ShrinkPlan, TrimSteps
<1>9. /\ SlotClus(i) \in Clus /\ SlotUnit(i) \in 1..UNITS
      /\ SlotPlace(s.fat, i) = <<SlotClus(i), SlotUnit(i)>> /\ Dir[i] \in Units
  BY DirIs
<1>10. PICK t : Moves(s, st, t, {}) /\ Cored(s, st, t, {})
  <2>1. to.first = s.core[i].first \/ to.first \notin Clus
    BY <1>1, <1>4
  <2> QED BY <1>4, <1>7, <2>1, CoreAgain
<1>11. /\ Good(t, {}) /\ t.fat = F /\ t.ent = s.ent
       /\ \A k \in Slots : t.core[k] = IF k = i THEN to ELSE s.core[k]
  BY <1>1, <1>7, <1>10 DEF Cored, Core
<1>12. Exec(s, d, t, {}) /\ d \in Seq(Steps)
  <2>1. Exec(s, <<st>>, t, {})
    BY <1>10, ExecOne
  <2> QED BY <1>7, <2>1 DEF Exec
<1>13. Held(t, {}) \subseteq Held(s, {})
  <2>1. ASSUME NEW z \in CoreClaims(t.fat, t.core, {}) PROVE z \in CoreClaims(s.fat, s.core, {})
    <3>1. PICK k \in Slots \ {} : t.core[k].first \in Clus /\ z = <<SlotPlace(t.fat, k), t.core[k].first>>
      BY DEF CoreClaims
    <3>2. t.core[k].first = s.core[k].first
      BY <1>1, <1>4, <1>11, <3>1
    <3> QED BY <1>1, <1>11, <3>1, <3>2 DEF CoreClaims
  <2> QED BY <1>11, <2>1 DEF Held
<1>14. PICK E, o : E = Held(s, {}) /\ o = SlotPlace(F, i)
  OBVIOUS
<1>15. /\ E \in SUBSET AllClaims /\ Sound(F, E)
       /\ in.first \in Clus => <<o, in.first>> \in E /\ Path(F, Chain(F, in.first))
  <2>1. s.ent \cup CoreClaims(s.fat, s.core, {}) \in SUBSET AllClaims /\ Sound(s.fat, s.ent \cup CoreClaims(s.fat, s.core, {}))
    BY GoodFacts
  <2>2. ASSUME in.first \in Clus PROVE <<o, in.first>> \in E /\ Path(F, Chain(F, in.first))
    <3>1. i \in Slots \ {} /\ s.core[i].first \in Clus
      BY <1>1, <2>2
    <3>2. /\ Path(s.fat, Chain(s.fat, s.core[i].first))
          /\ <<SlotPlace(s.fat, i), s.core[i].first>> \in CoreClaims(s.fat, s.core, {})
      BY <3>1, InodePath
    <3> QED BY <1>1, <1>14, <3>2 DEF Held
  <2> QED BY <1>1, <1>14, <2>1, <2>2 DEF Held
<1>16. CoreBack(t, u)
  <2>1. ASSUME in.first \in Clus
        PROVE  /\ InRoot(t.fat, i) /\ Sound(t.fat, Held(t, {}) \cup {<<SlotPlace(t.fat, i), in.first>>})
    <3>1. InRoot(t.fat, i) /\ SlotPlace(t.fat, i) = o
      BY <1>1, <1>11, <1>14
    <3>2. Held(t, {}) \cup {<<o, in.first>>} \subseteq E
      BY <1>13, <1>14, <1>15, <2>1
    <3>3. Sound(F, Held(t, {}) \cup {<<o, in.first>>})
      BY <1>15, <3>2, SoundSub
    <3> QED BY <1>11, <3>1, <3>3
  <2> QED BY <1>2, <1>7, <2>1 DEF CoreBack
<1>17. PICK first : first = to.first
  OBVIOUS
<1>18. first = t.core[i].first /\ first \in Links
  BY <1>4, <1>11, <1>17 DEF Inodes
<1>19. /\ c \in Seq(Steps)
       /\ \/ \A q \in Seq(Steps) : Safe(t, c \o q, {})
          \/ /\ IsEntry(Dir[i])
             /\ \E r : Exec(t, c, r, {}) /\ Committed(t, r, i, [Dir[i] EXCEPT !.first = first, !.size = size])
  <2>1. InRoot(t.fat, i) /\ SlotPlace(t.fat, i) = <<SlotClus(i), SlotUnit(i)>>
    BY <1>1, <1>9, <1>11
  <2>2. c = OnFailure(Commit(i, first, size), u)
    BY <1>7, <1>17
  <2>3. Good(t, {})
    BY <1>11
  <2> QED BY <1>9, <1>16, <1>18, <2>1, <2>2, <2>3, CommitExec
<1>20. e \in Steps /\ g \in Seq(Steps) /\ fl \in Seq(Steps)
  <2>1. i \in Nat
    BY DEF Slots
  <2> QED BY <1>6, <1>7, <2>1, StepTypes
<1>21. ASSUME NEW r, Exec(t, c, r, {}), Committed(t, r, i, [Dir[i] EXCEPT !.first = first, !.size = size]), IsEntry(Dir[i])
       PROVE  Shrunk(r, i, F, in.first, to.first)
  <2>1. PICK x : x = [Dir[i] EXCEPT !.first = first, !.size = size]
    OBVIOUS
  <2>2. x.first = first
    <3>1. Dir[i] \in Entries
      BY <1>9, <1>21, BlanksAre DEF Units
    <3> QED BY <2>1, <3>1 DEF Entries
  <2>3. /\ Good(r, {}) /\ r.fat = F /\ r.core = t.core /\ r.tabs = {F} /\ r.ent = DatClaims(r.dat)
        /\ Held(r, {}) \subseteq Held(t, {})
        /\ r.dat[SlotClus(i)][SlotUnit(i)] = x
    BY <1>9, <1>11, <1>21, <2>1 DEF Committed
  <2>4. Held(r, {}) \subseteq E
    BY <1>13, <1>14, <2>3
  <2>5. ASSUME NEW z \in Held(r, {}), z[1] = o PROVE z[2] = first
    <3>1. PICK b, j, Y : b = SlotClus(i) /\ j = SlotUnit(i) /\ Y = {}
      OBVIOUS
    <3>2. SlotPlace(r.fat, i) = <<b, j>> /\ InRoot(r.fat, i) /\ z[1] = <<b, j>> /\ z \in Held(r, Y) /\ Good(r, Y)
      BY <1>1, <1>9, <1>14, <2>3, <2>5, <3>1
    <3>3. r.ent = DatClaims(r.dat)
      BY <2>3
    <3>4. \/ IsEntry(r.dat[b][j]) /\ r.dat[b][j].first = z[2]
          \/ i \notin Y /\ r.core[i].first = z[2]
      BY <3>2, <3>3, ClaimsAt
    <3> QED BY <1>18, <2>2, <2>3, <3>1, <3>4
  <2>6. ASSUME in.first \in Clus, NEW z \in Held(r, {}) \cup {RootClaim}, z[1] # o
        PROVE  Own(F, in.first) \cap Own(F, z[2]) = {}
    <3>1. PICK y : y = <<o, in.first>>
      OBVIOUS
    <3>2. y \in E \cup {RootClaim} /\ z \in E \cup {RootClaim} /\ y[1] # z[1] /\ y[2] = in.first
      BY <1>15, <2>4, <2>6, <3>1
    <3>3. Own(F, y[2]) \cap Own(F, z[2]) = {}
      BY <1>15, <3>2 DEF Sound
    <3> QED BY <3>2, <3>3
  <2>7. InRoot(F, i) /\ r.core[i].first = to.first
    BY <1>1, <1>17, <1>18, <2>3
  <2> QED BY <1>14, <1>15, <1>17, <2>3, <2>5, <2>6, <2>7 DEF Shrunk
<1>22. PICK gt : gt = g \o (trim \o fl)
  OBVIOUS
<1>23. in.first \in Links
  BY <1>2 DEF Inodes
<1>24. ASSUME NEW r, Shrunk(r, i, F, in.first, to.first) PROVE trim \in Seq(Steps) /\ Safe(r, gt, {})
  <2>1. PICK q : Moves(r, e, q, {}) /\ Shrunk(q, i, F, in.first, cut.first)
    BY <1>6, <1>7, <1>24, CoreShrunk
  <2>2. PICK old : old = in.first
    OBVIOUS
  <2>3. /\ old \in Links /\ Shrunk(q, i, F, old, cut.first) /\ (keep = 0 => cut.first \notin Clus)
        /\ (keep # 0 => cut.first = old) /\ trim = TrimSteps(F, i, keep, old, cut, last)
    BY <1>4, <1>6, <1>7, <1>23, <2>1, <2>2
  <2>4. trim \in Seq(Steps) /\ Safe(q, trim \o fl, {})
    <3>1. last = ChainAt(cut, F, keep - 1, keep - 1) /\ fl = <<Barrier>>
      BY <1>7
    <3> QED BY <1>2, <1>6, <2>3, <3>1, TrimSafe
  <2>5. Exec(r, g, q, {})
    BY <1>7, <2>1, ExecOne
  <2> QED BY <1>22, <2>4, <2>5, ExecSafe
<1>25. trim \in Seq(Steps)
  <2>1. CASE keep = 0
    <3>1. PICK ch : ch = Chain(F, in.first)
      OBVIOUS
    <3>2. ch \in Seq(Clus) /\ FREE \in Links
      BY <1>2, <1>23, <3>1, ChainType DEF Links
    <3>3. trim = [k \in DOMAIN ch |-> SetFat(ch[k], FREE, "low")]
      BY <1>7, <2>1, <3>1 DEF TrimSteps, FreeChain
    <3>4. DOMAIN ch = 1..Len(ch) /\ Len(ch) \in Nat /\ \A k \in 1..Len(ch) : SetFat(ch[k], FREE, "low") \in Steps
      BY <3>2, StepTypes
    <3> QED BY <3>3, <3>4
  <2>2. CASE keep # 0
    <3>1. PICK h : h = IF last = 0 \/ F[last] = EOC THEN <<>> ELSE IF F[last] = FREE THEN <<Refuse>>
                       ELSE <<SetFat(last, EOC, "keep"), Barrier>> \o FreeChain(F, F[last])
      OBVIOUS
    <3>2. CASE last = 0
      BY <1>7, <2>2, <3>2 DEF TrimSteps
    <3>3. CASE last # 0
      <4>1. last \in Clus /\ last \in Links /\ keep - 1 \in Nat /\ F[last] \in Links
        <5>1. keep \in Nat \ {0} /\ cut.first \in Links /\ last = ChainAt(cut, F, keep - 1, keep - 1)
          BY <1>2, <1>6, <1>7, <2>2 DEF Inodes
        <5>2. last \in Clus
          BY <1>2, <1>6, <3>3, <5>1, CutAt
        <5> QED BY <1>2, <5>1, <5>2 DEF Links, Tables
      <4>2. PICK k, w : k = Core(i, [cut EXCEPT !.cur = last, !.curi = keep - 1]) /\ w = <<k>>
        OBVIOUS
      <4>3. k \in Steps /\ w \in Seq(Steps)
        <5>1. cut \in Inodes /\ last \in Links /\ keep - 1 \in Nat
          BY <1>6, <4>1
        <5>2. [cut EXCEPT !.cur = last, !.curi = keep - 1] \in Inodes
          BY <5>1 DEF Inodes
        <5>3. i \in Nat
          BY DEF Slots
        <5> QED BY <4>2, <5>2, <5>3, StepTypes
      <4>4. h \in Seq(Steps)
        <5>1. CASE F[last] = EOC
          BY <3>1, <5>1
        <5>2. CASE F[last] = FREE /\ F[last] # EOC
          BY <3>1, <3>3, <5>2, StepTypes
        <5>3. CASE F[last] # FREE /\ F[last] # EOC
          <6>1. PICK ch, f : ch = Chain(F, F[last]) /\ f = FreeChain(F, F[last])
            OBVIOUS
          <6>2. ch \in Seq(Clus) /\ FREE \in Links /\ EOC \in Links
            BY <1>2, <4>1, <6>1, ChainType DEF Links
          <6>3. f = [m \in DOMAIN ch |-> SetFat(ch[m], FREE, "low")]
            BY <6>1 DEF FreeChain
          <6>4. DOMAIN ch = 1..Len(ch) /\ Len(ch) \in Nat /\ \A m \in 1..Len(ch) : SetFat(ch[m], FREE, "low") \in Steps
            BY <6>2, StepTypes
          <6>5. f \in Seq(Steps)
            BY <6>3, <6>4
          <6>6. <<SetFat(last, EOC, "keep"), Barrier>> \in Seq(Steps)
            BY <4>1, <6>2, StepTypes
          <6>7. h = <<SetFat(last, EOC, "keep"), Barrier>> \o f
            BY <3>1, <3>3, <5>3, <6>1
          <6> QED BY <6>5, <6>6, <6>7
        <5> QED BY <5>1, <5>2, <5>3
      <4>5. trim = w \o h
        BY <1>7, <2>2, <3>1, <3>3, <4>2 DEF TrimSteps
      <4> QED BY <4>3, <4>4, <4>5
    <3> QED BY <3>2, <3>3
  <2> QED BY <2>1, <2>2
<1>26. (((d \o c) \o g) \o trim) \o fl = d \o (c \o gt) /\ gt \in Seq(Steps)
  <2>1. d \in Seq(Steps) /\ c \in Seq(Steps) /\ g \in Seq(Steps) /\ trim \in Seq(Steps) /\ fl \in Seq(Steps)
    BY <1>12, <1>19, <1>20, <1>25
  <2>2. PICK dc, tf : dc = d \o c /\ tf = trim \o fl
    OBVIOUS
  <2>3. dc \in Seq(Steps) /\ tf \in Seq(Steps)
    BY <2>1, <2>2
  <2>4. PICK dcg : dcg = dc \o g
    OBVIOUS
  <2>5. dcg \in Seq(Steps)
    BY <2>1, <2>3, <2>4
  <2>6. (dcg \o trim) \o fl = dcg \o tf
    <3>1. (dcg \o trim) \o fl = dcg \o (trim \o fl)
      BY <2>1, <2>5, PlansJoin, ZenonT(60)
    <3> QED BY <2>2, <3>1
  <2>7. (dc \o g) \o tf = dc \o (g \o tf) /\ g \o tf \in Seq(Steps)
    <3>1. PICK A : A = Steps
      OBVIOUS
    <3>2. dc \in Seq(A) /\ g \in Seq(A) /\ tf \in Seq(A)
      BY <2>1, <2>3, <3>1
    <3>3. (dc \o g) \o tf = dc \o (g \o tf) /\ g \o tf \in Seq(A)
      BY <3>2, JoinAgain
    <3> QED BY <3>1, <3>3
  <2>8. gt \in Seq(Steps) /\ gt = g \o tf
    BY <1>22, <2>2, <2>7
  <2>9. (d \o c) \o gt = d \o (c \o gt)
    <3>1. gt \in Seq(Steps) /\ d \in Seq(Steps) /\ c \in Seq(Steps)
      BY <2>1, <2>8
    <3> QED BY <3>1, JoinAgain
  <2> QED BY <2>2, <2>4, <2>6, <2>7, <2>8, <2>9
<1>27. Safe(t, c \o gt, {})
  <2>1. CASE \A q \in Seq(Steps) : Safe(t, c \o q, {})
    BY <1>26, <2>1
  <2>2. CASE /\ IsEntry(Dir[i])
             /\ \E r : Exec(t, c, r, {}) /\ Committed(t, r, i, [Dir[i] EXCEPT !.first = first, !.size = size])
    <3>1. PICK r : Exec(t, c, r, {}) /\ Committed(t, r, i, [Dir[i] EXCEPT !.first = first, !.size = size])
      BY <2>2
    <3>2. Shrunk(r, i, F, in.first, to.first)
      BY <1>21, <2>2, <3>1
    <3>3. Safe(r, gt, {})
      BY <1>24, <3>2
    <3> QED BY <3>1, <3>3, ExecSafe
  <2> QED BY <1>19, <2>1, <2>2
<1>28. Safe(s, d \o (c \o gt), {})
  BY <1>12, <1>27, ExecSafe
<1> QED BY <1>8, <1>26, <1>28

(* Setting more inodes aside.                                              *)
LEMMA GoodLess ==
  ASSUME NEW s, NEW X, NEW Y, Good(s, X), X \subseteq Y
  PROVE  Good(s, Y) /\ Held(s, Y) \subseteq Held(s, X)
<1>1. CoreClaims(s.fat, s.core, Y) \subseteq CoreClaims(s.fat, s.core, X)
  BY DEF CoreClaims
<1>2. s.ent \cup CoreClaims(s.fat, s.core, Y) \subseteq s.ent \cup CoreClaims(s.fat, s.core, X)
  BY <1>1
<1>3. Sound(s.fat, s.ent \cup CoreClaims(s.fat, s.core, Y))
  BY <1>2, GoodFacts, SoundSub
<1>4. Good(s, Y)
  BY <1>3 DEF Good
<1> QED BY <1>2, <1>4 DEF Held

(* An inode not in core claims nothing.                                    *)
LEMMA NoInodeIs == NoInode \in Inodes /\ NoInode.first \notin Clus
BY ConstFacts DEF NoInode, Inodes, Links, FREE, EOC

(* Erasing a record of the directory.                                      *)
EraseStep(j) == Data(SlotClus(j), At(SlotUnit(j), Deleted))
(* The step that erases a record.                                          *)
LEMMA EraseIs ==
  ASSUME NEW s, NEW X, Good(s, X), IsNow(s), NEW i, InRoot(s.fat, i), NEW st, st = EraseStep(i)
  PROVE  /\ st \in Steps /\ st.k = "data" /\ st.undo = <<>> /\ st.c = SlotClus(i)
         /\ DOMAIN st.u = {SlotUnit(i)} /\ \A j \in DOMAIN st.u : st.u[j] = Deleted
<1>1. SlotClus(i) \in Clus /\ SlotUnit(i) \in 1..UNITS
  BY DirIs
<1>2. PICK u : u = At(SlotUnit(i), Deleted)
  OBVIOUS
<1>3. u \in Patches /\ DOMAIN u = {SlotUnit(i)} /\ u[SlotUnit(i)] = Deleted
  BY <1>1, <1>2, AtIs, BlanksAre
<1>4. st = Data(SlotClus(i), u)
  BY <1>2 DEF EraseStep
<1> QED BY <1>1, <1>3, <1>4, StepTypes DEF Data

(* The entry of index i is erased and flushed: nobody has its chain.       *)
Erased(s, t, i) ==
  /\ Good(t, {i}) /\ t.fat = s.fat /\ Held(t, {i}) \subseteq Held(s, {})
  /\ \A z \in Held(t, {i}) : z[1] # SlotPlace(s.fat, i)

(* Erasing the entry and flushing: what it claimed is no longer claimed.   *)
LEMMA EraseExec ==
  ASSUME NEW s, Good(s, {}), IsNow(s), NEW i, InRoot(s.fat, i),
         NEW p, p = <<EraseStep(i), Barrier>>
  PROVE  \E t : Exec(s, p, t, {i}) /\ Erased(s, t, i)
<1>1. PICK X, st, b, Z : X = {i} /\ st = EraseStep(i) /\ b = Barrier /\ Z = {}
  OBVIOUS
<1>2. /\ st \in Steps /\ st.k = "data" /\ st.undo = <<>> /\ st.c = SlotClus(i)
      /\ DOMAIN st.u = {SlotUnit(i)} /\ \A j \in DOMAIN st.u : st.u[j] = Deleted
  BY <1>1, EraseIs
<1>3. b \in Steps /\ b.k = "barrier"
  BY <1>1, StepTypes DEF Barrier
<1>4. Good(s, X) /\ Held(s, X) \subseteq Held(s, {})
  BY <1>1, GoodLess
<1>5. PICK r : /\ Moves(s, st, r, X) /\ Patched(s, st, r, X, Z) /\ r.ent \subseteq s.ent
               /\ CoreClaims(r.fat, r.core, X) = CoreClaims(s.fat, s.core, X)
  <2>1. st.k \in {"data", "xfer"} /\ \A j \in DOMAIN st.u : st.u[j] \in Blanks
    BY <1>2, BlankUnits
  <2>2. X # {} \/ CanUndo(s, st.undo)
    BY <1>1
  <2> QED BY <1>1, <1>2, <1>4, <2>1, <2>2, MoveBlank, ZenonT(60)
<1>6. PICK t : Moves(r, b, t, X) /\ Flushed(r, b, t, X)
  <2>1. Good(r, X) /\ (X # {} \/ CanUndo(r, b.undo))
    BY <1>1, <1>5 DEF Patched
  <2> QED BY <1>3, <2>1, MoveFlush
<1>7. Exec(s, p, t, X)
  <2>1. Exec(s, <<st>>, r, X) /\ Exec(r, <<b>>, t, X)
    BY <1>5, <1>6, ExecOne
  <2>2. PICK x, y : x = <<st>> /\ y = <<b>>
    OBVIOUS
  <2>3. Exec(s, x \o y, t, X)
    BY <2>1, <2>2, ExecExec
  <2>4. x \o y = p
    <3>1. <<st>> \o <<b>> = <<st, b>>
      BY <1>2, <1>3, ThreeSteps
    <3> QED BY <1>1, <2>2, <3>1
  <2> QED BY <2>3, <2>4
<1>8. SlotClus(i) \in Clus /\ SlotUnit(i) \in 1..UNITS /\ SlotPlace(s.fat, i) = <<SlotClus(i), SlotUnit(i)>> /\ i \in Slots
  BY DirIs
<1>9. /\ Good(t, X) /\ t.fat = s.fat /\ t.ent = DatClaims(t.dat) /\ Held(t, X) \subseteq Held(s, X)
      /\ t.dat[SlotClus(i)][SlotUnit(i)] = Deleted
  <2>1. Good(t, X) /\ t.fat = s.fat /\ t.ent = DatClaims(t.dat) /\ t.dat = r.dat /\ t.ent \subseteq s.ent /\ t.core = r.core
    BY <1>5, <1>6 DEF Flushed, Patched
  <2>2. CoreClaims(t.fat, t.core, X) = CoreClaims(s.fat, s.core, X)
    BY <1>5, <2>1 DEF Patched
  <2>3. r.dat[SlotClus(i)][SlotUnit(i)] = Deleted
    BY <1>2, <1>5, <1>8 DEF Patched
  <2> QED BY <2>1, <2>2, <2>3 DEF Held
<1>10. ASSUME NEW z \in Held(t, X), z[1] = SlotPlace(s.fat, i) PROVE FALSE
  <2>1. PICK c, j : c = SlotClus(i) /\ j = SlotUnit(i)
    OBVIOUS
  <2>2. SlotPlace(t.fat, i) = <<c, j>> /\ z[1] = <<c, j>> /\ InRoot(t.fat, i)
    BY <1>8, <1>9, <1>10, <2>1
  <2>3. \/ IsEntry(t.dat[c][j]) /\ t.dat[c][j].first = z[2]
        \/ i \notin X /\ t.core[i].first = z[2]
    BY <1>8, <1>9, <2>2, ClaimsAt
  <2>4. ~IsEntry(Deleted)
    BY BlankUnits, BlanksAre
  <2> QED BY <1>1, <1>9, <2>1, <2>3, <2>4
<1> QED BY <1>1, <1>4, <1>7, <1>9, <1>10 DEF Erased

(* The long-name records are erased.                                       *)
LEMMA EraseRest ==
  ASSUME NEW s, Good(s, {}), IsNow(s), NEW i, NEW t, Erased(s, t, i), NEW n \in Nat,
         \A k \in 1..n : InRoot(s.fat, i - k),
         NEW p, p = [k \in 1..n |-> EraseStep(i - k)]
  PROVE  \E r : Exec(t, p, r, {i}) /\ Erased(s, r, i)
<1>1. PICK X, u : X = {i} /\ u = <<>>
  OBVIOUS
<1>2. ASSUME NEW k \in 1..n PROVE EraseStep(i - k) \in Steps /\ BlankStep(EraseStep(i - k), u, X) /\ EraseStep(i - k).k = "data"
  <2>1. PICK st : st = EraseStep(i - k)
    OBVIOUS
  <2>2. /\ st \in Steps /\ st.k = "data" /\ st.undo = <<>> /\ \A j \in DOMAIN st.u : st.u[j] = Deleted
    BY <2>1, EraseIs
  <2> QED BY <1>1, <2>1, <2>2, BlankUnits DEF BlankStep
<1>3. p \in Seq(Steps) /\ Len(p) = n /\ \A k \in 1..Len(p) : BlankStep(p[k], u, X)
  BY <1>2
<1>4. Good(t, X) /\ (X # {} \/ CanUndo(t, u))
  BY <1>1 DEF Erased
<1>5. \/ X = {}
      \/ \E r : Exec(t, p, r, X) /\ Good(r, X) /\ Wiped(t, r, p, Len(p))
  BY <1>3, <1>4, ExecBlanks
<1>6. PICK r : Exec(t, p, r, X) /\ Good(r, X) /\ Wiped(t, r, p, Len(p))
  BY <1>1, <1>5
<1>7. Held(r, X) \subseteq Held(t, X)
  <2>1. r.fat = t.fat /\ r.ent \subseteq t.ent /\ \A k \in Slots : r.core[k].first = t.core[k].first
    BY <1>6 DEF Wiped
  <2>2. CoreClaims(r.fat, r.core, X) = CoreClaims(t.fat, t.core, X)
    BY <2>1, CoreClaimsSame
  <2> QED BY <2>1, <2>2 DEF Held
<1>8. Erased(s, r, i)
  BY <1>1, <1>6, <1>7 DEF Erased, Wiped
<1> QED BY <1>1, <1>6, <1>8

(* fat_op_unlink.                                                          *)
LEMMA UnlinkSafe ==
  ASSUME NEW s, Good(s, {}), IsNow(s), NEW i, InRoot(s.fat, i), IsEntry(Dir[i]),
         NEW w, w = Width[Dir[i].name], w \in Nat \ {0}, \A k \in 1..(w - 1) : InRoot(s.fat, i - k)
  PROVE  Safe(s, UnlinkPlan(i), {i})
<1>1. PICK X, a, n, b, f, e : X = {i} /\ a = <<EraseStep(i), Barrier>> /\ n = w - 1
                       /\ b = [k \in 1..n |-> EraseStep(i - k)] /\ f = FreeChain(Fat, Dir[i].first)
                       /\ e = <<Barrier, Core(i, NoInode)>>
  OBVIOUS
<1>2. UnlinkPlan(i) = ((a \o b) \o f) \o e
  BY <1>1 DEF UnlinkPlan, EraseStep
<1>3. PICK t : Exec(s, a, t, X) /\ Erased(s, t, i)
  BY <1>1, EraseExec
<1>4. PICK r : Exec(t, b, r, X) /\ Erased(s, r, i)
  <2>1. n \in Nat /\ \A k \in 1..n : InRoot(s.fat, i - k)
    BY <1>1
  <2> QED BY <1>1, <1>3, <2>1, EraseRest
<1>5. PICK F, first, ch : F = s.fat /\ first = Dir[i].first /\ ch = Chain(F, first)
  OBVIOUS
<1>6. /\ SlotClus(i) \in Clus /\ SlotUnit(i) \in 1..UNITS
      /\ SlotPlace(F, i) = <<SlotClus(i), SlotUnit(i)>>
      /\ Dir[i] = s.dat[SlotClus(i)][SlotUnit(i)] /\ Dir[i] \in Units /\ i \in Slots
  BY <1>5, DirIs
<1>7. F \in Tables /\ first \in Links /\ ch \in Seq(Clus) /\ F = Fat
  <2>1. Dir[i] \in Entries
    BY <1>6, BlanksAre DEF Units
  <2>2. F \in Tables /\ first \in Links
    BY <1>5, <2>1, GoodFacts DEF Entries
  <2> QED BY <1>5, <2>2, ChainType DEF IsNow
<1>8. ASSUME NEW k \in 1..Len(ch) PROVE Unowned(r.fat, Held(r, X), ch[k])
  <2>1. first \in Clus
    BY <1>5, <1>7, ChainType
  <2>2. PICK y : y = <<SlotPlace(F, i), first>>
    OBVIOUS
  <2>3. y \in Held(s, {}) /\ y[2] = first /\ y[1] = SlotPlace(F, i)
    <3>1. y \in AllClaims
      BY <1>6, <2>1, <2>2 DEF AllClaims, Places
    <3>2. y \in DatClaims(s.dat)
      <4>1. PICK dat, c, j : dat = s.dat /\ c = SlotClus(i) /\ j = SlotUnit(i)
        OBVIOUS
      <4>2. y = <<<<c, j>>, first>>
        BY <1>6, <2>2, <4>1
      <4>3. y[1][1] = c /\ y[1][2] = j /\ y[2] = first
        BY <4>2
      <4>4. IsEntry(dat[c][j]) /\ dat[c][j].first = first
        BY <1>5, <1>6, <4>1
      <4>5. y \in DatClaims(dat)
        BY <3>1, <4>3, <4>4 DEF DatClaims
      <4> QED BY <4>1, <4>5
    <3>3. DatClaims(s.dat) \subseteq s.ent
      BY DEF Good, SymType
    <3> QED BY <2>2, <3>2, <3>3 DEF Held
  <2>4. ch[k] \in Own(F, y[2])
    BY <1>5, <1>7, <2>3 DEF Own, Range
  <2>5. ASSUME NEW z \in Held(r, X) \cup {RootClaim} PROVE ch[k] \notin Own(F, z[2])
    <3>1. z[1] # SlotPlace(F, i)
      <4>1. CASE z \in Held(r, X)
        BY <1>1, <1>4, <1>5, <4>1 DEF Erased
      <4>2. CASE z = RootClaim
        BY <1>6, <4>2, RootIs
      <4> QED BY <4>1, <4>2
    <3>2. y \in Held(s, {}) \cup {RootClaim} /\ z \in Held(s, {}) \cup {RootClaim} /\ y[1] # z[1]
      BY <1>1, <1>4, <2>3, <3>1 DEF Erased
    <3>3. Sound(F, Held(s, {}))
      BY <1>5, GoodFacts DEF Held
    <3>4. Own(F, y[2]) \cap Own(F, z[2]) = {}
      BY <3>2, <3>3 DEF Sound
    <3> QED BY <2>4, <3>4
  <2>6. r.fat = F
    BY <1>4, <1>5 DEF Erased
  <2> QED BY <2>5, <2>6 DEF Unowned
<1>9. PICK q : Exec(r, f, q, X) /\ Good(q, X)
  <2>1. f = [k \in DOMAIN ch |-> SetFat(ch[k], FREE, "low")]
    BY <1>1, <1>5, <1>7 DEF FreeChain
  <2>2. Good(r, X)
    BY <1>1, <1>4 DEF Erased
  <2>3. \E q : Exec(r, f, q, X) /\ Freed(r, q, ch, Len(ch), X)
    BY <1>7, <1>8, <2>1, <2>2, ExecFrees
  <2> QED BY <2>3 DEF Freed
<1>10. PICK x, y, Y : x = Barrier /\ y = Core(i, NoInode) /\ Y = {}
  OBVIOUS
<1>11. x \in Steps /\ x.k = "barrier" /\ y \in Steps /\ y.k = "core" /\ y.i = i /\ y.in = NoInode
  <2>1. i \in Nat
    BY <1>6 DEF Slots
  <2> QED BY <1>10, <2>1, NoInodeIs, StepTypes DEF Barrier, Core
<1>12. PICK m : Moves(q, x, m, X) /\ Good(m, X)
  <2>1. X # {} \/ CanUndo(q, x.undo)
    BY <1>1
  <2>2. \E m : Moves(q, x, m, X) /\ Flushed(q, x, m, X)
    BY <1>9, <1>11, <2>1, MoveFlush
  <2> QED BY <2>2 DEF Flushed
<1>13. PICK h : Cored(m, y, h, Y)
  <2>1. X \subseteq Y \cup {y.i} /\ Y \subseteq X /\ y.in.first \notin Clus
    BY <1>1, <1>10, <1>11, NoInodeIs
  <2> QED BY <1>11, <1>12, <2>1, MoveCore
<1>14. Good(h, {}) /\ Moves(m, y, h, X)
  <2>1. Good(h, Y) /\ Does(m, y, h)
    BY <1>13 DEF Cored
  <2>2. Good(h, X)
    BY <1>1, <1>10, <2>1, GoodLess
  <2> QED BY <1>1, <1>10, <1>11, <2>1, <2>2 DEF Moves
<1>15. Exec(q, e, h, X)
  <2>1. Exec(q, <<x>>, m, X) /\ Exec(m, <<y>>, h, X)
    BY <1>12, <1>14, ExecOne
  <2>2. PICK c, d : c = <<x>> /\ d = <<y>>
    OBVIOUS
  <2>3. Exec(q, c \o d, h, X)
    BY <2>1, <2>2, ExecExec
  <2>4. <<x>> \o <<y>> = <<x, y>>
    BY <1>11, ThreeSteps
  <2> QED BY <1>1, <1>10, <2>2, <2>3, <2>4
<1>16. Exec(s, a \o b, r, X)
  BY <1>3, <1>4, ExecExec
<1>17. Exec(s, (a \o b) \o f, q, X)
  BY <1>9, <1>16, ExecExec
<1>18. Exec(s, ((a \o b) \o f) \o e, h, X)
  BY <1>15, <1>17, ExecExec
<1> QED BY <1>1, <1>2, <1>14, <1>18, ExecIsSafe

(* The least of a set of units.                                            *)
LEMMA LeastOf ==
  ASSUME NEW S \in SUBSET Nat, S # {}
  PROVE  Min(S) \in S /\ \A y \in S : Min(S) <= y
<1>1. \E x \in S : \A y \in S : x <= y
  BY LeastElement
<1> QED BY <1>1 DEF Min

(* The steps that write nothing but blank units, with nothing to undo.     *)
Wipes == {st \in Steps : st.k = "data" /\ st.undo = <<>> /\ \A j \in DOMAIN st.u : st.u[j] \in Blanks}

(* The steps that retire the old end of the directory are wipes.           *)
LEMMA RetireIs ==
  ASSUME NEW c \in Clus
  PROVE  Retire(c) \in Seq(Wipes)
<1>1. PICK zeros : zeros = {j \in 1..UNITS : now[c][j] = Zero}
  OBVIOUS
<1>2. CASE zeros = {}
  BY <1>1, <1>2 DEF Retire
<1>3. CASE zeros # {}
  <2>1. PICK m, u, st : m = Min(zeros) /\ u = [j \in m..UNITS |-> Deleted] /\ st = Data(c, u)
    OBVIOUS
  <2>2. zeros \in SUBSET Nat /\ zeros \subseteq 1..UNITS
    BY <1>1, ConstFacts
  <2>3. m \in 1..UNITS
    BY <1>3, <2>1, <2>2, LeastOf
  <2>4. m..UNITS \in SUBSET (1..UNITS)
    BY <2>3, ConstFacts
  <2>5. PICK J : J = m..UNITS
    OBVIOUS
  <2>6. u \in [J -> Units] /\ J \in SUBSET (1..UNITS) /\ DOMAIN u = J /\ \A j \in J : u[j] = Deleted
    BY <2>1, <2>4, <2>5, BlanksAre
  <2>7. u \in Patches
    BY <2>6 DEF Patches
  <2>8. st \in Steps /\ st.k = "data" /\ st.undo = <<>> /\ st.u = u
    BY <2>1, <2>7, StepTypes DEF Data
  <2>9. st \in Wipes
    BY <2>6, <2>8, BlankUnits DEF Wipes
  <2>10. Retire(c) = <<st>>
    BY <1>1, <1>3, <2>1 DEF Retire
  <2> QED BY <2>9, <2>10
<1> QED BY <1>2, <1>3

(* The records retired in front of the cluster that takes the entry.       *)
LEMMA RetiredIs ==
  ASSUME NEW ch \in Seq(Clus), NEW m \in Nat, m <= Len(ch),
         NEW p, p = FlattenSeq([j \in 1..m |-> Retire(ch[j])])
  PROVE  p \in Seq(Wipes) /\ p \in Seq(Steps)
<1>1. PICK ss, A, B : ss = [j \in 1..m |-> Retire(ch[j])] /\ A = Wipes /\ B = Seq(A)
  OBVIOUS
<1>2. ASSUME NEW j \in 1..m PROVE ss[j] \in B
  <2>1. ch[j] \in Clus
    OBVIOUS
  <2> QED BY <1>1, <2>1, RetireIs
<1>3. ss \in Seq(B) /\ Len(ss) = m
  BY <1>1, <1>2
<1>4. ss \in Seq(Seq(A))
  BY <1>1, <1>3
<1>5. PICK w : Joined(A, ss, w)
  BY <1>4, FlattenIs
<1>6. FlattenSeq(ss) \in Seq(A)
  BY <1>3, <1>5 DEF Joined
<1>7. p \in Seq(Wipes)
  BY <1>1, <1>6
<1>8. Wipes \subseteq Steps
  BY DEF Wipes
<1> QED BY <1>7, <1>8

(* fat_dir_add has retired records: no more than records has changed.      *)
Retired(s, t, u) ==
  /\ Good(t, {}) /\ t.fat = s.fat /\ t.tabs = s.tabs /\ t.ent \subseteq s.ent /\ t.core = s.core
  /\ CanUndo(t, u)

(* Retiring the end marks leaves every claim.                              *)
LEMMA RetireExec ==
  ASSUME NEW s, Good(s, {}), NEW u \in Undos, CanUndo(s, u), NEW p \in Seq(Wipes), NEW q, q = OnFailure(p, u)
  PROVE  \E t : Exec(s, q, t, {}) /\ Retired(s, t, u)
<1>0. PICK X : X = {}
  OBVIOUS
<1>1. p \in Seq(Steps) /\ Len(p) \in Nat /\ \A k \in 1..Len(p) : p[k] \in Wipes
  <2>1. Wipes \subseteq Steps
    BY DEF Wipes
  <2> QED BY <2>1
<1>2. q \in Seq(Steps) /\ Len(q) = Len(p) /\ \A k \in 1..Len(p) : q[k] = WithUndo(p[k], u)
  BY <1>1, OnFailureIs
<1>3. ASSUME NEW k \in 1..Len(q) PROVE BlankStep(q[k], u, X) /\ q[k].k = "data"
  <2>1. PICK st : st = p[k]
    OBVIOUS
  <2>2. st \in Steps /\ st.k = "data" /\ (\A j \in DOMAIN st.u : st.u[j] \in Blanks) /\ q[k] = WithUndo(st, u)
    BY <1>1, <1>2, <2>1 DEF Wipes
  <2>3. WithUndo(st, u).undo = u /\ WithUndo(st, u).k = "data" /\ WithUndo(st, u).u = st.u
    BY <2>2, UndoTypes DEF WithUndo
  <2> QED BY <2>2, <2>3 DEF BlankStep
<1>4. \/ \E k \in 1..Len(q) : q[k].k = "refuse"
      \/ \E t : Exec(s, q, t, X) /\ Good(t, X) /\ Wiped(s, t, q, Len(q)) /\ (X # {} \/ CanUndo(t, u))
  <2>1. Good(s, X) /\ (X # {} \/ CanUndo(s, u)) /\ \A k \in 1..Len(q) : BlankStep(q[k], u, X)
    BY <1>0, <1>3
  <2> QED BY <1>2, <2>1, ExecBlanks
<1>5. PICK t : Exec(s, q, t, X) /\ Good(t, X) /\ Wiped(s, t, q, Len(q)) /\ CanUndo(t, u)
  BY <1>0, <1>3, <1>4
<1>6. t.core = s.core
  <2>1. s.core \in [Slots -> Inodes] /\ t.core \in [Slots -> Inodes]
    BY <1>5, GoodFacts
  <2>2. \A i \in Slots : t.core[i] = s.core[i]
    BY <1>3, <1>5 DEF Wiped
  <2> QED BY <2>1, <2>2
<1>7. Retired(s, t, u)
  BY <1>0, <1>5, <1>6 DEF Retired, Wiped
<1> QED BY <1>0, <1>5, <1>7

(* The entry set of fat_dir_add, at the records at-w+1..at of cluster c.   *)
SetPatch(n, entry, w, at) == [j \in (at - w + 1)..at |-> IF j = at THEN entry ELSE Lfn(n)]

(* The units that an entry set writes: only the last is an entry.          *)
LEMMA SetPatchIs ==
  ASSUME NEW n \in Names, NEW entry \in Entries, NEW w \in Nat \ {0}, NEW at \in 1..UNITS, at - w + 1 >= 1,
         NEW u, u = SetPatch(n, entry, w, at)
  PROVE  /\ u \in Patches /\ at \in DOMAIN u /\ u[at] = entry
         /\ \A j \in DOMAIN u : j = at \/ u[j] \in Blanks
<1>1. PICK J : J = (at - w + 1)..at
  OBVIOUS
<1>2. J \in SUBSET (1..UNITS) /\ at \in J
  BY <1>1, ConstFacts
<1>3. u = [j \in J |-> IF j = at THEN entry ELSE Lfn(n)]
  BY <1>1 DEF SetPatch
<1>4. entry \in Units /\ Lfn(n) \in Units /\ Lfn(n) \in Blanks
  BY BlankUnits DEF Units
<1>5. u \in [J -> Units] /\ DOMAIN u = J
  BY <1>3, <1>4
<1>6. u \in Patches
  BY <1>2, <1>5 DEF Patches
<1> QED BY <1>2, <1>3, <1>4, <1>6

(* The cluster an entry brings with it is the one its failure would free.  *)
Brings(entry, u) == entry.first \in Clus => u = <<SetFat(entry.first, FREE, "low")>>

(* What the new entry brings is reserved for it.                           *)
LEMMA BringsReserved ==
  ASSUME NEW s, NEW u, CanUndo(s, u), NEW a \in Clus, u = <<SetFat(a, FREE, "low")>>
  PROVE  Reserved(s, a)
<1>1. u # <<>>
  OBVIOUS
<1>2. PICK c \in Clus : u = <<SetFat(c, FREE, "low")>> /\ Reserved(s, c)
  BY <1>1 DEF CanUndo
<1>3. SetFat(c, FREE, "low") = SetFat(a, FREE, "low")
  BY <1>2
<1>4. c = a
  <2>1. SetFat(c, FREE, "low").c = c /\ SetFat(a, FREE, "low").c = a
    BY DEF SetFat
  <2> QED BY <1>3, <2>1
<1> QED BY <1>2, <1>4

(* The entry set is in the directory.                                      *)
Placed(s, t, c, at, entry) ==
  /\ Good(t, {}) /\ t.fat = s.fat /\ t.core = s.core
  /\ t.dat[c][at] = entry

(* Writing an entry set into a cluster of the directory.                   *)
LEMMA SetExec ==
  ASSUME NEW s, Good(s, {}), NEW u \in Undos, CanUndo(s, u), NEW n \in Names,
         NEW entry \in Entries, Brings(entry, u),
         NEW w \in Nat \ {0}, NEW at \in 1..UNITS, at - w + 1 >= 1, NEW c \in Clus,
         NEW x, x = Data(c, SetPatch(n, entry, w, at)), NEW p, p = OnFailure(<<x>>, u)
  PROVE  x \in Steps /\ \E t : Exec(s, p, t, {}) /\ Placed(s, t, c, at, entry)
<1>0. PICK X, v, st, a : X = {} /\ v = SetPatch(n, entry, w, at) /\ st = WithUndo(x, u) /\ a = entry.first
  OBVIOUS
<1>1. /\ v \in Patches /\ at \in DOMAIN v /\ v[at] = entry /\ \A j \in DOMAIN v : j = at \/ v[j] \in Blanks
  BY <1>0, SetPatchIs
<1>2. x \in Steps /\ x.k = "data" /\ x.c = c /\ x.u = v
  BY <1>0, <1>1, StepTypes DEF Data
<1>3. st \in Steps /\ st.k = "data" /\ st.c = c /\ st.u = v /\ st.undo = u /\ p = <<st>>
  BY <1>0, <1>2, UndoTypes, OnFailureOne DEF WithUndo
<1>4. PICK Z : Z = IF a \in Clus THEN {<<<<c, at>>, a>>} ELSE {}
  OBVIOUS
<1>5. Z \in SUBSET AllClaims
  BY <1>4 DEF AllClaims, Places
<1>6. \A j \in DOMAIN st.u : IsEntry(st.u[j]) /\ st.u[j].first \in Clus => <<<<st.c, j>>, st.u[j].first>> \in Z
  BY <1>0, <1>1, <1>3, <1>4, BlanksAre
<1>7. (\A F \in s.tabs : Sound(F, s.ent \cup Z)) /\ Sound(s.fat, (s.ent \cup CoreClaims(s.fat, s.core, X)) \cup Z)
  <2>0. /\ s.fat \in s.tabs /\ s.tabs \in SUBSET Tables /\ s.ent \in SUBSET AllClaims
        /\ (\A F \in s.tabs : Sound(F, s.ent))
        /\ s.ent \cup CoreClaims(s.fat, s.core, X) \in SUBSET AllClaims
        /\ Sound(s.fat, s.ent \cup CoreClaims(s.fat, s.core, X))
    BY <1>0, GoodFacts DEF Good
  <2>1. CASE a \notin Clus
    <3>1. Z = {}
      BY <1>4, <2>1
    <3> QED BY <2>0, <3>1
  <2>2. CASE a \in Clus
    <3>1. Reserved(s, a)
      BY <1>0, <2>2, BringsReserved DEF Brings
    <3>2. PICK o : o = <<c, at>>
      OBVIOUS
    <3>3. Z = {<<o, a>>}
      BY <1>4, <2>2, <3>2
    <3>4. ASSUME NEW F \in s.tabs PROVE Sound(F, s.ent \cup {<<o, a>>})
      <4>1. F \in Tables /\ Sound(F, s.ent) /\ F[a] = EOC /\ Unowned(F, s.ent, a)
        BY <2>0, <3>1 DEF Reserved
      <4>2. PICK E : E = s.ent
        OBVIOUS
      <4>3. E \in SUBSET AllClaims /\ Sound(F, E) /\ Unowned(F, E, a)
        BY <2>0, <4>1, <4>2
      <4>4. Sound(F, E \cup {<<o, a>>})
        BY <2>2, <4>1, <4>3, SoundAdd
      <4> QED BY <4>2, <4>4
    <3>5. Sound(s.fat, (s.ent \cup CoreClaims(s.fat, s.core, X)) \cup {<<o, a>>})
      <4>1. PICK F, E : F = s.fat /\ E = s.ent \cup CoreClaims(s.fat, s.core, X)
        OBVIOUS
      <4>2. F \in Tables /\ E \in SUBSET AllClaims /\ Sound(F, E) /\ F[a] = EOC /\ Unowned(F, E, a)
        BY <1>0, <2>0, <3>1, <4>1 DEF Reserved
      <4>3. Sound(F, E \cup {<<o, a>>})
        BY <2>2, <4>2, SoundAdd
      <4> QED BY <4>1, <4>3
    <3> QED BY <3>3, <3>4, <3>5
  <2> QED BY <2>1, <2>2
<1>8. PICK t : Patched(s, st, t, X, Z)
  <2>1. st.k \in {"data", "xfer"} /\ Good(s, X)
    BY <1>0, <1>3
  <2> QED BY <1>3, <1>5, <1>6, <1>7, <2>1, MoveData
<1>9. Placed(s, t, c, at, entry)
  BY <1>0, <1>1, <1>3, <1>8 DEF Placed, Patched
<1>10. Exec(s, p, t, {})
  <2>1. Moves(s, st, t, {})
    <3>1. Undoable(s, st.undo)
      BY <1>3, CanUndoIs
    <3> QED BY <1>0, <1>3, <1>8, <3>1 DEF Moves, Patched
  <2> QED BY <1>3, <2>1, ExecOne
<1> QED BY <1>2, <1>9, <1>10

(* What is reserved stays so while another cluster is linked behind the    *)
(* directory's last.                                                       *)
LEMMA ReservedLink ==
  ASSUME NEW s, NEW t, NEW c, Reserved(s, c), s.tabs = {s.fat}, NEW x, NEW y, c # x, c # y,
         NEW F, F = s.fat, F \in Tables, NEW G, G = [F EXCEPT ![x] = y], t.fat = G, t.tabs = s.tabs \cup {G}, t.ent = s.ent,
         CoreClaims(t.fat, t.core, {}) = CoreClaims(s.fat, s.core, {}),
         Grown(F, G, Held(s, {}), x, y)
  PROVE  Reserved(t, c)
<1>1. PICK E : E = Held(s, {})
  OBVIOUS
<1>2. c \in Clus /\ F[c] = EOC /\ Unowned(F, E, c) /\ Unowned(F, s.ent, c)
  BY <1>1 DEF Reserved, Held
<1>3. G[c] = EOC
  BY <1>2 DEF Tables
<1>4. Unowned(G, E, c)
  <2> SUFFICES ASSUME NEW z \in E \cup {RootClaim} PROVE c \notin Own(G, z[2])
    BY DEF Unowned
  <2>1. c \notin Own(F, z[2])
    BY <1>2 DEF Unowned
  <2>2. Own(G, z[2]) = IF x \in Own(F, z[2]) THEN Own(F, z[2]) \cup {y} ELSE Own(F, z[2])
    BY <1>1 DEF Grown
  <2> QED BY <2>1, <2>2
<1>5. s.ent \subseteq E
  BY <1>1 DEF Held
<1>6. Unowned(G, s.ent, c)
  BY <1>4, <1>5, UnownedSub
<1>7. \A H \in t.tabs : H[c] = EOC /\ Unowned(H, t.ent, c)
  BY <1>2, <1>3, <1>6
<1>8. Unowned(t.fat, t.ent \cup CoreClaims(t.fat, t.core, {}), c)
  BY <1>1, <1>4 DEF Held
<1> QED BY <1>2, <1>7, <1>8 DEF Reserved

(* fat_dir_add has extended the directory by cluster y.                    *)
Extended(s, t, u, y) ==
  /\ Good(t, {}) /\ t.core = s.core /\ CanUndo(t, u)
  /\ Chain(t.fat, Root) = Append(Chain(s.fat, Root), y)

ExtendSteps(x, y) == Alloc(y) \o <<Barrier, SetFat(x, y, "keep")>>

(* fat_dir_extend: a zeroed cluster is linked behind the directory.        *)
LEMMA ExtendExec ==
  ASSUME NEW s, Good(s, {}), NEW u \in Undos, CanUndo(s, u), NEW y \in Clus, s.fat[y] = FREE,
         NEW ch, ch = Chain(s.fat, Root), NEW x, x = Last(ch),
         NEW p, p = ExtendSteps(x, y)
  PROVE  p \in Seq(Steps) /\ \E t : Exec(s, OnFailure(p, u), t, {}) /\ Extended(s, t, u, y)
<1>0. PICK X, F : X = {} /\ F = s.fat
  OBVIOUS
<1>1. ch \in Seq(Clus) /\ Path(F, ch) /\ F \in Tables
  BY <1>0, GoodFacts
<1>2. x \in Clus /\ F[x] = EOC /\ x \in Own(F, Root) /\ x # y
  <2>1. Len(ch) \in 1..Len(ch) /\ x = ch[Len(ch)]
    BY <1>1 DEF Path, Last
  <2>2. x \in Clus /\ F[x] = EOC
    BY <1>1, <2>1 DEF Path
  <2>3. x \in Own(F, Root)
    BY <1>0, <1>1, <2>1 DEF Own, Range
  <2> QED BY <1>0, <2>2, <2>3, ConstFacts
<1>3. PICK a, b0, l0, b, l : /\ a = Alloc(y) /\ b0 = Barrier /\ l0 = SetFat(x, y, "keep")
                             /\ b = WithUndo(b0, u) /\ l = WithUndo(l0, u)
  OBVIOUS
<1>4. a \in Seq(Steps) /\ b0 \in Steps /\ l0 \in Steps /\ b0.k = "barrier" /\ l0.k = "fat" /\ l0.c = x /\ l0.v = y
  BY <1>2, <1>3, AllocSteps, StepTypes DEF Links, Barrier, SetFat
<1>5. b \in Steps /\ b.k = "barrier" /\ b.undo = u /\ l \in Steps /\ l.k = "fat" /\ l.c = x /\ l.v = y /\ l.undo = u
  BY <1>3, <1>4, UndoTypes DEF WithUndo
<1>6. PICK c, d : c = <<b0>> /\ d = <<l0>>
  OBVIOUS
<1>7. c \in Seq(Steps) /\ d \in Seq(Steps) /\ c \o d = <<b0, l0>>
  BY <1>4, <1>6, ThreeSteps
<1>8. PICK cd : cd = c \o d
  OBVIOUS
<1>9. cd \in Seq(Steps) /\ p = a \o cd /\ p \in Seq(Steps)
  BY <1>3, <1>4, <1>7, <1>8 DEF ExtendSteps
<1>10. OnFailure(p, u) = OnFailure(a, u) \o (<<b>> \o <<l>>)
  <2>1. OnFailure(a \o cd, u) = OnFailure(a, u) \o OnFailure(cd, u)
    BY <1>4, <1>9, OnFailureConcat
  <2>2. OnFailure(c \o d, u) = OnFailure(c, u) \o OnFailure(d, u)
    BY <1>7, OnFailureConcat
  <2>3. OnFailure(<<b0>>, u) = <<b>> /\ OnFailure(<<l0>>, u) = <<l>>
    BY <1>3, <1>4, OnFailureOne
  <2> QED BY <1>6, <1>8, <1>9, <2>1, <2>2, <2>3
<1>11. PICK f : f = OnFailure(a, u)
  OBVIOUS
<1>12. PICK t : Exec(s, f, t, X) /\ Allocated(s, t, y) /\ CanUndo(t, u)
  BY <1>0, <1>3, <1>11, AllocExec
<1>13. PICK r : Moves(t, b, r, X) /\ Flushed(t, b, r, X) /\ CanUndo(r, u)
  <2>1. Good(t, X) /\ (X # {} \/ CanUndo(t, b.undo))
    BY <1>0, <1>5, <1>12 DEF Allocated
  <2>2. \E r : Moves(t, b, r, X) /\ Flushed(t, b, r, X) /\ (X # {} \/ CanUndo(r, b.undo))
    BY <1>5, <2>1, MoveFlush
  <2> QED BY <1>0, <1>5, <2>2
<1>14. PICK H, E, G : H = r.fat /\ E = Held(r, X) /\ G = [H EXCEPT ![x] = y]
  OBVIOUS
<1>15. /\ Good(r, X) /\ H = [F EXCEPT ![y] = EOC] /\ r.tabs = {H} /\ r.core = s.core /\ H = t.fat
       /\ E \subseteq Held(t, X)
  <2>1. Good(r, X) /\ r.fat = t.fat /\ r.tabs = {t.fat} /\ r.ent \subseteq t.ent /\ r.core = t.core
    BY <1>13 DEF Flushed
  <2>2. t.fat = [F EXCEPT ![y] = EOC] /\ t.core = s.core
    BY <1>0, <1>12 DEF Allocated
  <2>3. CoreClaims(r.fat, r.core, X) = CoreClaims(t.fat, t.core, X)
    BY <2>1
  <2>4. E = r.ent \cup CoreClaims(r.fat, r.core, X)
    BY <1>14 DEF Held
  <2>5. E \subseteq Held(t, X)
    BY <2>1, <2>3, <2>4 DEF Held
  <2>6. H = r.fat
    BY <1>14
  <2>7. Good(r, X) /\ r.tabs = {H} /\ H = t.fat
    BY <2>1, <2>6
  <2>8. H = [F EXCEPT ![y] = EOC] /\ r.core = s.core
    BY <2>1, <2>2, <2>6
  <2> QED BY <2>5, <2>7, <2>8
<1>16. H \in Tables /\ E \in SUBSET AllClaims /\ Sound(H, E)
  <2>1. Good(r, X)
    BY <1>15
  <2>2. /\ r.fat \in Tables /\ r.ent \cup CoreClaims(r.fat, r.core, X) \in SUBSET AllClaims
        /\ Sound(r.fat, r.ent \cup CoreClaims(r.fat, r.core, X))
    BY <2>1, GoodFacts
  <2>3. H = r.fat /\ E = r.ent \cup CoreClaims(r.fat, r.core, X)
    BY <1>14 DEF Held
  <2> QED BY <2>2, <2>3
<1>17. H[x] = EOC /\ H[y] = EOC
  BY <1>1, <1>2, <1>15 DEF Tables
<1>18. Unowned(H, E, y)
  <2>1. Unowned(H, Held(t, X), y)
    BY <1>0, <1>12, <1>15 DEF Allocated
  <2> QED BY <1>15, <2>1, UnownedSub
<1>19. G \in Tables /\ Sound(G, E) /\ Grown(H, G, E, x, y)
  BY <1>2, <1>14, <1>16, <1>17, <1>18, SoundLink
<1>20. Chain(H, Root) = ch
  BY <1>12, <1>15, RootIs DEF Allocated
<1>21. Chain(G, Root) = Append(ch, y)
  <2>1. RootClaim \in E \cup {RootClaim} /\ x \in Own(H, Root)
    BY <1>0, <1>2, <1>20 DEF Own
  <2>2. Chain(G, RootClaim[2]) = IF x \in Own(H, RootClaim[2]) THEN Append(Chain(H, RootClaim[2]), y) ELSE Chain(H, RootClaim[2])
    BY <1>19, <2>1 DEF Grown
  <2> QED BY <1>20, <2>1, <2>2, RootIs
<1>22. RootGrows(H, G)
  <2>1. PICK g : g = Append(ch, y)
    OBVIOUS
  <2>2. Len(g) = Len(ch) + 1 /\ Len(ch) \in Nat /\ \A k \in 1..Len(ch) : g[k] = ch[k]
    BY <1>1, <2>1
  <2>3. Len(ch) <= Len(g)
    BY <2>2
  <2> QED BY <1>20, <1>21, <2>1, <2>2, <2>3 DEF RootGrows
<1>23. PICK q : Tabled(r, l, q, X, G)
  <2>1. G = SetIn(r.fat, l)
    BY <1>5, <1>14 DEF SetIn
  <2>2. Sound(G, r.ent \cup CoreClaims(r.fat, r.core, X)) /\ RootGrows(r.fat, G)
    BY <1>14, <1>19, <1>22 DEF Held
  <2> QED BY <1>5, <1>15, <2>1, <2>2, MoveFat
<1>24. CanUndo(q, u)
  <2>1. CASE u = <<>>
    BY <2>1 DEF CanUndo
  <2>2. CASE u # <<>>
    <3>1. PICK m \in Clus : u = <<SetFat(m, FREE, "low")>> /\ Reserved(s, m)
      BY <2>2 DEF CanUndo
    <3>2. Reserved(r, m)
      BY <1>13, <3>1, BringsReserved
    <3>3. m # y
      <4>1. s.fat[m] = EOC
        BY <3>1, GoodFacts DEF Reserved
      <4> QED BY <4>1, ConstFacts
    <3>4. m # x
      <4>1. Unowned(s.fat, s.ent \cup CoreClaims(s.fat, s.core, {}), m)
        BY <3>1 DEF Reserved
      <4>2. m \notin Own(F, Root)
        BY <1>0, <4>1, RootIs DEF Unowned
      <4> QED BY <1>2, <4>2
    <3>5. Reserved(q, m)
      <4>1. q.fat = G /\ q.tabs = r.tabs \cup {G} /\ q.ent = r.ent /\ CoreClaims(q.fat, q.core, {}) = CoreClaims(r.fat, r.core, {})
        BY <1>0, <1>23 DEF Tabled
      <4>2. r.tabs = {r.fat} /\ H = r.fat /\ G = [H EXCEPT ![x] = y] /\ Grown(H, G, Held(r, {}), x, y)
        BY <1>0, <1>14, <1>15, <1>19
      <4> QED BY <1>16, <3>2, <3>3, <3>4, <4>1, <4>2, ReservedLink
    <3> QED BY <3>1, <3>5 DEF CanUndo
  <2> QED BY <2>1, <2>2
<1>25. Exec(r, <<l>>, q, X)
  <2>1. Does(r, l, q) /\ Good(q, X) /\ Good(r, {}) /\ CanUndo(r, l.undo) /\ CanUndo(q, l.undo)
    BY <1>0, <1>5, <1>13, <1>15, <1>23, <1>24 DEF Tabled
  <2>2. Moves(r, l, q, X)
    BY <1>5, <2>1, MovesIf
  <2> QED BY <2>2, ExecOne
<1>26. Exec(t, <<b>>, r, X)
  BY <1>13, ExecOne
<1>27. Exec(t, <<b>> \o <<l>>, q, X)
  <2>1. PICK g, h : g = <<b>> /\ h = <<l>>
    OBVIOUS
  <2>2. Exec(t, g \o h, q, X)
    BY <1>25, <1>26, <2>1, ExecExec
  <2> QED BY <2>1, <2>2
<1>28. Exec(s, OnFailure(p, u), q, X)
  <2>1. PICK g : g = <<b>> \o <<l>>
    OBVIOUS
  <2>2. Exec(s, f \o g, q, X)
    BY <1>12, <1>27, <2>1, ExecExec
  <2> QED BY <1>10, <1>11, <2>1, <2>2
<1>29. Extended(s, q, u, y)
  <2>1. q.core = s.core /\ q.fat = G /\ Good(q, X)
    BY <1>15, <1>23 DEF Tabled
  <2> QED BY <1>0, <1>21, <1>24, <2>1 DEF Extended
<1> QED BY <1>0, <1>9, <1>28, <1>29

(* Steps with nothing to undo.                                             *)
Plain == {st \in Steps : st.undo = <<>>}

(* A sequence of such steps is what a failure with nothing to undo makes   *)
(* of it.                                                                  *)
LEMMA PlainIs ==
  ASSUME NEW p \in Seq(Plain)
  PROVE  p \in Seq(Steps) /\ OnFailure(p, <<>>) = p
<1>1. Plain \subseteq Steps /\ \A st \in Plain : st.undo = <<>>
  BY DEF Plain
<1>2. p \in Seq(Steps) /\ \A k \in 1..Len(p) : p[k].undo = <<>>
  BY <1>1
<1> QED BY <1>2, OnFailureNone

(* What the steps of fat_dir_add may be: the records retired in r, and     *)
(* then the set at unit at of the directory's k-th cluster, which may be   *)
(* a new one, or a refusal.                                                *)
AddTo(F, n, entry, k, at, r, rest) ==
  LET ch == Chain(F, Root)
  IN /\ k \in 1..(Len(ch) + 1) /\ at \in 1..UNITS /\ at - Width[n] + 1 >= 1
     /\ r = FlattenSeq([j \in 1..(k - 1) |-> Retire(ch[j])])
     /\ \/ k \in 1..Len(ch) /\ rest = <<Data(ch[k], SetPatch(n, entry, Width[n], at))>>
        \/ rest = <<Refuse>>
        \/ \E y \in Clus :
             /\ F[y] = FREE /\ k = Len(ch) + 1
             /\ rest = ExtendSteps(Last(ch), y) \o <<Data(y, SetPatch(n, entry, Width[n], at))>>

(* The cases of fat_dir_add: where the set goes and what comes before.     *)
LEMMA DirAddIs ==
  ASSUME NEW F \in Tables, NEW h \in Clus, NEW n \in Names, NEW entry,
         Chain(F, Root) \in Seq(Clus), NEW add, add = DirAdd(n, entry, F, h)
  PROVE  \E k, at, r, rest : /\ AddTo(F, n, entry, k, at, r, rest)
                             /\ add.index = (k - 1) * UNITS + at /\ add.steps = r \o rest
<1>0. PICK ch, w, free, fits : /\ ch = Chain(F, Root) /\ w = Width[n] /\ free = FreeFrom(F, h)
                               /\ fits = {k \in DOMAIN ch : FreeRun(now[ch[k]], w) # {}}
  OBVIOUS
<1>1. PICK k : k = IF fits = {} THEN Len(ch) + 1 ELSE Min(fits)
  OBVIOUS
<1>2. PICK at : at = IF fits = {} THEN w ELSE Min(FreeRun(now[ch[k]], w))
  OBVIOUS
<1>3. PICK r : r = FlattenSeq([j \in 1..(k - 1) |-> Retire(ch[j])])
  OBVIOUS
<1>4. PICK rest : rest = IF fits # {} THEN <<Data(ch[k], SetPatch(n, entry, w, at))>>
                         ELSE IF free = <<>> THEN <<Refuse>>
                         ELSE ExtendSteps(Last(ch), free[1]) \o <<Data(free[1], SetPatch(n, entry, w, at))>>
  OBVIOUS
<1>5. add = [index |-> (k - 1) * UNITS + at, steps |-> r \o rest]
  BY <1>0, <1>1, <1>2, <1>3, <1>4, ZenonT(60) DEF DirAdd, DirExtend, ExtendSteps, SetPatch
<1>6. add.index = (k - 1) * UNITS + at /\ add.steps = r \o rest
  BY <1>5
<1>7. w \in 1..UNITS /\ UNITS \in Nat
  BY <1>0, FatConstants
<1>8. Len(ch) \in Nat /\ DOMAIN ch = 1..Len(ch) /\ ch \in Seq(Clus)
  BY <1>0
<1>9. CASE fits = {}
  <2>1. k = Len(ch) + 1 /\ at = w
    BY <1>1, <1>2, <1>9
  <2>2. k \in 1..(Len(ch) + 1) /\ at \in 1..UNITS /\ at - w + 1 >= 1
    BY <1>7, <1>8, <2>1
  <2>3. CASE free = <<>>
    <3>1. rest = <<Refuse>>
      BY <1>4, <1>9, <2>3
    <3>2. AddTo(F, n, entry, k, at, r, rest)
      BY <1>0, <1>3, <2>2, <3>1 DEF AddTo
    <3> QED BY <1>6, <3>2
  <2>4. CASE free # <<>>
    <3>1. PICK y : y = free[1]
      OBVIOUS
    <3>2. free \in Seq(Clus) /\ \A j \in 1..Len(free) : F[free[j]] = FREE
      BY <1>0, FreeFromIs
    <3>3. 1 \in 1..Len(free) /\ y \in Clus /\ F[y] = FREE
      BY <2>4, <3>1, <3>2
    <3>4. rest = ExtendSteps(Last(ch), y) \o <<Data(y, SetPatch(n, entry, w, at))>>
      BY <1>4, <1>9, <2>4, <3>1
    <3>5. AddTo(F, n, entry, k, at, r, rest)
      BY <1>0, <1>3, <2>1, <2>2, <3>3, <3>4 DEF AddTo
    <3> QED BY <1>6, <3>5
  <2> QED BY <2>3, <2>4
<1>10. CASE fits # {}
  <2>1. fits \in SUBSET Nat
    BY <1>0, <1>8
  <2>2. k \in fits
    BY <1>1, <1>10, <2>1, LeastOf
  <2>3. PICK runs : runs = FreeRun(now[ch[k]], w)
    OBVIOUS
  <2>4. k \in 1..Len(ch) /\ runs # {}
    BY <1>0, <1>8, <2>2, <2>3
  <2>5. runs \in SUBSET Nat /\ \A j \in runs : j \in 1..UNITS /\ j - w + 1 >= 1
    BY <1>7, <2>3 DEF FreeRun
  <2>6. at \in runs
    BY <1>2, <1>10, <2>3, <2>4, <2>5, LeastOf
  <2>7. k \in 1..(Len(ch) + 1) /\ at \in 1..UNITS /\ at - w + 1 >= 1
    BY <1>8, <2>4, <2>5, <2>6
  <2>8. rest = <<Data(ch[k], SetPatch(n, entry, w, at))>>
    BY <1>4, <1>10
  <2>9. AddTo(F, n, entry, k, at, r, rest)
    BY <1>0, <1>3, <2>4, <2>7, <2>8 DEF AddTo
  <2> QED BY <1>6, <2>9
<1> QED BY <1>9, <1>10

(* The entry is in the directory, at index i.                              *)
Added(s, t, i, entry) ==
  /\ Good(t, {}) /\ t.core = s.core /\ InRoot(t.fat, i)
  /\ \E c \in Clus, at \in 1..UNITS : SlotPlace(t.fat, i) = <<c, at>> /\ t.dat[c][at] = entry

(* The last step of fat_dir_add writes the entry set into the directory's  *)
(* k-th cluster.                                                           *)
LEMMA SetAdds ==
  ASSUME NEW r, NEW s, NEW a, Exec(r, a, s, {}), s.core = r.core,
         Good(s, {}), NEW u \in Undos, CanUndo(s, u), NEW n \in Names,
         NEW entry \in Entries, Brings(entry, u),
         NEW w \in Nat \ {0}, NEW at \in 1..UNITS, at - w + 1 >= 1,
         NEW k \in 1..Len(Chain(s.fat, Root)), NEW c, c = Chain(s.fat, Root)[k],
         NEW x, x = Data(c, SetPatch(n, entry, w, at)), NEW p, p = OnFailure(<<x>>, u),
         NEW i, i = (k - 1) * UNITS + at
  PROVE  x \in Plain /\ \E t : Exec(r, a \o p, t, {}) /\ Added(r, t, i, entry)
<1>1. PICK ch, F : F = s.fat /\ ch = Chain(F, Root)
  OBVIOUS
<1>2. F \in Tables /\ ch \in Seq(Clus) /\ Path(F, ch) /\ Len(ch) \in Nat /\ k \in 1..Len(ch) /\ c = ch[k] /\ c \in Clus
  <2>1. F \in Tables /\ ch \in Seq(Clus) /\ Path(F, ch)
    BY <1>1, GoodFacts
  <2> QED BY <1>1, <2>1
<1>3. x \in Steps /\ \E t : Exec(s, p, t, {}) /\ Placed(s, t, c, at, entry)
  BY <1>2, SetExec
<1>4. x \in Plain
  BY <1>3 DEF Plain, Data
<1>5. PICK t : Exec(s, p, t, {}) /\ Placed(s, t, c, at, entry)
  BY <1>3
<1>6. Exec(r, a \o p, t, {})
  BY <1>5, ExecExec
<1>7. t.fat = F /\ Good(t, {}) /\ t.core = r.core /\ t.dat[c][at] = entry
  BY <1>1, <1>5 DEF Placed
<1>8. k \in Nat \ {0} /\ UNITS \in Nat
  <2>1. Len(ch) \in Nat /\ k \in 1..Len(ch)
    BY <1>2
  <2>2. UNITS \in Nat
    BY ConstFacts
  <2> QED BY <2>1, <2>2
<1>9. i \in Nat /\ i >= 1 /\ 1 + ((i - 1) \div UNITS) = k /\ 1 + ((i - 1) % UNITS) = at /\ i <= k * UNITS
  <2>1. i = Index(k, at)
    BY DEF Index
  <2>2. Position(i, k, at)
    BY <1>8, <2>1, PositionAt
  <2> QED BY <2>2 DEF Position
<1>10. \A a1, b1, u1 \in Nat : a1 <= b1 => a1 * u1 <= b1 * u1
  BY TimesGrows
<1>11. k * UNITS <= Len(ch) * UNITS /\ k * UNITS \in Nat /\ Len(ch) * UNITS \in Nat
  <2>1. PICK L, U : L = Len(ch) /\ U = UNITS
    OBVIOUS
  <2>2. L \in Nat /\ U \in Nat /\ k \in Nat /\ k <= L
    BY <1>2, <1>8, <2>1
  <2>3. k * U <= L * U /\ k * U \in Nat /\ L * U \in Nat
    BY <1>10, <2>2
  <2> QED BY <2>1, <2>3
<1>12. i \in 1..(Len(ch) * UNITS)
  BY <1>9, <1>11
<1>13. InRoot(t.fat, i)
  BY <1>1, <1>7, <1>12 DEF InRoot
<1>14. SlotPlace(t.fat, i) = <<c, at>>
  BY <1>1, <1>2, <1>7, <1>9 DEF SlotPlace
<1>15. Added(r, t, i, entry)
  BY <1>2, <1>7, <1>13, <1>14 DEF Added
<1> QED BY <1>4, <1>6, <1>15

(* The steps of fat_dir_add, p: they refuse, or the entry is in place.     *)
AddSafe(s, q, i, entry) ==
  \/ \A z \in Seq(Steps) : Safe(s, q \o z, {})
  \/ \E t : Exec(s, q, t, {}) /\ Added(s, t, i, entry)

(* fat_dir_add runs safely, and the new entry claims what it brings.       *)
LEMMA DirAddExec ==
  ASSUME NEW s, Good(s, {}), NEW F, F = s.fat, NEW h \in Clus, NEW n \in Names, NEW entry \in Entries,
         NEW u \in Undos, CanUndo(s, u), Brings(entry, u),
         NEW add, add = DirAdd(n, entry, F, h), NEW p, p = add.steps, NEW q, q = OnFailure(p, u)
  PROVE  p \in Seq(Plain) /\ AddSafe(s, q, add.index, entry) /\ add.index \in Nat
<1>0. PICK ch, w, i : ch = Chain(F, Root) /\ w = Width[n] /\ i = add.index
  OBVIOUS
<1>1. F \in Tables /\ ch \in Seq(Clus) /\ Path(F, ch) /\ Len(ch) \in Nat /\ Len(ch) >= 1
  <2>1. F \in Tables /\ ch \in Seq(Clus) /\ Path(F, ch)
    BY <1>0, GoodFacts
  <2> QED BY <2>1 DEF Path
<1>2. PICK k, at, r, rest : AddTo(F, n, entry, k, at, r, rest) /\ i = (k - 1) * UNITS + at /\ p = r \o rest
  <2>1. Chain(F, Root) \in Seq(Clus)
    BY <1>0, <1>1
  <2> QED BY <1>0, <1>1, <2>1, DirAddIs, SMTT(30)
<1>3. /\ k \in 1..(Len(ch) + 1) /\ at \in 1..UNITS /\ at - w + 1 >= 1
      /\ r = FlattenSeq([j \in 1..(k - 1) |-> Retire(ch[j])])
      /\ w \in Nat \ {0}
  <2>1. w \in 1..UNITS /\ UNITS \in Nat
    BY <1>0, FatConstants
  <2> QED BY <1>0, <1>2, <2>1 DEF AddTo
<1>13. i \in Nat
  <2>1. k \in Nat \ {0}
    BY <1>1, <1>3
  <2>2. i = Index(k, at) /\ at \in 1..UNITS
    BY <1>2, <1>3 DEF Index
  <2>3. Position(i, k, at)
    BY <2>1, <2>2, PositionAt
  <2> QED BY <2>3 DEF Position
<1>4. r \in Seq(Wipes) /\ r \in Seq(Steps)
  <2>1. PICK m : m = k - 1
    OBVIOUS
  <2>2. m \in Nat /\ m <= Len(ch) /\ r = FlattenSeq([j \in 1..m |-> Retire(ch[j])])
    BY <1>1, <1>3, <2>1
  <2> QED BY <1>1, <2>2, RetiredIs
<1>5. r \in Seq(Plain)
  <2>1. Wipes \subseteq Plain
    BY DEF Wipes, Plain
  <2> QED BY <1>4, <2>1
<1>6. PICK a : a = OnFailure(r, u)
  OBVIOUS
<1>7. PICK t : Exec(s, a, t, {}) /\ Retired(s, t, u)
  BY <1>4, <1>6, RetireExec
<1>8. Good(t, {}) /\ t.fat = F /\ t.core = s.core /\ CanUndo(t, u) /\ Chain(t.fat, Root) = ch
  BY <1>0, <1>7 DEF Retired
<1>9. ASSUME rest \in Seq(Plain) PROVE p \in Seq(Plain) /\ q = a \o OnFailure(rest, u)
  <2>1. rest \in Seq(Steps)
    BY <1>9, PlainIs
  <2>2. OnFailure(r \o rest, u) = OnFailure(r, u) \o OnFailure(rest, u)
    BY <1>4, <2>1, OnFailureConcat
  <2>3. r \o rest \in Seq(Plain)
    BY <1>5, <1>9
  <2> QED BY <1>2, <1>6, <2>2, <2>3
<1>10. CASE k \in 1..Len(ch) /\ rest = <<Data(ch[k], SetPatch(n, entry, w, at))>>
  <2>1. PICK c, x, b : c = ch[k] /\ x = Data(c, SetPatch(n, entry, w, at)) /\ b = OnFailure(<<x>>, u)
    OBVIOUS
  <2>2. k \in 1..Len(Chain(t.fat, Root)) /\ c = Chain(t.fat, Root)[k]
    BY <1>8, <1>10, <2>1
  <2>3. x \in Plain /\ \E e : Exec(s, a \o b, e, {}) /\ Added(s, e, i, entry)
    BY <1>2, <1>3, <1>7, <1>8, <2>1, <2>2, SetAdds
  <2>4. rest = <<x>>
    BY <1>10, <2>1
  <2>5. rest \in Seq(Plain)
    BY <2>3, <2>4
  <2>6. p \in Seq(Plain) /\ q = a \o b
    BY <1>9, <2>1, <2>4, <2>5
  <2>7. AddSafe(s, q, i, entry)
    BY <2>3, <2>6 DEF AddSafe
  <2> QED BY <1>0, <1>13, <2>6, <2>7
<1>11. CASE rest = <<Refuse>>
  <2>1. PICK x, st, b : x = Refuse /\ st = WithUndo(x, u) /\ b = <<st>>
    OBVIOUS
  <2>2. x \in Steps /\ x.k = "refuse" /\ x.undo = <<>>
    BY <2>1, StepTypes DEF Refuse
  <2>3. st \in Steps /\ st.k = "refuse" /\ st.undo = u
    BY <2>1, <2>2, UndoTypes DEF WithUndo
  <2>4. rest \in Seq(Plain)
    <3>1. x \in Plain
      BY <2>2 DEF Plain
    <3> QED BY <1>11, <2>1, <3>1
  <2>5. p \in Seq(Plain) /\ q = a \o b
    <3>1. OnFailure(<<x>>, u) = b
      BY <2>1, <2>2, OnFailureOne
    <3> QED BY <1>9, <1>11, <2>1, <2>4, <3>1
  <2>6. ASSUME NEW z \in Seq(Steps) PROVE Safe(s, q \o z, {})
    <3>1. Undoable(t, st.undo)
      BY <1>8, <2>3, CanUndoIs
    <3>2. PICK y : y = b \o z
      OBVIOUS
    <3>3. Safe(t, y, {})
      BY <2>1, <2>3, <3>1, <3>2, SafeRefuse
    <3>4. Safe(s, a \o y, {})
      BY <1>7, <3>3, ExecSafe
    <3>5. a \in Seq(Steps) /\ b \in Seq(Steps)
      BY <1>7, <2>1, <2>3 DEF Exec
    <3>6. (a \o b) \o z = a \o (b \o z)
      BY <3>5, JoinAgain
    <3> QED BY <2>5, <3>2, <3>4, <3>6
  <2>7. AddSafe(s, q, i, entry)
    BY <2>6 DEF AddSafe
  <2> QED BY <1>0, <1>13, <2>5, <2>7
<1>12. CASE \E y \in Clus : /\ F[y] = FREE /\ k = Len(ch) + 1
                            /\ rest = ExtendSteps(Last(ch), y) \o <<Data(y, SetPatch(n, entry, w, at))>>
  <2>1. PICK y \in Clus : /\ F[y] = FREE /\ k = Len(ch) + 1
                          /\ rest = ExtendSteps(Last(ch), y) \o <<Data(y, SetPatch(n, entry, w, at))>>
    BY <1>12
  <2>2. PICK l, e, x, b : /\ l = Last(ch) /\ e = ExtendSteps(l, y) /\ x = Data(y, SetPatch(n, entry, w, at))
                          /\ b = OnFailure(<<x>>, u)
    OBVIOUS
  <2>3. t.fat[y] = FREE /\ ch = Chain(t.fat, Root)
    BY <1>8, <2>1
  <2>4. e \in Seq(Steps) /\ \E v : Exec(t, OnFailure(e, u), v, {}) /\ Extended(t, v, u, y)
    BY <1>8, <2>2, <2>3, ExtendExec
  <2>5. PICK d : d = OnFailure(e, u)
    OBVIOUS
  <2>6. PICK v : Exec(t, d, v, {}) /\ Extended(t, v, u, y)
    BY <2>4, <2>5
  <2>7. Good(v, {}) /\ v.core = s.core /\ CanUndo(v, u) /\ Chain(v.fat, Root) = Append(ch, y)
    BY <1>8, <2>3, <2>6 DEF Extended
  <2>8. k \in 1..Len(Chain(v.fat, Root)) /\ y = Chain(v.fat, Root)[k]
    <3>1. PICK g : g = Append(ch, y)
      OBVIOUS
    <3>2. Len(g) = Len(ch) + 1 /\ g[Len(ch) + 1] = y /\ Len(ch) \in Nat
      BY <1>1, <3>1
    <3>3. k \in 1..Len(g) /\ y = g[k]
      BY <2>1, <3>2
    <3> QED BY <2>7, <3>1, <3>3
  <2>9. PICK ad : ad = a \o d
    OBVIOUS
  <2>10. Exec(s, ad, v, {})
    BY <1>7, <2>6, <2>9, ExecExec
  <2>11. x \in Plain /\ \E f : Exec(s, ad \o b, f, {}) /\ Added(s, f, i, entry)
    BY <1>2, <1>3, <2>2, <2>7, <2>8, <2>10, SetAdds
  <2>12. e \in Seq(Plain)
    <3>1. l \in Clus
      <4>1. Len(ch) \in 1..Len(ch) /\ l = ch[Len(ch)]
        BY <1>1, <2>2 DEF Last
      <4> QED BY <1>1, <4>1
    <3>2. PICK a1, a2, a3, a4 : /\ a1 = Data(y, AllOf(Zero)) /\ a2 = SetFat(y, EOC, "next")
                                /\ a3 = Barrier /\ a4 = SetFat(l, y, "keep")
      OBVIOUS
    <3>3. a1 \in Steps /\ a2 \in Steps /\ a3 \in Steps /\ a4 \in Steps
      BY <3>1, <3>2, AllOfIs, BlanksAre, StepTypes DEF Links
    <3>4. a1.undo = <<>> /\ a2.undo = <<>> /\ a3.undo = <<>> /\ a4.undo = <<>>
      BY <3>2 DEF Data, SetFat, Barrier
    <3>5. a1 \in Plain /\ a2 \in Plain /\ a3 \in Plain /\ a4 \in Plain
      BY <3>3, <3>4 DEF Plain
    <3>6. e = <<a1, a2>> \o <<a3, a4>>
      BY <2>2, <3>2 DEF ExtendSteps, Alloc
    <3>7. <<a1, a2>> \in Seq(Plain) /\ <<a3, a4>> \in Seq(Plain)
      BY <3>5
    <3> QED BY <3>6, <3>7
  <2>13. PICK xx : xx = <<x>>
    OBVIOUS
  <2>14. xx \in Seq(Plain)
    BY <2>11, <2>13
  <2>15. rest = e \o xx /\ rest \in Seq(Plain)
    BY <2>1, <2>2, <2>12, <2>13, <2>14
  <2>16. OnFailure(rest, u) = d \o b
    <3>1. e \in Seq(Steps) /\ xx \in Seq(Steps)
      BY <2>12, <2>14, PlainIs
    <3>2. OnFailure(e \o xx, u) = OnFailure(e, u) \o OnFailure(xx, u)
      BY <3>1, OnFailureConcat
    <3> QED BY <2>2, <2>5, <2>13, <2>15, <3>2
  <2>17. p \in Seq(Plain) /\ q = a \o (d \o b)
    BY <1>9, <2>15, <2>16
  <2>18. a \o (d \o b) = ad \o b
    <3>1. a \in Seq(Steps) /\ d \in Seq(Steps)
      BY <1>7, <2>6 DEF Exec
    <3>2. b \in Seq(Steps)
      <4>1. xx \in Seq(Steps)
        BY <2>14, PlainIs
      <4> QED BY <2>2, <2>13, <4>1, OnFailureIs
    <3>3. (a \o d) \o b = a \o (d \o b)
      BY <3>1, <3>2, PlansJoin
    <3> QED BY <2>9, <3>3
  <2>19. q = ad \o b
    BY <2>17, <2>18
  <2>20. AddSafe(s, q, i, entry)
    BY <2>11, <2>19 DEF AddSafe
  <2> QED BY <1>0, <1>13, <2>17, <2>20
<1> QED BY <1>0, <1>2, <1>10, <1>11, <1>12 DEF AddTo

(* An inode made of an entry.                                              *)
LEMMA InodeOfIs ==
  ASSUME NEW e \in Entries
  PROVE  InodeOf(e) \in Inodes /\ InodeOf(e).first = e.first
<1>1. e.first \in Links /\ e.size \in Nat /\ 0 \in Links
  BY DEF Entries, Links, FREE
<1> QED BY <1>1 DEF InodeOf, Inodes

(* inode_get after the entry was added.                                    *)
LEMMA CachedSafe ==
  ASSUME NEW s, Good(s, {}), s.core = icache, NEW i, InRoot(s.fat, i), NEW c \in Clus, NEW at \in 1..UNITS,
         SlotPlace(s.fat, i) = <<c, at>>, NEW entry \in Entries, s.dat[c][at] = entry,
         NEW st, st = Cached(i, entry)
  PROVE  \E t : Moves(s, st, t, {}) /\ Good(t, {})
<1>0. PICK X, F, ch, in : /\ X = {} /\ F = s.fat /\ ch = Chain(F, Root)
                          /\ in = IF i \in Slots /\ icache[i] # NoInode THEN icache[i] ELSE InodeOf(entry)
  OBVIOUS
<1>1. i \in Slots
  <2>1. Path(F, ch) /\ Len(ch) \in Nat
    <3>1. Path(F, ch)
      BY <1>0, GoodFacts
    <3> QED BY <3>1 DEF Path
  <2>2. PICK L, U, C : L = Len(ch) /\ U = UNITS /\ C = CLUSTERS
    OBVIOUS
  <2>3. L \in Nat /\ U \in Nat /\ C \in Nat /\ L <= C
    BY <2>1, <2>2, PathShort, ConstFacts
  <2>4. \A a1, b1, u1 \in Nat : a1 <= b1 => a1 * u1 <= b1 * u1
    BY TimesGrows
  <2>5. L * U <= C * U /\ L * U \in Nat /\ C * U \in Nat
    BY <2>3, <2>4
  <2>6. i \in 1..(L * U)
    BY <1>0, <2>2 DEF InRoot
  <2>7. i \in 1..(C * U)
    BY <2>5, <2>6
  <2> QED BY <2>2, <2>7 DEF Slots
<1>2. icache \in [Slots -> Inodes] /\ i \in Nat
  <2>1. s.core \in [Slots -> Inodes]
    BY GoodFacts
  <2>2. i \in Nat
    BY <1>1, ConstFacts DEF Slots
  <2> QED BY <2>1, <2>2
<1>3. st = Core(i, in) /\ in \in Inodes
  <2>1. icache[i] \in Inodes
    BY <1>1, <1>2
  <2> QED BY <1>0, <2>1, InodeOfIs DEF Cached
<1>4. CASE in = s.core[i]
  <2>1. \E t : Moves(s, st, t, {}) /\ Cored(s, st, t, {})
    BY <1>1, <1>3, <1>4, CoreAgain
  <2> QED BY <2>1 DEF Cored
<1>5. CASE in # s.core[i]
  <2>1. in.first = entry.first
    BY <1>0, <1>5, InodeOfIs
  <2>2. st \in Steps /\ st.k = "core" /\ st.i = i /\ st.in = in /\ st.undo = <<>>
    BY <1>2, <1>3, StepTypes DEF Core
  <2>3. ASSUME st.in.first \in Clus
        PROVE  Sound(s.fat, (s.ent \cup CoreClaims(s.fat, s.core, X)) \cup {<<SlotPlace(s.fat, st.i), st.in.first>>})
    <3>1. PICK z, E : z = <<<<c, at>>, entry.first>> /\ E = s.ent \cup CoreClaims(s.fat, s.core, X)
      OBVIOUS
    <3>2. z = <<SlotPlace(s.fat, st.i), st.in.first>>
      BY <2>1, <2>2, <3>1
    <3>3. z \in AllClaims
      BY <2>1, <2>2, <2>3, <3>1 DEF AllClaims, Places
    <3>4. z \in DatClaims(s.dat)
      <4>1. IsEntry(entry)
        BY BlanksAre
      <4>2. z[1][1] = c /\ z[1][2] = at /\ z[2] = entry.first
        BY <3>1
      <4> QED BY <3>3, <4>1, <4>2 DEF DatClaims
    <3>5. DatClaims(s.dat) \subseteq s.ent
      BY DEF Good, SymType
    <3>6. E \cup {z} = E
      BY <3>1, <3>4, <3>5
    <3>7. Sound(s.fat, E)
      BY <1>0, <3>1, GoodFacts
    <3>8. Sound(s.fat, E \cup {z})
      BY <3>6, <3>7
    <3> QED BY <3>1, <3>2, <3>8
  <2>4. PICK t : Cored(s, st, t, X)
    <3>1. Good(s, X) /\ X \subseteq X \cup {st.i} /\ InRoot(s.fat, st.i)
      BY <1>0, <2>2
    <3> QED BY <2>2, <2>3, <3>1, MoveCore
  <2>5. Moves(s, st, t, {})
    <3>1. Undoable(s, st.undo)
      BY <2>2 DEF Undoable
    <3> QED BY <1>0, <2>2, <2>4, <3>1 DEF Moves, Cored
  <2> QED BY <1>0, <2>4, <2>5 DEF Cored
<1> QED BY <1>4, <1>5

(* A flush and inode_get end a create.                                     *)
LEMMA FinishSafe ==
  ASSUME NEW s, Good(s, {}), s.core = icache, NEW i \in Nat, NEW entry \in Entries,
         NEW q \in Seq(Steps), AddSafe(s, q, i, entry),
         NEW f, f = <<Barrier, Cached(i, entry)>>
  PROVE  f \in Seq(Steps) /\ Safe(s, q \o f, {})
<1>0. PICK X, b, st : X = {} /\ b = Barrier /\ st = Cached(i, entry)
  OBVIOUS
<1>1. b \in Steps /\ b.k = "barrier" /\ b.undo = <<>>
  BY <1>0, StepTypes DEF Barrier
<1>2. st \in Steps
  <2>1. icache \in [Slots -> Inodes]
    BY GoodFacts
  <2>2. PICK in : in = IF i \in Slots /\ icache[i] # NoInode THEN icache[i] ELSE InodeOf(entry)
    OBVIOUS
  <2>3. in \in Inodes
    BY <2>1, <2>2, InodeOfIs
  <2>4. st = Core(i, in)
    BY <1>0, <2>2 DEF Cached
  <2> QED BY <2>3, <2>4, StepTypes
<1>3. PICK bb, cc : bb = <<b>> /\ cc = <<st>>
  OBVIOUS
<1>4. bb \in Seq(Steps) /\ cc \in Seq(Steps) /\ f = bb \o cc /\ f \in Seq(Steps)
  <2>1. bb \in Seq(Steps) /\ cc \in Seq(Steps)
    BY <1>1, <1>2, <1>3
  <2>2. f = <<b, st>>
    BY <1>0
  <2>3. <<b>> \o <<st>> = <<b, st>>
    BY <1>1, <1>2, ThreeSteps
  <2>4. f \in Seq(Steps)
    BY <1>1, <1>2, <2>2
  <2> QED BY <1>3, <2>1, <2>2, <2>3, <2>4
<1>5. CASE \A z \in Seq(Steps) : Safe(s, q \o z, {})
  BY <1>4, <1>5
<1>6. CASE \E t : Exec(s, q, t, {}) /\ Added(s, t, i, entry)
  <2>1. PICK t : Exec(s, q, t, {}) /\ Added(s, t, i, entry)
    BY <1>6
  <2>2. PICK c \in Clus, at \in 1..UNITS : SlotPlace(t.fat, i) = <<c, at>> /\ t.dat[c][at] = entry
    BY <2>1 DEF Added
  <2>3. Good(t, {}) /\ t.core = icache /\ InRoot(t.fat, i)
    BY <2>1 DEF Added
  <2>4. PICK r : Moves(t, b, r, X) /\ Flushed(t, b, r, X)
    <3>1. Good(t, X) /\ CanUndo(t, b.undo)
      BY <1>0, <1>1, <2>3 DEF CanUndo
    <3> QED BY <1>1, <3>1, MoveFlush
  <2>5. r.fat = t.fat /\ r.dat = t.dat /\ r.core = t.core /\ Good(r, X)
    BY <2>4 DEF Flushed
  <2>6. Good(r, {}) /\ r.core = icache /\ InRoot(r.fat, i) /\ SlotPlace(r.fat, i) = <<c, at>> /\ r.dat[c][at] = entry
    BY <1>0, <2>2, <2>3, <2>5
  <2>7. PICK v : Moves(r, st, v, {}) /\ Good(v, {})
    BY <1>0, <2>6, CachedSafe
  <2>8. Exec(t, bb, r, {})
    BY <1>0, <1>3, <2>4, ExecOne
  <2>9. Exec(r, cc, v, {})
    BY <1>3, <2>7, ExecOne
  <2>10. Exec(t, bb \o cc, v, {})
    BY <2>8, <2>9, ExecExec
  <2>11. Safe(t, f, {})
    BY <1>4, <2>7, <2>10, ExecIsSafe
  <2>12. Safe(s, q \o f, {})
    BY <2>1, <2>11, ExecSafe
  <2> QED BY <1>4, <2>12
<1> QED BY <1>5, <1>6 DEF AddSafe

(* fat_op_create of a file.                                                *)
LEMMA CreateSafe ==
  ASSUME NEW s, Good(s, {}), IsNow(s), s.core = icache, hint \in Clus, NEW n \in Names
  PROVE  Safe(s, CreatePlan(n), {})
<1>1. PICK e, add, p, u, f : /\ e = Unit("file", n, 0, 0) /\ add = DirAdd(n, e, Fat, hint) /\ p = add.steps /\ u = <<>>
                             /\ f = <<Barrier, Cached(add.index, e)>>
  OBVIOUS
<1>2. e \in Entries /\ e.first = 0
  BY <1>1 DEF Entries, Unit, Links, FREE
<1>3. u \in Undos /\ CanUndo(s, u) /\ Brings(e, u)
  <2>1. e.first \notin Clus
    BY <1>2, ConstFacts DEF FREE
  <2> QED BY <1>1, <2>1 DEF Undos, CanUndo, Brings
<1>4. PICK F, q : F = s.fat /\ q = OnFailure(p, u)
  OBVIOUS
<1>5. p \in Seq(Plain) /\ AddSafe(s, q, add.index, e) /\ add.index \in Nat
  <2>1. add = DirAdd(n, e, F, hint)
    BY <1>1, <1>4 DEF IsNow
  <2> QED BY <1>1, <1>2, <1>3, <1>4, <2>1, DirAddExec
<1>6. p \in Seq(Steps) /\ q = p
  BY <1>1, <1>4, <1>5, PlainIs
<1>7. PICK i : i = add.index
  OBVIOUS
<1>8. Safe(s, p \o f, {})
  <2>1. i \in Nat /\ AddSafe(s, p, i, e) /\ f = <<Barrier, Cached(i, e)>>
    BY <1>1, <1>5, <1>6, <1>7
  <2> QED BY <1>2, <1>6, <2>1, FinishSafe
<1>9. CreatePlan(n) = p \o f
  BY <1>1 DEF CreatePlan
<1> QED BY <1>8, <1>9

(* A new directory's cluster holds its dots and is down: c is reserved.    *)
Dotted(s, t, c) ==
  /\ Good(t, {}) /\ t.core = s.core /\ t.fat = [s.fat EXCEPT ![c] = EOC]
  /\ Reserved(t, c)

DotSteps(c) == <<Data(c, AllOf(Dots)), Barrier>>

(* The dot records of a new subdirectory, written before it is entered.    *)
LEMMA DotExec ==
  ASSUME NEW s, Good(s, {}), NEW c \in Clus, NEW r, Allocated(r, s, c), r.fat \in Tables,
         NEW u, u = <<SetFat(c, FREE, "low")>>, NEW p, p = DotSteps(c)
  PROVE  p \in Seq(Steps) /\ \E t : Exec(s, OnFailure(p, u), t, {}) /\ Dotted(r, t, c)
<1>0. PICK X, Z, a0, b0, a, b : /\ X = {} /\ Z = {} /\ a0 = Data(c, AllOf(Dots)) /\ b0 = Barrier
                                /\ a = WithUndo(a0, u) /\ b = WithUndo(b0, u)
  OBVIOUS
<1>1. u \in Undos
  BY DEF Undos
<1>2. AllOf(Dots) \in Patches /\ \A j \in DOMAIN AllOf(Dots) : AllOf(Dots)[j] \in Blanks
  BY AllOfIs, BlanksAre, BlankUnits
<1>3. a0 \in Steps /\ b0 \in Steps /\ a0.k = "data" /\ b0.k = "barrier" /\ a0.u = AllOf(Dots)
  BY <1>0, <1>2, StepTypes DEF Data, Barrier
<1>4. /\ a \in Steps /\ a.k = "data" /\ a.undo = u /\ a.u = AllOf(Dots)
      /\ b \in Steps /\ b.k = "barrier" /\ b.undo = u
  BY <1>0, <1>1, <1>3, UndoTypes DEF WithUndo
<1>5. PICK aa, bb : aa = <<a0>> /\ bb = <<b0>>
  OBVIOUS
<1>6. aa \in Seq(Steps) /\ bb \in Seq(Steps) /\ p = aa \o bb /\ p \in Seq(Steps)
  <2>1. aa \in Seq(Steps) /\ bb \in Seq(Steps)
    BY <1>3, <1>5
  <2>2. p = <<a0, b0>>
    BY <1>0 DEF DotSteps
  <2>3. <<a0>> \o <<b0>> = <<a0, b0>>
    BY <1>3, ThreeSteps
  <2>4. p \in Seq(Steps)
    BY <1>3, <2>2
  <2> QED BY <1>5, <2>1, <2>2, <2>3, <2>4
<1>7. OnFailure(p, u) = <<a>> \o <<b>>
  <2>1. OnFailure(aa \o bb, u) = OnFailure(aa, u) \o OnFailure(bb, u)
    BY <1>1, <1>6, OnFailureConcat
  <2>2. OnFailure(<<a0>>, u) = <<a>> /\ OnFailure(<<b0>>, u) = <<b>>
    BY <1>0, <1>1, <1>3, OnFailureOne
  <2> QED BY <1>5, <1>6, <2>1, <2>2
<1>8. s.fat = [r.fat EXCEPT ![c] = EOC] /\ s.core = r.core /\ Unowned(s.fat, Held(s, {}), c)
  BY DEF Allocated
<1>9. PICK t : Patched(s, a, t, X, Z)
  <2>1. a.k \in {"data", "xfer"} /\ Good(s, X) /\ Z \in SUBSET AllClaims
    BY <1>0, <1>4
  <2>2. \A j \in DOMAIN a.u : IsEntry(a.u[j]) /\ a.u[j].first \in Clus => <<<<a.c, j>>, a.u[j].first>> \in Z
    BY <1>2, <1>4, BlanksAre
  <2>3. (\A F \in s.tabs : Sound(F, s.ent)) /\ Sound(s.fat, s.ent \cup CoreClaims(s.fat, s.core, X))
    BY <1>0 DEF Good
  <2>4. s.ent \cup Z = s.ent /\ (s.ent \cup CoreClaims(s.fat, s.core, X)) \cup Z = s.ent \cup CoreClaims(s.fat, s.core, X)
    BY <1>0
  <2>5. (\A F \in s.tabs : Sound(F, s.ent \cup Z)) /\ Sound(s.fat, (s.ent \cup CoreClaims(s.fat, s.core, X)) \cup Z)
    BY <2>3, <2>4
  <2> QED BY <1>4, <2>1, <2>2, <2>5, MoveData
<1>10. Good(t, {}) /\ Does(s, a, t) /\ t.fat = s.fat /\ t.core = s.core /\ t.ent \subseteq s.ent
  BY <1>0, <1>4, <1>9 DEF Patched
<1>11. Unowned(s.fat, s.ent \cup CoreClaims(s.fat, s.core, {}), c)
  BY <1>8 DEF Held
<1>12. Unowned(t.fat, t.ent \cup CoreClaims(t.fat, t.core, {}), c)
  <2>1. PICK F, E, D : F = s.fat /\ E = s.ent \cup CoreClaims(s.fat, s.core, {}) /\ D = t.ent \cup CoreClaims(t.fat, t.core, {})
    OBVIOUS
  <2>2. D \subseteq E /\ t.fat = F /\ Unowned(F, E, c)
    BY <1>10, <1>11, <2>1
  <2>3. Unowned(F, D, c)
    BY <2>2, UnownedSub
  <2> QED BY <2>1, <2>2, <2>3
<1>13. Moves(s, a, t, {})
  <2>1. Undoable(s, a.undo)
    BY <1>4, <1>11, UnownedUndo
  <2> QED BY <1>4, <1>10, <2>1 DEF Moves
<1>14. PICK v : Flushed(t, b, v, X)
  BY <1>0, <1>4, <1>10, MoveBarrier
<1>15. /\ Good(v, {}) /\ Does(t, b, v) /\ v.fat = t.fat /\ v.tabs = {t.fat} /\ v.ent \subseteq t.ent
       /\ v.core = t.core
  BY <1>0, <1>14 DEF Flushed
<1>16. Moves(t, b, v, {})
  <2>1. Undoable(t, b.undo)
    BY <1>4, <1>10, <1>12, UnownedUndo
  <2> QED BY <1>4, <1>15, <2>1 DEF Moves
<1>17. Reserved(v, c)
  <2>1. PICK F, E, D : F = t.fat /\ E = t.ent \cup CoreClaims(t.fat, t.core, {}) /\ D = v.ent \cup CoreClaims(v.fat, v.core, {})
    OBVIOUS
  <2>2. D \subseteq E /\ v.fat = F /\ Unowned(F, E, c) /\ v.ent \subseteq E /\ v.tabs = {F}
    BY <1>12, <1>15, <2>1
  <2>3. PICK e : e = v.ent
    OBVIOUS
  <2>4. Unowned(F, D, c) /\ Unowned(F, e, c)
    BY <2>2, <2>3, UnownedSub
  <2>5. F[c] = EOC
    BY <1>8, <1>10, <2>1 DEF Tables
  <2> QED BY <2>1, <2>2, <2>3, <2>4, <2>5 DEF Reserved
<1>18. Dotted(r, v, c)
  BY <1>8, <1>10, <1>15, <1>17 DEF Dotted
<1>19. Exec(s, OnFailure(p, u), v, {})
  <2>1. PICK ma, mb : ma = <<a>> /\ mb = <<b>>
    OBVIOUS
  <2>2. Exec(s, ma, t, {}) /\ Exec(t, mb, v, {})
    BY <1>13, <1>16, <2>1, ExecOne
  <2>3. Exec(s, ma \o mb, v, {})
    BY <2>2, ExecExec
  <2> QED BY <1>7, <2>1, <2>3
<1> QED BY <1>6, <1>18, <1>19

(* fat_op_create of a directory.                                           *)
LEMMA MkdirSafe ==
  ASSUME NEW s, Good(s, {}), IsNow(s), s.core = icache, hint \in Clus, NEW n \in Names,
         FreeFrom(Fat, hint) # <<>>
  PROVE  Safe(s, MkdirPlan(n), {})
<1>0. PICK F, free, c, e : /\ F = s.fat /\ free = FreeFrom(F, hint) /\ c = free[1] /\ e = Unit("dir", n, c, 0)
  OBVIOUS
<1>1. F = Fat /\ F \in Tables
  BY <1>0, GoodFacts DEF IsNow
<1>2. c \in Clus /\ s.fat[c] = FREE
  <2>1. free \in Seq(Clus) /\ \A j \in 1..Len(free) : F[free[j]] = FREE
    BY <1>0, <1>1, FreeFromIs
  <2>2. free # <<>>
    BY <1>0, <1>1
  <2>3. 1 \in 1..Len(free)
    BY <2>1, <2>2
  <2> QED BY <1>0, <2>1, <2>3
<1>3. e \in Entries /\ e.first = c
  BY <1>0, <1>2 DEF Entries, Unit, Links
<1>4. PICK G, h, u, d, a : /\ G = [F EXCEPT ![c] = EOC] /\ h = HintAfter(c) /\ u = <<SetFat(c, FREE, "low")>>
                           /\ d = DotSteps(c) /\ a = Alloc(c)
  OBVIOUS
<1>5. PICK add, p, i, f : add = DirAdd(n, e, G, h) /\ p = add.steps /\ i = add.index /\ f = <<Barrier, Cached(i, e)>>
  OBVIOUS
<1>6. MkdirPlan(n) = (a \o OnFailure(d \o p, u)) \o f
  BY <1>0, <1>1, <1>4, <1>5 DEF MkdirPlan, DotSteps
<1>7. h \in Clus
  BY <1>2, <1>4, ConstFacts DEF HintAfter, Clus
<1>8. u \in Undos
  BY <1>2, <1>4 DEF Undos
<1>9. PICK t : Exec(s, a, t, {}) /\ Allocated(s, t, c)
  <2>1. PICK w : w = <<>>
    OBVIOUS
  <2>2. w \in Undos /\ CanUndo(s, w) /\ a = OnFailure(Alloc(c), w)
    BY <1>2, <1>4, <2>1, AllocSteps DEF CanUndo
  <2> QED BY <1>2, <2>2, AllocExec
<1>10. d \in Seq(Steps) /\ \E v : Exec(t, OnFailure(d, u), v, {}) /\ Dotted(s, v, c)
  <2>1. Good(t, {}) /\ s.fat \in Tables
    BY <1>0, <1>1, <1>9 DEF Allocated
  <2> QED BY <1>2, <1>4, <1>9, <2>1, DotExec
<1>11. PICK g : g = OnFailure(d, u)
  OBVIOUS
<1>12. PICK v : Exec(t, g, v, {}) /\ Dotted(s, v, c)
  BY <1>10, <1>11
<1>13. Good(v, {}) /\ v.core = icache /\ G = v.fat /\ Reserved(v, c)
  BY <1>0, <1>4, <1>12 DEF Dotted
<1>14. CanUndo(v, u) /\ Brings(e, u)
  <2>1. CanUndo(v, u)
    BY <1>2, <1>4, <1>13 DEF CanUndo
  <2>2. Brings(e, u)
    BY <1>3, <1>4 DEF Brings
  <2> QED BY <2>1, <2>2
<1>15. PICK q : q = OnFailure(p, u)
  OBVIOUS
<1>16. p \in Seq(Plain) /\ AddSafe(v, q, add.index, e) /\ add.index \in Nat
  BY <1>3, <1>5, <1>7, <1>8, <1>13, <1>14, <1>15, DirAddExec
<1>17. p \in Seq(Steps) /\ q \in Seq(Steps)
  <2>1. p \in Seq(Steps)
    BY <1>16, PlainIs
  <2> QED BY <1>8, <1>15, <2>1, OnFailureIs
<1>18. f \in Seq(Steps) /\ Safe(v, q \o f, {})
  <2>1. i \in Nat /\ AddSafe(v, q, i, e)
    BY <1>5, <1>16
  <2> QED BY <1>3, <1>5, <1>13, <1>17, <2>1, FinishSafe
<1>19. PICK ag, qf : ag = a \o g /\ qf = q \o f
  OBVIOUS
<1>20. Exec(s, ag, v, {})
  BY <1>9, <1>12, <1>19, ExecExec
<1>21. Safe(s, ag \o qf, {})
  <2>1. Safe(v, qf, {})
    BY <1>18, <1>19
  <2> QED BY <1>20, <2>1, ExecSafe
<1>22. OnFailure(d \o p, u) = g \o q
  <2>1. OnFailure(d \o p, u) = OnFailure(d, u) \o OnFailure(p, u)
    BY <1>8, <1>10, <1>17, OnFailureConcat
  <2> QED BY <1>11, <1>15, <2>1
<1>23. a \in Seq(Steps) /\ g \in Seq(Steps)
  BY <1>9, <1>12 DEF Exec
<1>24. (a \o (g \o q)) \o f = (a \o g) \o (q \o f)
  <2>1. (a \o g) \o q = a \o (g \o q) /\ a \o g \in Seq(Steps)
    <3>1. a \in Seq(Steps) /\ g \in Seq(Steps) /\ q \in Seq(Steps)
      BY <1>17, <1>23
    <3>2. (a \o g) \o q = a \o (g \o q)
      BY <3>1, PlansJoin, ZenonT(60)
    <3>3. a \o g \in Seq(Steps)
      BY <3>1, PlansJoin, ZenonT(60)
    <3> QED BY <3>2, <3>3
  <2>2. PICK x : x = a \o g
    OBVIOUS
  <2>3. x \in Seq(Steps)
    BY <2>1, <2>2
  <2>4. (x \o q) \o f = x \o (q \o f)
    BY <1>17, <1>18, <2>3, JoinAgain
  <2> QED BY <2>1, <2>2, <2>4
<1>25. MkdirPlan(n) = ag \o qf
  BY <1>6, <1>19, <1>22, <1>24
<1> QED BY <1>21, <1>25

-----------------------------------------------------------------------------
(* The device under the volume.                                            *)

(* What a sector may hold, the sectors of a drive, and a write to one.     *)
SecVals(d, sec) == IF sec \in Clus THEN Sectors ELSE [{x \in Clus : d.fatsec[x] = sec} -> Links]
SecsOf(d) == Clus \cup FatSectors(d)
Drive(d, img) == DOMAIN img = SecsOf(d) /\ img = [x \in DOMAIN img |-> img[x]] /\ \A x \in SecsOf(d) : img[x] \in SecVals(d, x)
Recs(d) == UNION {[sec : {x}, val : SecVals(d, x)] : x \in SecsOf(d)}
SecWrite(sec, val) == [sec |-> sec, val |-> val]

(* The table a sector holds when it is the only one of the table, and the  *)
(* claims of the records in a cluster.                                     *)
TableIn(val) == [c \in Clus |-> val[c]]
SecClaims(c, val) ==
  {z \in AllClaims : z[1][1] = c /\ IsEntry(val[z[1][2]]) /\ val[z[1][2]].first = z[2]}

(* The whole table is in one sector, or writes reach the medium in order.  *)
InOneSector(d) == d.cache => \A b, c \in Clus : d.fatsec[b] = d.fatsec[c]

Drives(d, dk, nw, lg) ==
  /\ Drive(d, dk) /\ Drive(d, nw) /\ lg \in Seq(Recs(d))
  /\ d.cache \/ (lg = <<>> /\ dk = nw)

(* s is the volume as reads return it, and has all that a loss of power    *)
(* may leave.                                                              *)
Shows(d, nw, s) == s.fat = FatOf(d, nw) /\ \A c \in Clus : s.dat[c] = nw[c]
Leaves(d, dk, lg, s) ==
  /\ FatOf(d, dk) \in s.tabs
  /\ \A k \in 1..Len(lg) : lg[k].sec \notin Clus => TableIn(lg[k].val) \in s.tabs
  /\ \A c \in Clus : SecClaims(c, dk[c]) \subseteq s.ent
  /\ \A k \in 1..Len(lg) : lg[k].sec \in Clus => SecClaims(lg[k].sec, lg[k].val) \subseteq s.ent

(* fat_sector_write of val to sec.                                         *)
Wrote(d, dk, nw, lg, dk2, nw2, lg2, sec, val) ==
  /\ nw2 = [nw EXCEPT ![sec] = val]
  /\ IF d.cache THEN lg2 = Append(lg, SecWrite(sec, val)) /\ dk2 = dk
     ELSE dk2 = [dk EXCEPT ![sec] = val] /\ lg2 = lg

(* What is in the log.                                                     *)
LEMMA RecsAre ==
  ASSUME NEW d, NEW w \in Recs(d)
  PROVE  w.sec \in SecsOf(d) /\ w.val \in SecVals(d, w.sec)
BY DEF Recs

(* The sectors of the table are not those of the clusters.                 *)
LEMMA FatSecIs ==
  ASSUME NEW d \in Devices, NEW c \in Clus
  PROVE  d.fatsec[c] \notin Clus /\ d.fatsec[c] \in SecsOf(d) /\ d.cache \in BOOLEAN
BY FatConstants DEF SecsOf, FatSectors

(* A drive after a sector write.                                           *)
LEMMA DriveWrite ==
  ASSUME NEW d, NEW img, Drive(d, img), NEW sec \in SecsOf(d), NEW val \in SecVals(d, sec),
         NEW im2, im2 = [img EXCEPT ![sec] = val]
  PROVE  Drive(d, im2) /\ \A x \in SecsOf(d) : im2[x] = IF x = sec THEN val ELSE img[x]
<1>1. DOMAIN img = SecsOf(d) /\ \A x \in SecsOf(d) : img[x] \in SecVals(d, x)
  BY DEF Drive
<1>2. DOMAIN im2 = SecsOf(d) /\ im2 = [x \in DOMAIN im2 |-> im2[x]] /\ \A x \in SecsOf(d) : im2[x] = IF x = sec THEN val ELSE img[x]
  BY <1>1
<1> QED BY <1>1, <1>2 DEF Drive

(* A sector write keeps the drive well formed.                             *)
LEMMA WroteDrives ==
  ASSUME NEW d \in Devices, NEW dk, NEW nw, NEW lg, Drives(d, dk, nw, lg),
         NEW dk2, NEW nw2, NEW lg2, NEW sec \in SecsOf(d), NEW val \in SecVals(d, sec),
         Wrote(d, dk, nw, lg, dk2, nw2, lg2, sec, val)
  PROVE  Drives(d, dk2, nw2, lg2)
<1>1. Drive(d, dk) /\ Drive(d, nw) /\ lg \in Seq(Recs(d)) /\ (d.cache \/ (lg = <<>> /\ dk = nw))
  BY DEF Drives
<1>2. nw2 = [nw EXCEPT ![sec] = val]
  BY DEF Wrote
<1>3. Drive(d, nw2)
  BY <1>1, <1>2, DriveWrite
<1>4. CASE d.cache
  <2>1. lg2 = Append(lg, SecWrite(sec, val)) /\ dk2 = dk
    BY <1>4 DEF Wrote
  <2>2. SecWrite(sec, val) \in Recs(d)
    BY DEF SecWrite, Recs
  <2>3. PICK w, W : w = SecWrite(sec, val) /\ W = Recs(d)
    OBVIOUS
  <2>4. Append(lg, w) \in Seq(W)
    BY <1>1, <2>2, <2>3
  <2> QED BY <1>1, <1>3, <1>4, <2>1, <2>3, <2>4 DEF Drives
<1>5. CASE ~d.cache
  <2>1. dk2 = [dk EXCEPT ![sec] = val] /\ lg2 = lg
    BY <1>5 DEF Wrote
  <2>2. dk = nw /\ lg = <<>>
    BY <1>1, <1>5
  <2>3. dk2 = nw2
    BY <1>2, <2>1, <2>2
  <2> QED BY <1>1, <1>3, <2>1, <2>2, <2>3 DEF Drives
<1> QED BY <1>4, <1>5

(* What a drive may leave after a write: what it might have left, and the  *)
(* sector written.                                                         *)
LEMMA WroteLeaves ==
  ASSUME NEW d \in Devices, NEW dk, NEW nw, NEW lg, Drives(d, dk, nw, lg), NEW s, Leaves(d, dk, lg, s),
         NEW dk2, NEW nw2, NEW lg2, NEW sec \in SecsOf(d), NEW val \in SecVals(d, sec),
         Wrote(d, dk, nw, lg, dk2, nw2, lg2, sec, val),
         NEW t, s.tabs \subseteq t.tabs, s.ent \subseteq t.ent,
         d.cache /\ sec \notin Clus => TableIn(val) \in t.tabs,
         sec \in Clus => SecClaims(sec, val) \subseteq t.ent,
         ~d.cache => FatOf(d, nw2) \in t.tabs
  PROVE  Leaves(d, dk2, lg2, t)
<1>1. Drive(d, dk) /\ Drive(d, nw) /\ lg \in Seq(Recs(d)) /\ (d.cache \/ (lg = <<>> /\ dk = nw))
  BY DEF Drives
<1>2. CASE d.cache
  <2>1. lg2 = Append(lg, SecWrite(sec, val)) /\ dk2 = dk
    BY <1>2 DEF Wrote
  <2>2. PICK w : w = SecWrite(sec, val)
    OBVIOUS
  <2>3. w.sec = sec /\ w.val = val
    BY <2>2 DEF SecWrite
  <2>4. Len(lg) \in Nat /\ Len(lg2) = Len(lg) + 1 /\ (\A k \in 1..Len(lg) : lg2[k] = lg[k]) /\ lg2[Len(lg) + 1] = w
    <3>1. PICK W : W = Recs(d)
      OBVIOUS
    <3>2. lg \in Seq(W) /\ lg2 = Append(lg, w)
      BY <1>1, <2>1, <2>2, <3>1
    <3> QED BY <3>2
  <2>5. \A k \in 1..Len(lg2) : k \in 1..Len(lg) \/ k = Len(lg) + 1
    BY <2>4
  <2>6. ASSUME NEW k \in 1..Len(lg2), lg2[k].sec \notin Clus PROVE TableIn(lg2[k].val) \in t.tabs
    <3>1. CASE k \in 1..Len(lg)
      BY <2>4, <2>6, <3>1 DEF Leaves
    <3>2. CASE k = Len(lg) + 1
      BY <1>2, <2>3, <2>4, <2>6, <3>2
    <3> QED BY <2>5, <3>1, <3>2
  <2>7. ASSUME NEW k \in 1..Len(lg2), lg2[k].sec \in Clus PROVE SecClaims(lg2[k].sec, lg2[k].val) \subseteq t.ent
    <3>1. CASE k \in 1..Len(lg)
      <4>1. SecClaims(lg[k].sec, lg[k].val) \subseteq s.ent
        BY <2>4, <2>7, <3>1 DEF Leaves
      <4> QED BY <2>4, <3>1, <4>1
    <3>2. CASE k = Len(lg) + 1
      BY <2>3, <2>4, <2>7, <3>2
    <3> QED BY <2>5, <3>1, <3>2
  <2>8. FatOf(d, dk2) \in t.tabs
    BY <2>1 DEF Leaves
  <2>9. \A c \in Clus : SecClaims(c, dk2[c]) \subseteq t.ent
    BY <2>1 DEF Leaves
  <2> QED BY <2>6, <2>7, <2>8, <2>9 DEF Leaves
<1>3. CASE ~d.cache
  <2>1. dk2 = [dk EXCEPT ![sec] = val] /\ lg2 = lg /\ lg = <<>> /\ dk = nw
    BY <1>1, <1>3 DEF Wrote
  <2>2. \A x \in SecsOf(d) : dk2[x] = IF x = sec THEN val ELSE dk[x]
    <3>1. Drive(d, dk) /\ dk2 = [dk EXCEPT ![sec] = val]
      BY <1>1, <2>1
    <3>2. DOMAIN dk = SecsOf(d)
      BY <3>1 DEF Drive
    <3> QED BY <3>1, <3>2
  <2>3. dk2 = nw2
    BY <2>1 DEF Wrote
  <2>4. ASSUME NEW c \in Clus PROVE SecClaims(c, dk2[c]) \subseteq t.ent
    <3>1. c \in SecsOf(d)
      BY DEF SecsOf
    <3>2. CASE c = sec
      BY <2>2, <3>1, <3>2
    <3>3. CASE c # sec
      <4>1. SecClaims(c, dk[c]) \subseteq s.ent
        BY DEF Leaves
      <4> QED BY <2>2, <3>1, <3>3, <4>1
    <3> QED BY <3>2, <3>3
  <2>5. 1..Len(lg2) = {}
    BY <2>1
  <2> QED BY <1>3, <2>3, <2>4, <2>5 DEF Leaves
<1> QED BY <1>2, <1>3, FatSecIs

(* The claims of one cluster's records are claims of the data area.        *)
LEMMA SecClaimsIn ==
  ASSUME NEW dat, NEW c \in Clus, NEW val, dat[c] = val
  PROVE  SecClaims(c, val) \subseteq DatClaims(dat)
BY DEF SecClaims, DatClaims

(* A sector of records is written.                                         *)
LEMMA DataHolds ==
  ASSUME NEW d \in Devices, NEW dk, NEW nw, NEW lg, Drives(d, dk, nw, lg),
         NEW s, NEW X, Good(s, X), Shows(d, nw, s), Leaves(d, dk, lg, s),
         NEW st \in Steps, st.k \in {"data", "xfer"}, NEW t, Does(s, st, t), Good(t, X),
         NEW c, c = st.c, NEW val, val = Merge(st.u, nw[c]),
         NEW dk2, NEW nw2, NEW lg2, Wrote(d, dk, nw, lg, dk2, nw2, lg2, c, val)
  PROVE  Drives(d, dk2, nw2, lg2) /\ Shows(d, nw2, t) /\ Leaves(d, dk2, lg2, t)
<1>1. c \in Clus /\ c \in SecsOf(d)
  <2>1. c \in Clus
    BY DEF Steps
  <2> QED BY <2>1 DEF SecsOf
<1>2. PICK D : D = [s.dat EXCEPT ![st.c] = Merge(st.u, @)]
  OBVIOUS
<1>3. t.fat = s.fat /\ t.tabs = s.tabs /\ t.dat = D /\ t.ent = s.ent \cup DatClaims(D)
  BY <1>2 DEF Does, Sym
<1>4. s.dat \in [Clus -> Sectors] /\ t.dat \in [Clus -> Sectors] /\ t.fat \in t.tabs
  BY GoodFacts
<1>5. s.dat[c] = nw[c]
  BY <1>1 DEF Shows
<1>6. t.dat[c] = val /\ \A b \in Clus : b # c => t.dat[b] = s.dat[b]
  BY <1>1, <1>2, <1>3, <1>4, <1>5
<1>7. val \in SecVals(d, c)
  BY <1>1, <1>4, <1>6 DEF SecVals
<1>8. Drive(d, nw) /\ nw2 = [nw EXCEPT ![c] = val]
  BY DEF Drives, Wrote
<1>9. \A x \in SecsOf(d) : nw2[x] = IF x = c THEN val ELSE nw[x]
  <2>1. DOMAIN nw = SecsOf(d)
    BY <1>8 DEF Drive
  <2> QED BY <1>8, <2>1
<1>10. FatOf(d, nw2) = FatOf(d, nw)
  <2>1. \A b \in Clus : nw2[d.fatsec[b]] = nw[d.fatsec[b]]
    BY <1>1, <1>9, FatSecIs
  <2> QED BY <2>1 DEF FatOf
<1>11. Drives(d, dk2, nw2, lg2)
  BY <1>1, <1>7, WroteDrives
<1>12. Shows(d, nw2, t)
  <2>1. t.fat = FatOf(d, nw2)
    BY <1>3, <1>10 DEF Shows
  <2>2. ASSUME NEW b \in Clus PROVE t.dat[b] = nw2[b]
    <3>1. b \in SecsOf(d) /\ s.dat[b] = nw[b]
      BY DEF SecsOf, Shows
    <3> QED BY <1>6, <1>9, <3>1
  <2> QED BY <2>1, <2>2 DEF Shows
<1>13. Leaves(d, dk2, lg2, t)
  <2>1. s.tabs \subseteq t.tabs /\ s.ent \subseteq t.ent
    BY <1>3
  <2>2. SecClaims(c, val) \subseteq t.ent
    <3>1. SecClaims(c, val) \subseteq DatClaims(t.dat)
      BY <1>1, <1>6, SecClaimsIn
    <3> QED BY <1>3, <3>1
  <2>3. FatOf(d, nw2) \in t.tabs
    BY <1>4, <1>12 DEF Shows
  <2> QED BY <1>1, <1>7, <2>1, <2>2, <2>3, WroteLeaves
<1> QED BY <1>11, <1>12, <1>13

(* A sector of the table is written.                                       *)
LEMMA FatHolds ==
  ASSUME NEW d \in Devices, InOneSector(d), NEW dk, NEW nw, NEW lg, Drives(d, dk, nw, lg),
         NEW s, NEW X, Good(s, X), Shows(d, nw, s), Leaves(d, dk, lg, s),
         NEW st \in Steps, st.k = "fat", NEW t, Does(s, st, t), Good(t, X),
         NEW c, c = st.c, NEW sec, sec = d.fatsec[c], NEW val, val = [nw[sec] EXCEPT ![c] = st.v],
         NEW dk2, NEW nw2, NEW lg2, Wrote(d, dk, nw, lg, dk2, nw2, lg2, sec, val)
  PROVE  Drives(d, dk2, nw2, lg2) /\ Shows(d, nw2, t) /\ Leaves(d, dk2, lg2, t)
<1>1. c \in Clus /\ st.v \in Links
  BY DEF Steps
<1>2. sec \notin Clus /\ sec \in SecsOf(d)
  BY <1>1, FatSecIs
<1>3. PICK G : G = [s.fat EXCEPT ![c] = st.v]
  OBVIOUS
<1>4. t.fat = G /\ t.tabs = s.tabs \cup {G} /\ t.dat = s.dat /\ t.ent = s.ent
  BY <1>3 DEF Does, Sym
<1>5. Drive(d, nw) /\ nw2 = [nw EXCEPT ![sec] = val]
  BY DEF Drives, Wrote
<1>6. PICK B : B = {x \in Clus : d.fatsec[x] = sec}
  OBVIOUS
<1>7. nw[sec] \in [B -> Links] /\ c \in B
  <2>1. nw[sec] \in SecVals(d, sec)
    BY <1>2, <1>5 DEF Drive
  <2> QED BY <1>1, <1>2, <1>6, <2>1 DEF SecVals
<1>8. val \in [B -> Links] /\ \A b \in B : val[b] = IF b = c THEN st.v ELSE nw[sec][b]
  BY <1>1, <1>7
<1>9. val \in SecVals(d, sec)
  BY <1>2, <1>6, <1>8 DEF SecVals
<1>10. \A x \in SecsOf(d) : nw2[x] = IF x = sec THEN val ELSE nw[x]
  <2>1. DOMAIN nw = SecsOf(d)
    BY <1>5 DEF Drive
  <2> QED BY <1>5, <2>1
<1>11. s.fat \in Tables /\ \A b \in Clus : s.fat[b] = nw[d.fatsec[b]][b]
  <2>1. s.fat = FatOf(d, nw)
    BY DEF Shows
  <2> QED BY <2>1, GoodFacts DEF FatOf
<1>12. \A b \in Clus : G[b] = IF b = c THEN st.v ELSE s.fat[b]
  BY <1>1, <1>3, <1>11 DEF Tables
<1>13. G = FatOf(d, nw2)
  <2>1. ASSUME NEW b \in Clus PROVE nw2[d.fatsec[b]][b] = G[b]
    <3>1. d.fatsec[b] \in SecsOf(d)
      BY FatSecIs
    <3>2. CASE d.fatsec[b] = sec
      <4>1. b \in B
        BY <1>6, <3>2
      <4>2. nw2[d.fatsec[b]] = val
        BY <1>10, <3>1, <3>2
      <4>3. val[b] = IF b = c THEN st.v ELSE nw[sec][b]
        BY <1>8, <4>1
      <4>4. G[b] = IF b = c THEN st.v ELSE nw[sec][b]
        BY <1>11, <1>12, <3>2
      <4> QED BY <4>2, <4>3, <4>4
    <3>3. CASE d.fatsec[b] # sec
      <4>1. b # c
        BY <3>3
      <4> QED BY <1>10, <1>11, <1>12, <3>1, <3>3, <4>1
    <3> QED BY <3>2, <3>3
  <2>2. G \in Tables
    BY <1>4, GoodFacts
  <2> QED BY <2>1, <2>2 DEF FatOf, Tables
<1>14. ASSUME d.cache PROVE TableIn(val) = G
  <2>1. B = Clus
    BY <1>1, <1>6, <1>14 DEF InOneSector
  <2>2. \A b \in Clus : val[b] = G[b]
    <3> TAKE b \in Clus
    <3>1. d.fatsec[b] = sec /\ b \in B
      BY <1>6, <2>1
    <3> QED BY <1>8, <1>11, <1>12, <3>1
  <2>3. G \in Tables
    BY <1>4, GoodFacts
  <2> QED BY <2>2, <2>3 DEF TableIn, Tables
<1>15. Drives(d, dk2, nw2, lg2)
  BY <1>2, <1>9, WroteDrives
<1>16. Shows(d, nw2, t)
  <2>1. t.fat = FatOf(d, nw2)
    BY <1>4, <1>13
  <2>2. ASSUME NEW b \in Clus PROVE t.dat[b] = nw2[b]
    <3>1. b \in SecsOf(d) /\ s.dat[b] = nw[b] /\ b # sec
      BY <1>2 DEF SecsOf, Shows
    <3> QED BY <1>4, <1>10, <3>1
  <2> QED BY <2>1, <2>2 DEF Shows
<1>17. Leaves(d, dk2, lg2, t)
  <2>1. s.tabs \subseteq t.tabs /\ s.ent \subseteq t.ent
    BY <1>4
  <2>2. FatOf(d, nw2) \in t.tabs /\ (d.cache => TableIn(val) \in t.tabs)
    BY <1>4, <1>13, <1>14
  <2> QED BY <1>2, <1>9, <2>1, <2>2, WroteLeaves
<1> QED BY <1>15, <1>16, <1>17

(* A flush.                                                                *)
LEMMA FlushHolds ==
  ASSUME NEW d \in Devices, NEW dk, NEW nw, NEW lg, Drives(d, dk, nw, lg),
         NEW s, Shows(d, nw, s), NEW st, st.k = "barrier", NEW t, Does(s, st, t),
         NEW lg2, lg2 = <<>>
  PROVE  Drives(d, nw, nw, lg2) /\ Shows(d, nw, t) /\ Leaves(d, nw, lg2, t)
<1>1. t.fat = s.fat /\ t.tabs = {s.fat} /\ t.dat = s.dat /\ t.ent = DatClaims(s.dat)
  BY DEF Does, Sym
<1>2. Drives(d, nw, nw, lg2)
  BY DEF Drives
<1>3. Shows(d, nw, t)
  BY <1>1 DEF Shows
<1>4. FatOf(d, nw) \in t.tabs
  BY <1>1 DEF Shows
<1>5. ASSUME NEW c \in Clus PROVE SecClaims(c, nw[c]) \subseteq t.ent
  <2>1. s.dat[c] = nw[c]
    BY DEF Shows
  <2> QED BY <1>1, <2>1, SecClaimsIn
<1>6. 1..Len(lg2) = {}
  OBVIOUS
<1>7. Leaves(d, nw, lg2, t)
  BY <1>4, <1>5, <1>6 DEF Leaves
<1> QED BY <1>2, <1>3, <1>7

(* The greatest of some writes of a log.                                   *)
LEMMA GreatestOf ==
  ASSUME NEW n \in Nat, NEW S \in SUBSET (1..n), S # {}
  PROVE  Max(S) \in S
<1>1. PICK T : T = {n - x : x \in S}
  OBVIOUS
<1>2. T \in SUBSET Nat /\ T # {}
  <2>1. PICK a \in S : TRUE
    OBVIOUS
  <2>2. n - a \in T
    BY <1>1
  <2>3. \A x \in S : n - x \in Nat
    OBVIOUS
  <2>4. T \subseteq Nat
    BY <1>1, <2>3
  <2> QED BY <2>2, <2>4
<1>3. PICK m \in T : \A y \in T : m <= y
  BY <1>2, LeastElement
<1>4. PICK x \in S : m = n - x
  BY <1>1, <1>3
<1>5. \A y \in S : x >= y
  <2> TAKE y \in S
  <2>1. n - y \in T
    BY <1>1
  <2>2. n - x <= n - y
    BY <1>3, <1>4, <2>1
  <2>3. x \in Nat /\ y \in Nat
    OBVIOUS
  <2> QED BY <2>2, <2>3
<1>6. \E z \in S : \A y \in S : z >= y
  BY <1>5
<1> QED BY <1>6 DEF Max

(* Each sector of an image that a loss of power leaves is the one of the   *)
(* medium or one written since the last flush.                             *)
LEMMA ImageIs ==
  ASSUME NEW d, NEW dk, NEW lg, Drive(d, dk), lg \in Seq(Recs(d)), NEW img \in Images(dk, lg)
  PROVE  /\ Drive(d, img)
         /\ \A x \in SecsOf(d) : img[x] = dk[x] \/ \E k \in 1..Len(lg) : lg[k].sec = x /\ img[x] = lg[k].val
<1> DEFINE hit(kept, x) == {k \in kept : lg[k].sec = x}
<1>1. PICK kept \in SUBSET DOMAIN lg :
        img = [x \in DOMAIN dk |-> IF hit(kept, x) = {} THEN dk[x] ELSE lg[Max(hit(kept, x))].val]
  BY DEF Images
<1>2. PICK n : n = Len(lg)
  OBVIOUS
<1>3. n \in Nat /\ DOMAIN lg = 1..n /\ \A k \in 1..n : lg[k] \in Recs(d)
  <2>1. PICK W : W = Recs(d)
    OBVIOUS
  <2>2. lg \in Seq(W)
    BY <2>1
  <2> QED BY <1>2, <2>1, <2>2
<1>4. DOMAIN dk = SecsOf(d) /\ \A x \in SecsOf(d) : dk[x] \in SecVals(d, x)
  BY DEF Drive
<1>5. DOMAIN img = SecsOf(d) /\ img = [x \in DOMAIN img |-> img[x]]
  BY <1>1, <1>4
<1>6. ASSUME NEW x \in SecsOf(d)
      PROVE  /\ img[x] \in SecVals(d, x)
             /\ img[x] = dk[x] \/ \E k \in 1..n : lg[k].sec = x /\ img[x] = lg[k].val
  <2>1. PICK H : H = hit(kept, x)
    OBVIOUS
  <2>2. H \in SUBSET (1..n) /\ \A k \in H : lg[k].sec = x
    BY <1>1, <1>3, <2>1
  <2>3. img[x] = IF H = {} THEN dk[x] ELSE lg[Max(H)].val
    BY <1>1, <1>4, <2>1
  <2> HIDE DEF hit
  <2>4. CASE H = {}
    BY <1>4, <2>3, <2>4
  <2>5. CASE H # {}
    <3>1. PICK k : k = Max(H)
      OBVIOUS
    <3>2. k \in H
      BY <1>3, <2>2, <2>5, <3>1, GreatestOf
    <3>3. k \in 1..n /\ lg[k].sec = x /\ img[x] = lg[k].val
      BY <2>2, <2>3, <2>5, <3>1, <3>2
    <3>4. lg[k].val \in SecVals(d, lg[k].sec)
      BY <1>3, <3>3, RecsAre
    <3> QED BY <3>3, <3>4
  <2> QED BY <2>4, <2>5
<1>7. Drive(d, img)
  BY <1>5, <1>6 DEF Drive
<1> QED BY <1>2, <1>6, <1>7

(* No inode is in core after a mount.                                      *)
LEMMA NoCacheIs ==
  ASSUME NEW F
  PROVE  NoCache \in [Slots -> Inodes] /\ CoreClaims(F, NoCache, {}) = {}
         /\ \A i \in Slots : NoCache[i].first \notin Clus
<1>1. \A i \in Slots : NoCache[i] = NoInode
  BY DEF NoCache
<1>2. NoCache \in [Slots -> Inodes]
  BY NoInodeIs DEF NoCache
<1> QED BY <1>1, <1>2, NoInodeIs DEF CoreClaims

(* The volume that an image holds, with nothing in core and nothing in the *)
(* drive's cache.                                                          *)
LEMMA MountHolds ==
  ASSUME NEW d \in Devices, NEW img, Drive(d, img), NEW dat, dat = [c \in Clus |-> img[c]],
         NEW F, F = FatOf(d, img), F \in Tables, Sound(F, DatClaims(dat)),
         NEW lg, lg = <<>>
  PROVE  \E t : /\ Good(t, {}) /\ t.core = NoCache
                /\ Drives(d, img, img, lg) /\ Shows(d, img, t) /\ Leaves(d, img, lg, t)
<1>1. PICK E, t : E = DatClaims(dat) /\ t = Sym(F, {F}, dat, E, NoCache)
  OBVIOUS
<1>2. t.fat = F /\ t.tabs = {F} /\ t.dat = dat /\ t.ent = E /\ t.core = NoCache
  BY <1>1 DEF Sym
<1>3. dat \in [Clus -> Sectors]
  <2>1. ASSUME NEW c \in Clus PROVE img[c] \in Sectors
    <3>1. c \in SecsOf(d)
      BY DEF SecsOf
    <3>2. img[c] \in SecVals(d, c)
      BY <3>1 DEF Drive
    <3> QED BY <3>2 DEF SecVals
  <2> QED BY <2>1
<1>4. E \in SUBSET AllClaims
  BY <1>1 DEF DatClaims
<1>5. SymType(t)
  BY <1>1, <1>2, <1>3, <1>4, NoCacheIs DEF SymType
<1>6. Good(t, {})
  <2>1. CoreClaims(F, NoCache, {}) = {} /\ \A i \in Slots : NoCache[i].first \notin Clus
    BY NoCacheIs
  <2>2. E \cup {} = E
    OBVIOUS
  <2>3. Sound(t.fat, t.ent \cup CoreClaims(t.fat, t.core, {}))
    BY <1>1, <1>2, <2>1, <2>2
  <2>4. \A H \in t.tabs : Sound(H, t.ent)
    BY <1>1, <1>2
  <2>5. \A i \in Slots \ {} : t.core[i].first \in Clus => InRoot(t.fat, i)
    BY <1>2, <2>1
  <2> QED BY <1>5, <2>3, <2>4, <2>5 DEF Good
<1>7. Drives(d, img, img, lg)
  BY DEF Drives
<1>8. Shows(d, img, t)
  BY <1>2 DEF Shows
<1>9. Leaves(d, img, lg, t)
  <2>1. ASSUME NEW c \in Clus PROVE SecClaims(c, img[c]) \subseteq t.ent
    <3>1. dat[c] = img[c]
      OBVIOUS
    <3> QED BY <1>1, <1>2, <3>1, SecClaimsIn
  <2>2. 1..Len(lg) = {}
    OBVIOUS
  <2> QED BY <1>2, <2>1, <2>2 DEF Leaves
<1> QED BY <1>2, <1>6, <1>7, <1>8, <1>9

(* Power is lost.                                                          *)
LEMMA CrashHolds ==
  ASSUME NEW d \in Devices, InOneSector(d), NEW dk, NEW nw, NEW lg, Drives(d, dk, nw, lg),
         NEW s, NEW X, Good(s, X), Shows(d, nw, s), Leaves(d, dk, lg, s),
         NEW img \in Images(dk, lg), NEW lg2, lg2 = <<>>
  PROVE  \E t : /\ Good(t, {}) /\ t.core = NoCache
                /\ Drives(d, img, img, lg2) /\ Shows(d, img, t) /\ Leaves(d, img, lg2, t)
<1>1. Drive(d, dk) /\ lg \in Seq(Recs(d)) /\ (d.cache \/ lg = <<>>)
  BY DEF Drives
<1>2. /\ Drive(d, img)
      /\ \A x \in SecsOf(d) : img[x] = dk[x] \/ \E k \in 1..Len(lg) : lg[k].sec = x /\ img[x] = lg[k].val
  BY <1>1, ImageIs
<1>3. PICK dat, F : dat = [c \in Clus |-> img[c]] /\ F = FatOf(d, img)
  OBVIOUS
<1>4. F \in s.tabs
  <2>1. FatOf(d, dk) \in s.tabs
    BY DEF Leaves
  <2>2. CASE ~d.cache
    <3>1. 1..Len(lg) = {}
      BY <1>1, <2>2
    <3>2. \A b \in Clus : img[d.fatsec[b]] = dk[d.fatsec[b]]
      BY <1>2, <3>1, FatSecIs
    <3>3. F = FatOf(d, dk)
      BY <1>3, <3>2 DEF FatOf
    <3> QED BY <2>1, <3>3
  <2>3. CASE d.cache
    <3>1. PICK sec : sec = d.fatsec[Root]
      OBVIOUS
    <3>2. Root \in Clus
      BY ConstFacts
    <3>3. sec \in SecsOf(d) /\ sec \notin Clus /\ \A b \in Clus : d.fatsec[b] = sec
      BY <2>3, <3>1, <3>2, FatSecIs DEF InOneSector
    <3>4. CASE img[sec] = dk[sec]
      <4>1. F = FatOf(d, dk)
        BY <1>3, <3>3, <3>4 DEF FatOf
      <4> QED BY <2>1, <4>1
    <3>5. CASE img[sec] # dk[sec]
      <4>1. PICK k \in 1..Len(lg) : lg[k].sec = sec /\ img[sec] = lg[k].val
        BY <1>2, <3>3, <3>5
      <4>2. TableIn(lg[k].val) \in s.tabs
        BY <3>3, <4>1 DEF Leaves
      <4>3. F = TableIn(lg[k].val)
        BY <1>3, <3>3, <4>1 DEF FatOf, TableIn
      <4> QED BY <4>2, <4>3
    <3> QED BY <3>4, <3>5
  <2> QED BY <2>2, <2>3
<1>5. DatClaims(dat) \subseteq s.ent
  <2> SUFFICES ASSUME NEW z \in DatClaims(dat) PROVE z \in s.ent
    OBVIOUS
  <2>1. PICK c, j : c = z[1][1] /\ j = z[1][2]
    OBVIOUS
  <2>2. z \in AllClaims /\ IsEntry(dat[c][j]) /\ dat[c][j].first = z[2]
    BY <2>1 DEF DatClaims
  <2>3. c \in Clus /\ c \in SecsOf(d)
    BY <2>1, <2>2 DEF AllClaims, Places, SecsOf
  <2>4. dat[c] = img[c]
    BY <1>3, <2>3
  <2>5. z \in SecClaims(c, img[c])
    BY <2>1, <2>2, <2>4 DEF SecClaims
  <2>6. CASE img[c] = dk[c]
    <3>1. SecClaims(c, dk[c]) \subseteq s.ent
      BY <2>3 DEF Leaves
    <3> QED BY <2>5, <2>6, <3>1
  <2>7. CASE img[c] # dk[c]
    <3>1. PICK k \in 1..Len(lg) : lg[k].sec = c /\ img[c] = lg[k].val
      BY <1>2, <2>3, <2>7
    <3>2. SecClaims(lg[k].sec, lg[k].val) \subseteq s.ent
      BY <2>3, <3>1 DEF Leaves
    <3> QED BY <2>5, <3>1, <3>2
  <2> QED BY <2>6, <2>7
<1>6. F \in Tables /\ Sound(F, s.ent)
  BY <1>4, GoodFacts DEF Good
<1>7. Sound(F, DatClaims(dat))
  <2>1. PICK E, D : E = s.ent /\ D = DatClaims(dat)
    OBVIOUS
  <2>2. Sound(F, D)
    BY <1>5, <1>6, <2>1, SoundSub
  <2> QED BY <2>1, <2>2
<1> QED BY <1>2, <1>3, <1>6, <1>7, MountHolds

-----------------------------------------------------------------------------
(* The invariant: the volume as reads return it, with all that a loss of   *)
(* power may leave, is good, and the steps of the operation in progress    *)
(* are safe from there.                                                    *)
Backs(s) ==
  /\ Drives(dev, disk, now, log) /\ Shows(dev, now, s) /\ Leaves(dev, disk, log, s)
  /\ s.core = icache
JobIs == job = [op |-> job.op, name |-> job.name, to |-> job.to, steps |-> job.steps, ok |-> job.ok]
IInv ==
  /\ dev \in Devices /\ hint \in Clus /\ open \subseteq Slots /\ JobIs
  /\ \E s, X : /\ Backs(s) /\ Good(s, X) /\ Safe(s, job.steps, X)
               /\ job.op \in Flaky => X = {}

(* What the theorems assume of the device and of its errors: a drive with  *)
(* a write cache has the whole table in one sector, and no error is        *)
(* reported during an unlink.                                              *)
OneTableSector == \A d \in Devices : InOneSector(d)
UnlinkUndisturbed == "unlink" \notin Flaky

(* The state behind the variables is the one plans are made for.           *)
LEMMA NowIs ==
  ASSUME NEW s, Backs(s) PROVE IsNow(s)
BY DEF Backs, Shows, IsNow, Fat

(* At rest the state is good for every inode.                              *)
LEMMA AtRest ==
  ASSUME IInv, job = Idle
  PROVE  \E s : Backs(s) /\ Good(s, {}) /\ IsNow(s) /\ s.core = icache
<1>1. PICK s, X : Backs(s) /\ Good(s, X) /\ Safe(s, job.steps, X)
  BY DEF IInv
<1>2. job.steps = <<>>
  BY DEF Idle
<1>3. Safe(s, <<>>, X)
  BY <1>1, <1>2
<1>4. Good(s, {})
  BY <1>3, SafeEnd
<1> QED BY <1>1, <1>4, NowIs DEF Backs

(* A scan of the directory sees only records of it.                        *)
LEMMA VisibleIn ==
  ASSUME NEW recs, NEW N \in Nat, DOMAIN recs = 1..N
  PROVE  Visible(recs) \subseteq 1..N
<1>1. PICK ends : ends = {x \in DOMAIN recs : recs[x] = Zero}
  OBVIOUS
<1>2. CASE ends = {}
  BY <1>1, <1>2 DEF Visible
<1>3. CASE ends # {}
  <2>1. ends \in SUBSET Nat /\ ends \subseteq 1..N
    BY <1>1
  <2>2. PICK m : m = Min(ends)
    OBVIOUS
  <2>3. m \in 1..N
    BY <1>3, <2>1, <2>2, LeastOf
  <2>4. 1..(m - 1) \subseteq 1..N
    BY <2>3
  <2> QED BY <1>1, <1>3, <2>2, <2>4 DEF Visible
<1> QED BY <1>2, <1>3

(* The entry a name is found at.                                           *)
LEMMA FindIs ==
  ASSUME NEW s, Good(s, {}), IsNow(s), NEW n \in Names, NEW i, i = Find(n), i # 0
  PROVE  /\ InRoot(s.fat, i) /\ IsEntry(Dir[i]) /\ Dir[i].name = n /\ i \in Slots
         /\ \A k \in 1..(Width[n] - 1) : InRoot(s.fat, i - k)
<1>1. PICK F, ch, N : F = s.fat /\ ch = Chain(F, Root) /\ N = Len(ch) * UNITS
  OBVIOUS
<1>2. F = Fat /\ Len(ch) \in Nat /\ N \in Nat
  <2>1. ch \in Seq(Clus)
    BY <1>1, GoodFacts
  <2>2. Len(ch) \in Nat /\ UNITS \in Nat
    BY <2>1, ConstFacts
  <2> QED BY <1>1, <2>2 DEF IsNow
<1>3. DOMAIN Dir = 1..N
  BY <1>1, <1>2 DEF Dir, Records
<1>4. Visible(Dir) \subseteq 1..N
  BY <1>2, <1>3, VisibleIn
<1>5. PICK at : at = {x \in Visible(Dir) : Named(Dir, x, n)}
  OBVIOUS
<1>6. Find(n) = IF at = {} THEN 0 ELSE Min(at)
  BY <1>5 DEF Find, FindIn, Dir
<1>7. at # {} /\ i = Min(at)
  BY <1>6
<1>8. at \in SUBSET Nat
  BY <1>2, <1>4, <1>5
<1>9. i \in at
  BY <1>7, <1>8, LeastOf
<1>10. i \in 1..N /\ Named(Dir, i, n)
  BY <1>4, <1>5, <1>9
<1>11. InRoot(s.fat, i)
  BY <1>1, <1>10 DEF InRoot
<1>12. IsEntry(Dir[i]) /\ Dir[i].name = n
  BY <1>10 DEF Named
<1>13. \A k \in 1..(Width[n] - 1) : InRoot(s.fat, i - k)
  BY <1>1, <1>3, <1>10 DEF Named, InRoot
<1>14. i \in Slots
  BY <1>11, DirIs
<1> QED BY <1>11, <1>12, <1>13, <1>14

(* An operation is called whose plan is safe.                              *)
LEMMA CallHolds ==
  ASSUME IInv, NEW s, Backs(s), NEW X, Good(s, X), NEW op, NEW n, NEW to, NEW plan, Safe(s, plan, X),
         op \in Flaky => X = {}, Call(op, n, to, plan)
  PROVE  IInv'
<1>1. job' = [op |-> op, name |-> <<n>>, to |-> to, steps |-> plan, ok |-> TRUE]
  BY DEF Call
<1>2. job'.op = op /\ job'.steps = plan /\ JobIs'
  BY <1>1 DEF JobIs
<1>3. UNCHANGED <<dev, disk, now, log, hint, icache, open>>
  BY DEF Call
<1>4. Backs(s)'
  BY <1>3 DEF Backs
<1> QED BY <1>2, <1>3, <1>4 DEF IInv

(* create keeps the invariant.                                             *)
LEMMA CreateHolds ==
  ASSUME IInv, NEW n \in Names, Create(n) PROVE IInv'
<1>1. job = Idle /\ Call("create", n, File(<<>>), CreatePlan(n))
  BY DEF Create
<1>2. PICK s : Backs(s) /\ Good(s, {}) /\ IsNow(s) /\ s.core = icache
  BY <1>1, AtRest
<1>3. hint \in Clus
  BY DEF IInv
<1>4. PICK p, X : p = CreatePlan(n) /\ X = {}
  OBVIOUS
<1>5. Safe(s, p, X) /\ Good(s, X)
  BY <1>2, <1>3, <1>4, CreateSafe
<1>6. Call("create", n, File(<<>>), p)
  BY <1>1, <1>4
<1> QED BY <1>2, <1>4, <1>5, <1>6, CallHolds

(* mkdir keeps the invariant.                                              *)
LEMMA MkdirHolds ==
  ASSUME IInv, NEW n \in Names, Mkdir(n) PROVE IInv'
<1>1. job = Idle /\ Call("mkdir", n, Directory, MkdirPlan(n)) /\ FreeFrom(Fat, hint) # <<>>
  BY DEF Mkdir
<1>2. PICK s : Backs(s) /\ Good(s, {}) /\ IsNow(s) /\ s.core = icache
  BY <1>1, AtRest
<1>3. hint \in Clus
  BY DEF IInv
<1>4. PICK p, X : p = MkdirPlan(n) /\ X = {}
  OBVIOUS
<1>5. Safe(s, p, X) /\ Good(s, X)
  BY <1>1, <1>2, <1>3, <1>4, MkdirSafe
<1>6. Call("mkdir", n, Directory, p)
  BY <1>1, <1>4
<1> QED BY <1>2, <1>4, <1>5, <1>6, CallHolds

(* unlink keeps the invariant.                                             *)
LEMMA UnlinkHolds ==
  ASSUME UnlinkUndisturbed, IInv, NEW n \in Names, Unlink(n) PROVE IInv'
<1>1. job = Idle /\ Find(n) # 0 /\ Call("unlink", n, None, UnlinkPlan(Find(n)))
  BY DEF Unlink
<1>2. PICK s : Backs(s) /\ Good(s, {}) /\ IsNow(s) /\ s.core = icache
  BY <1>1, AtRest
<1>3. PICK i, X, p : i = Find(n) /\ X = {i} /\ p = UnlinkPlan(i)
  OBVIOUS
<1>4. /\ InRoot(s.fat, i) /\ IsEntry(Dir[i]) /\ Dir[i].name = n
      /\ \A k \in 1..(Width[n] - 1) : InRoot(s.fat, i - k)
  BY <1>1, <1>2, <1>3, FindIs
<1>5. PICK w : w = Width[Dir[i].name]
  OBVIOUS
<1>6. w = Width[n] /\ w \in Nat \ {0}
  <2>1. Width[n] \in 1..UNITS /\ UNITS \in Nat
    BY FatConstants
  <2> QED BY <1>4, <1>5, <2>1
<1>7. Safe(s, p, X)
  <2>1. \A k \in 1..(w - 1) : InRoot(s.fat, i - k)
    BY <1>4, <1>6
  <2> QED BY <1>2, <1>3, <1>4, <1>5, <1>6, <2>1, UnlinkSafe
<1>8. Good(s, X)
  BY <1>2, GoodLess
<1>9. Call("unlink", n, None, p) /\ ("unlink" \in Flaky => X = {})
  BY <1>1, <1>3 DEF UnlinkUndisturbed
<1> QED BY <1>2, <1>7, <1>8, <1>9, CallHolds

(* A write keeps the invariant.                                            *)
LEMMA WriteHolds ==
  ASSUME IInv, NEW n \in FileNames, NEW off \in Nat, NEW len \in Nat, Write(n, off, len) PROVE IInv'
<1>1. PICK i, u, p, X : i = Find(n) /\ u = Byte(n, 1) /\ p = WritePlan(i, off, len, u) /\ X = {}
  OBVIOUS
<1>2. job = Idle /\ i # 0 /\ \E to : Call("write", n, to, p)
  BY <1>1 DEF Write
<1>3. PICK s : Backs(s) /\ Good(s, {}) /\ IsNow(s) /\ s.core = icache
  BY <1>2, AtRest
<1>4. n \in Names /\ hint \in Clus
  BY DEF IInv, Names
<1>5. InRoot(s.fat, i) /\ i \in Slots
  BY <1>1, <1>2, <1>3, <1>4, FindIs
<1>6. u \in Blanks
  BY <1>1, BlankUnits
<1>7. Safe(s, p, X) /\ Good(s, X)
  BY <1>1, <1>3, <1>4, <1>5, <1>6, WriteSafe
<1>8. PICK to : Call("write", n, to, p)
  BY <1>2
<1> QED BY <1>1, <1>3, <1>7, <1>8, CallHolds

(* A truncate keeps the invariant.                                         *)
LEMMA TruncateHolds ==
  ASSUME IInv, NEW n \in FileNames, NEW size \in Nat, Truncate(n, size) PROVE IInv'
<1>1. PICK i, p, X : i = Find(n) /\ p = (IF size > icache[i].size THEN GrowPlan(i, size) ELSE ShrinkPlan(i, size)) /\ X = {}
  OBVIOUS
<1>2. job = Idle /\ i # 0 /\ \E to : Call("truncate", n, to, p)
  BY <1>1 DEF Truncate
<1>3. PICK s : Backs(s) /\ Good(s, {}) /\ IsNow(s) /\ s.core = icache
  BY <1>2, AtRest
<1>4. n \in Names /\ hint \in Clus
  BY DEF IInv, Names
<1>5. InRoot(s.fat, i) /\ i \in Slots
  BY <1>1, <1>2, <1>3, <1>4, FindIs
<1>6. Safe(s, GrowPlan(i, size), {})
  BY <1>3, <1>4, <1>5, GrowSafe
<1>7. Safe(s, ShrinkPlan(i, size), {})
  BY <1>3, <1>5, ShrinkSafe
<1>8. Safe(s, p, X) /\ Good(s, X)
  BY <1>1, <1>3, <1>6, <1>7
<1>9. PICK to : Call("truncate", n, to, p)
  BY <1>2
<1> QED BY <1>1, <1>3, <1>8, <1>9, CallHolds

(* At rest an in-core inode changes: the state stays good.                 *)
LEMMA CoreHolds ==
  ASSUME IInv, job = Idle, NEW s, Backs(s), NEW i, NEW in, NEW st, st = Core(i, in),
         NEW t, Does(s, st, t), Good(t, {}),
         icache' = [icache EXCEPT ![i] = in], UNCHANGED <<dev, disk, now, log, hint, job>>, open' \subseteq Slots
  PROVE  IInv'
<1>1. st.k = "core" /\ st.i = i /\ st.in = in
  BY DEF Core
<1>2. t.fat = s.fat /\ t.tabs = s.tabs /\ t.dat = s.dat /\ t.ent = s.ent /\ t.core = [s.core EXCEPT ![i] = in]
  BY <1>1 DEF Does, Sym
<1>3. Backs(t)'
  BY <1>2 DEF Backs, Shows, Leaves
<1>4. job'.steps = <<>> /\ job' = job
  BY DEF Idle
<1>5. Safe(t, job'.steps, {})
  BY <1>4, SafeNil
<1>6. JobIs' /\ dev' \in Devices /\ hint' \in Clus
  BY DEF IInv, JobIs
<1> QED BY <1>3, <1>5, <1>6 DEF IInv

(* Opening a file takes its inode in core as its entry has it.             *)
LEMMA OpenHolds ==
  ASSUME IInv, NEW n \in Names, Open(n) PROVE IInv'
<1>1. PICK i : i = Find(n)
  OBVIOUS
<1>2. /\ job = Idle /\ i # 0 /\ open' = open \cup {i} /\ icache' = [icache EXCEPT ![i] = Inode(i)]
      /\ UNCHANGED <<dev, disk, now, log, hint, job>>
  BY <1>1 DEF Open
<1>3. PICK s : Backs(s) /\ Good(s, {}) /\ IsNow(s) /\ s.core = icache
  BY <1>2, AtRest
<1>4. InRoot(s.fat, i) /\ IsEntry(Dir[i]) /\ i \in Slots
  BY <1>1, <1>2, <1>3, FindIs
<1>5. PICK c, j, e : c = SlotClus(i) /\ j = SlotUnit(i) /\ e = Dir[i]
  OBVIOUS
<1>6. c \in Clus /\ j \in 1..UNITS /\ SlotPlace(s.fat, i) = <<c, j>> /\ s.dat[c][j] = e /\ e \in Units
  BY <1>3, <1>4, <1>5, DirIs
<1>7. e \in Entries
  BY <1>4, <1>5, <1>6, BlanksAre DEF Units
<1>8. PICK st : st = Cached(i, e)
  OBVIOUS
<1>9. PICK t : Moves(s, st, t, {}) /\ Good(t, {})
  BY <1>3, <1>4, <1>6, <1>7, <1>8, CachedSafe
<1>10. PICK in : in = Inode(i)
  OBVIOUS
<1>11. st = Core(i, in)
  BY <1>4, <1>5, <1>8, <1>10 DEF Cached, Inode
<1>12. open' \subseteq Slots /\ icache' = [icache EXCEPT ![i] = in]
  BY <1>2, <1>4, <1>10 DEF IInv
<1> QED BY <1>2, <1>3, <1>9, <1>11, <1>12, CoreHolds DEF Moves

(* Dropping an inode from the cache keeps the invariant.                   *)
LEMMA TrimHolds ==
  ASSUME IInv, NEW i \in Slots, Trim(i) PROVE IInv'
<1>1. job = Idle /\ icache' = [icache EXCEPT ![i] = NoInode] /\ UNCHANGED <<dev, disk, now, log, hint, job, open>>
  BY DEF Trim
<1>2. PICK s : Backs(s) /\ Good(s, {}) /\ IsNow(s) /\ s.core = icache
  BY <1>1, AtRest
<1>3. PICK in, st : in = NoInode /\ st = Core(i, in)
  OBVIOUS
<1>4. in \in Inodes /\ in.first \notin Clus
  BY <1>3, NoInodeIs
<1>5. PICK t : Moves(s, st, t, {}) /\ Cored(s, st, t, {})
  BY <1>2, <1>3, <1>4, CoreAgain
<1>6. Does(s, st, t) /\ Good(t, {})
  BY <1>5 DEF Cored
<1>7. open' \subseteq Slots /\ icache' = [icache EXCEPT ![i] = in]
  BY <1>1, <1>3 DEF IInv
<1> QED BY <1>1, <1>2, <1>3, <1>6, <1>7, CoreHolds

(* A read moves only the cursor of the inode in core.                      *)
LEMMA ReadHolds ==
  ASSUME IInv, NEW i \in Slots, Read(i) PROVE IInv'
<1>1. PICK pos, c : pos = (icache[i].size - 1) \div UNITS /\ c = ChainAt(icache[i], Fat, pos, pos)
  OBVIOUS
<1>2. /\ job = Idle /\ icache[i].size > 0 /\ c # 0 /\ icache' = [icache EXCEPT ![i].cur = c, ![i].curi = pos]
      /\ UNCHANGED <<dev, disk, now, log, hint, job, open>>
  BY <1>1 DEF Read
<1>3. PICK s : Backs(s) /\ Good(s, {}) /\ IsNow(s) /\ s.core = icache
  BY <1>2, AtRest
<1>4. icache \in [Slots -> Inodes] /\ Fat \in Tables
  BY <1>3, GoodFacts DEF IsNow
<1>5. PICK old, F : old = icache[i] /\ F = Fat
  OBVIOUS
<1>6. old \in Inodes /\ F \in Tables
  BY <1>4, <1>5
<1>7. old.first \in Links /\ old.cur \in Links /\ old.size \in Nat /\ old.curi \in Nat
  BY <1>6 DEF Inodes
<1>8. c \in Links
  <2>1. PICK ch, k : /\ ch = Chain(F, IF old.cur # 0 /\ old.curi <= pos THEN old.cur ELSE old.first)
                     /\ k = pos + 1 - (IF old.cur # 0 /\ old.curi <= pos THEN old.curi ELSE 0)
    OBVIOUS
  <2>2. c = IF k \in DOMAIN ch THEN ch[k] ELSE 0
    BY <1>1, <1>5, <2>1 DEF ChainAt
  <2>3. ch \in Seq(Clus)
    BY <1>6, <1>7, <2>1, ChainType
  <2>4. k \in DOMAIN ch
    BY <1>2, <2>2
  <2> QED BY <2>2, <2>3, <2>4 DEF Links
<1>9. pos \in Nat
  <2>1. PICK m : m = old.size - 1
    OBVIOUS
  <2>2. m \in Nat /\ UNITS \in Nat /\ UNITS >= 1
    BY <1>2, <1>5, <1>7, <2>1, ConstFacts
  <2>3. m \div UNITS \in Nat
    BY <2>2
  <2> QED BY <1>1, <1>5, <2>1, <2>3
<1>10. PICK in, st : in = [old EXCEPT !.cur = c, !.curi = pos] /\ st = Core(i, in)
  OBVIOUS
<1>11. in \in Inodes /\ in.first = old.first
  BY <1>6, <1>8, <1>9, <1>10 DEF Inodes
<1>12. PICK t : Moves(s, st, t, {}) /\ Cored(s, st, t, {})
  <2>1. in.first = s.core[i].first
    BY <1>3, <1>5, <1>11
  <2> QED BY <1>3, <1>10, <1>11, <2>1, CoreAgain
<1>13. Does(s, st, t) /\ Good(t, {})
  BY <1>12 DEF Cored
<1>14. open' \subseteq Slots /\ icache' = [icache EXCEPT ![i] = in]
  <2>1. icache' = [icache EXCEPT ![i] = [icache[i] EXCEPT !.cur = c, !.curi = pos]]
    BY <1>2, <1>4, <1>5, <1>6 DEF Inodes
  <2> QED BY <1>2, <1>5, <1>10, <2>1 DEF IInv
<1> QED BY <1>2, <1>3, <1>10, <1>13, <1>14, CoreHolds

(* Closing a handle keeps the invariant.                                   *)
LEMMA CloseHolds ==
  ASSUME IInv, NEW i, Close(i) PROVE IInv'
<1>1. UNCHANGED <<dev, disk, now, log, hint, icache, job>> /\ open' \subseteq open
  BY DEF Close
<1>2. ASSUME NEW s, Backs(s) PROVE Backs(s)'
  BY <1>1, <1>2 DEF Backs
<1>3. JobIs'
  BY <1>1 DEF IInv, JobIs
<1> QED BY <1>1, <1>2, <1>3 DEF IInv

(* An operation that has no steps left is over.                            *)
LEMMA ReturnHolds ==
  ASSUME IInv, Return PROVE IInv'
<1>1. job.steps = <<>> /\ job' = Idle /\ UNCHANGED <<dev, disk, now, log, hint, icache, open>>
  BY DEF Return
<1>2. PICK s, X : Backs(s) /\ Safe(s, job.steps, X)
  BY DEF IInv
<1>3. Safe(s, <<>>, X)
  BY <1>1, <1>2
<1>4. Good(s, {})
  BY <1>3, SafeEnd
<1>5. job'.steps = <<>> /\ JobIs'
  BY <1>1 DEF Idle, JobIs
<1>6. Safe(s, job'.steps, {})
  BY <1>4, <1>5, SafeNil
<1>7. Backs(s)'
  BY <1>1, <1>2 DEF Backs
<1> QED BY <1>1, <1>4, <1>5, <1>6, <1>7 DEF IInv

(* A loss of power keeps the invariant.                                    *)
LEMMA CrashIsHeld ==
  ASSUME OneTableSector, IInv, Crash PROVE IInv'
<1>1. PICK img \in Images(disk, log) : now' = img /\ disk' = img
  BY DEF Crash
<1>2. log' = <<>> /\ hint' = 2 /\ icache' = NoCache /\ open' = {} /\ job' = Idle /\ dev' = dev
  BY DEF Crash
<1>3. PICK s, X : Backs(s) /\ Good(s, X)
  BY DEF IInv
<1>4. dev \in Devices /\ InOneSector(dev)
  BY DEF IInv, OneTableSector
<1>5. PICK l : l = <<>>
  OBVIOUS
<1>6. PICK t : /\ Good(t, {}) /\ t.core = NoCache
               /\ Drives(dev, img, img, l) /\ Shows(dev, img, t) /\ Leaves(dev, img, l, t)
  BY <1>1, <1>3, <1>4, <1>5, CrashHolds DEF Backs
<1>7. Backs(t)'
  BY <1>1, <1>2, <1>5, <1>6 DEF Backs
<1>8. job'.steps = <<>> /\ JobIs'
  BY <1>2 DEF Idle, JobIs
<1>9. Safe(t, job'.steps, {})
  BY <1>6, <1>8, SafeNil
<1>10. hint' \in Clus
  BY <1>2, ConstFacts DEF Root
<1>11. dev' \in Devices /\ open' \subseteq Slots
  BY <1>2, <1>4
<1> QED BY <1>6, <1>7, <1>8, <1>9, <1>10, <1>11 DEF IInv

(* The next step of a safe plan moves to a state that the rest is safe     *)
(* from.                                                                   *)
Stepping(s, X, t) ==
  /\ Backs(s) /\ Good(s, X) /\ (job.op \in Flaky => X = {})
  /\ Step \in Steps /\ Does(s, Step, t) /\ Good(t, X) /\ Safe(t, Tail(job.steps), X)
  /\ X = {} => Undoable(s, Step.undo) /\ (Step.k = "fat" => Undoable(t, Step.undo))

(* The next step of the plan leads to a state from which the rest is safe. *)
LEMMA StepsOn ==
  ASSUME IInv, job.steps # <<>>, Step.k # "refuse"
  PROVE  \E s, X, t : Stepping(s, X, t)
<1>1. PICK s, X : Backs(s) /\ Good(s, X) /\ Safe(s, job.steps, X) /\ (job.op \in Flaky => X = {})
  BY DEF IInv
<1>2. PICK t : Moves(s, Step, t, X) /\ Safe(t, Tail(job.steps), X)
  <2>1. PICK p : p = job.steps
    OBVIOUS
  <2>2. Safe(s, p, X) /\ p # <<>> /\ Head(p).k # "refuse"
    BY <1>1, <2>1 DEF Step
  <2>3. \E t : Moves(s, Head(p), t, X) /\ Safe(t, Tail(p), X)
    BY <2>2, SafeStep
  <2> QED BY <2>1, <2>3 DEF Step
<1>3. Stepping(s, X, t)
  BY <1>1, <1>2 DEF Stepping, Moves
<1> QED BY <1>3

(* What the job is after a step that was done, and after one that failed.  *)
LEMMA JobAfter ==
  ASSUME IInv
  PROVE  /\ Proceed => job'.steps = Tail(job.steps) /\ job'.op = job.op /\ JobIs'
         /\ GiveUp => job'.steps = Step.undo /\ job'.op = job.op /\ JobIs'
<1>1. PICK a, b, c, d, e : job = [op |-> a, name |-> b, to |-> c, steps |-> d, ok |-> e]
  BY DEF IInv, JobIs
<1>2. ASSUME Proceed PROVE job'.steps = Tail(job.steps) /\ job'.op = job.op /\ JobIs'
  <2>1. job' = [op |-> a, name |-> b, to |-> c, steps |-> Tail(d), ok |-> e]
    BY <1>1, <1>2 DEF Proceed
  <2> QED BY <1>1, <2>1 DEF JobIs
<1>3. ASSUME GiveUp PROVE job'.steps = Step.undo /\ job'.op = job.op /\ JobIs'
  <2>1. job' = [op |-> a, name |-> b, to |-> c, steps |-> Step.undo, ok |-> FALSE]
    BY <1>1, <1>3 DEF GiveUp
  <2> QED BY <1>1, <2>1 DEF JobIs
<1> QED BY <1>2, <1>3

(* fat_sector_write, in the model and in the lemmas.                       *)
LEMMA WroteIs ==
  ASSUME NEW sec, NEW val, SectorWrite(sec, val)
  PROVE  Wrote(dev, disk, now, log, disk', now', log', sec, val)
BY DEF SectorWrite, Wrote, SecWrite

(* A step is done.                                                         *)
LEMMA Proceeds ==
  ASSUME IInv, NEW s, NEW X, NEW t, Stepping(s, X, t), Proceed, dev' = dev, hint' \in Clus, open' = open, t.core = icache',
         Drives(dev, disk', now', log'), Shows(dev, now', t), Leaves(dev, disk', log', t)
  PROVE  IInv'
<1>1. job'.steps = Tail(job.steps) /\ job'.op = job.op /\ JobIs'
  BY JobAfter
<1>2. Backs(t)'
  BY DEF Backs
<1>3. Good(t, X) /\ Safe(t, job'.steps, X) /\ (job'.op \in Flaky => X = {})
  BY <1>1 DEF Stepping
<1>4. dev' \in Devices /\ open' \subseteq Slots
  BY DEF IInv
<1> QED BY <1>1, <1>2, <1>3, <1>4 DEF IInv

(* A sector of data is written.                                            *)
LEMMA DoDataHolds ==
  ASSUME IInv, DoData PROVE IInv'
<1>1. /\ job.steps # <<>> /\ Step.k \in {"data", "xfer"} /\ Proceed
      /\ SectorWrite(Step.c, Merge(Step.u, now[Step.c]))
      /\ UNCHANGED <<dev, hint, open>>
  BY DEF DoData, Going
<1>2. PICK s, X, t : Stepping(s, X, t)
  BY <1>1, StepsOn
<1>3. PICK st, c, val : st = Step /\ c = st.c /\ val = Merge(st.u, now[c])
  OBVIOUS
<1>4. Wrote(dev, disk, now, log, disk', now', log', c, val)
  BY <1>1, <1>3, WroteIs
<1>5. /\ Backs(s) /\ Good(s, X) /\ st \in Steps /\ Does(s, st, t) /\ Good(t, X) /\ st.k \in {"data", "xfer"}
      /\ dev \in Devices
  BY <1>1, <1>2, <1>3 DEF Stepping, IInv
<1>6. Drives(dev, disk, now, log) /\ Shows(dev, now, s) /\ Leaves(dev, disk, log, s)
  BY <1>5 DEF Backs
<1>7. PICK dk2, nw2, lg2 : dk2 = disk' /\ nw2 = now' /\ lg2 = log'
  OBVIOUS
<1>8. Drives(dev, dk2, nw2, lg2) /\ Shows(dev, nw2, t) /\ Leaves(dev, dk2, lg2, t)
  <2>1. Wrote(dev, disk, now, log, dk2, nw2, lg2, c, val)
    BY <1>4, <1>7
  <2> QED BY <1>3, <1>5, <1>6, <2>1, DataHolds
<1>9. t.core = icache'
  <2>1. t.core = IF st.k = "data" THEN s.core ELSE [s.core EXCEPT ![st.i].cur = st.c, ![st.i].curi = st.pos]
    BY <1>5 DEF Does, Sym
  <2>2. s.core = icache
    BY <1>5 DEF Backs
  <2>3. icache' = IF st.k = "data" THEN icache ELSE [icache EXCEPT ![st.i].cur = st.c, ![st.i].curi = st.pos]
    BY <1>3 DEF DoData
  <2> QED BY <2>1, <2>2, <2>3
<1>10. hint' \in Clus
  BY <1>1 DEF IInv
<1> QED BY <1>1, <1>2, <1>7, <1>8, <1>9, <1>10, Proceeds

(* A sector of the table is written.                                       *)
LEMMA FatWriteHolds ==
  ASSUME OneTableSector, IInv, NEW s, NEW X, NEW t, Stepping(s, X, t), Step.k = "fat", FatWrite
  PROVE  Drives(dev, disk', now', log') /\ Shows(dev, now', t) /\ Leaves(dev, disk', log', t)
<1>1. PICK st, c, sec, val : st = Step /\ c = st.c /\ sec = dev.fatsec[c] /\ val = [now[sec] EXCEPT ![c] = st.v]
  OBVIOUS
<1>2. SectorWrite(sec, val)
  BY <1>1 DEF FatWrite
<1>3. PICK dk2, nw2, lg2 : dk2 = disk' /\ nw2 = now' /\ lg2 = log'
  OBVIOUS
<1>4. Wrote(dev, disk, now, log, dk2, nw2, lg2, sec, val)
  BY <1>2, <1>3, WroteIs
<1>5. /\ Backs(s) /\ Good(s, X) /\ st \in Steps /\ Does(s, st, t) /\ Good(t, X) /\ st.k = "fat"
      /\ dev \in Devices /\ InOneSector(dev)
  BY <1>1 DEF Stepping, IInv, OneTableSector
<1>6. Drives(dev, disk, now, log) /\ Shows(dev, now, s) /\ Leaves(dev, disk, log, s)
  BY <1>5 DEF Backs
<1>7. Drives(dev, dk2, nw2, lg2) /\ Shows(dev, nw2, t) /\ Leaves(dev, dk2, lg2, t)
  BY <1>1, <1>4, <1>5, <1>6, FatHolds
<1> QED BY <1>3, <1>7

(* The table is changed and the operation goes on.                         *)
LEMMA DoFatHolds ==
  ASSUME OneTableSector, IInv, DoFat PROVE IInv'
<1>1. job.steps # <<>> /\ Step.k = "fat" /\ Proceed /\ FatWrite /\ UNCHANGED <<dev, icache, open>>
  BY DEF DoFat, Going
<1>2. PICK s, X, t : Stepping(s, X, t)
  BY <1>1, StepsOn
<1>3. Drives(dev, disk', now', log') /\ Shows(dev, now', t) /\ Leaves(dev, disk', log', t)
  BY <1>1, <1>2, FatWriteHolds
<1>4. PICK st : st = Step
  OBVIOUS
<1>5. st \in Steps /\ st.k = "fat" /\ Does(s, st, t) /\ s.core = icache
  BY <1>1, <1>2, <1>4 DEF Stepping, Backs
<1>6. t.core = icache'
  BY <1>1, <1>5 DEF Does, Sym
<1>7. st.c \in Clus
  BY <1>5 DEF Steps
<1>8. hint' \in Clus
  <2>1. hint \in Clus
    BY DEF IInv
  <2>2. HintAfter(st.c) \in Clus
    BY <1>7, ConstFacts DEF HintAfter, Clus
  <2>3. Min({hint, st.c}) \in Clus
    <3>1. PICK S : S = {hint, st.c}
      OBVIOUS
    <3>2. S \in SUBSET Nat /\ S # {} /\ S \subseteq Clus
      BY <1>7, <2>1, <3>1, ConstFacts
    <3>3. Min(S) \in S
      BY <3>2, LeastOf
    <3> QED BY <3>1, <3>2, <3>3
  <2>4. hint' = CASE st.hint = "next" -> HintAfter(st.c) [] st.hint = "low" -> Min({hint, st.c}) [] OTHER -> hint
    BY <1>4 DEF DoFat
  <2>5. hint' = HintAfter(st.c) \/ hint' = Min({hint, st.c}) \/ hint' = hint
    BY <2>4
  <2> QED BY <2>1, <2>2, <2>3, <2>5
<1> QED BY <1>1, <1>2, <1>3, <1>6, <1>8, Proceeds

(* The drive's cache is flushed.                                           *)
LEMMA DoBarrierHolds ==
  ASSUME IInv, DoBarrier PROVE IInv'
<1>1. /\ job.steps # <<>> /\ Step.k = "barrier" /\ Proceed /\ disk' = now /\ log' = <<>>
      /\ UNCHANGED <<dev, now, hint, icache, open>>
  BY DEF DoBarrier, Going
<1>2. PICK s, X, t : Stepping(s, X, t)
  BY <1>1, StepsOn
<1>3. PICK st, l : st = Step /\ l = <<>>
  OBVIOUS
<1>4. st.k = "barrier" /\ Does(s, st, t) /\ s.core = icache /\ Drives(dev, disk, now, log) /\ Shows(dev, now, s) /\ dev \in Devices
  BY <1>1, <1>2, <1>3 DEF Stepping, Backs, IInv
<1>5. Drives(dev, now, now, l) /\ Shows(dev, now, t) /\ Leaves(dev, now, l, t)
  BY <1>3, <1>4, FlushHolds
<1>6. t.core = icache'
  BY <1>1, <1>4 DEF Does, Sym
<1>7. hint' \in Clus
  BY <1>1 DEF IInv
<1>8. Drives(dev, disk', now', log') /\ Shows(dev, now', t) /\ Leaves(dev, disk', log', t)
  BY <1>1, <1>3, <1>5
<1> QED BY <1>1, <1>2, <1>6, <1>7, <1>8, Proceeds

(* An inode in core is changed.                                            *)
LEMMA DoCoreHolds ==
  ASSUME IInv, DoCore PROVE IInv'
<1>1. /\ job.steps # <<>> /\ Step.k = "core" /\ Proceed /\ icache' = [icache EXCEPT ![Step.i] = Step.in]
      /\ UNCHANGED <<dev, disk, now, log, hint, open>>
  BY DEF DoCore, Going
<1>2. PICK s, X, t : Stepping(s, X, t)
  BY <1>1, StepsOn
<1>3. PICK st : st = Step
  OBVIOUS
<1>4. st.k = "core" /\ Does(s, st, t) /\ Backs(s)
  BY <1>1, <1>2, <1>3 DEF Stepping
<1>5. t.fat = s.fat /\ t.tabs = s.tabs /\ t.dat = s.dat /\ t.ent = s.ent /\ t.core = [s.core EXCEPT ![st.i] = st.in]
  BY <1>4 DEF Does, Sym
<1>6. Drives(dev, disk', now', log') /\ Shows(dev, now', t) /\ Leaves(dev, disk', log', t)
  BY <1>1, <1>4, <1>5 DEF Backs, Shows, Leaves
<1>7. t.core = icache'
  BY <1>1, <1>3, <1>4, <1>5 DEF Backs
<1>8. hint' \in Clus
  BY <1>1 DEF IInv
<1> QED BY <1>1, <1>2, <1>6, <1>7, <1>8, Proceeds

(* A step fails: what it undoes is safe.                                   *)
LEMMA GivesUp ==
  ASSUME IInv, NEW t, Good(t, {}), Undoable(t, Step.undo), GiveUp, UNCHANGED <<dev, hint, open>>, t.core = icache',
         Drives(dev, disk', now', log'), Shows(dev, now', t), Leaves(dev, disk', log', t)
  PROVE  IInv'
<1>1. job'.steps = Step.undo /\ JobIs'
  BY JobAfter
<1>2. Backs(t)'
  BY DEF Backs
<1>3. PICK u : u = Step.undo
  OBVIOUS
<1>4. Safe(t, u, {})
  BY <1>3, UndoSafe
<1>5. Safe(t, job'.steps, {})
  BY <1>1, <1>3, <1>4
<1>6. dev' \in Devices /\ open' \subseteq Slots /\ hint' \in Clus
  BY DEF IInv
<1> QED BY <1>1, <1>2, <1>5, <1>6 DEF IInv

(* The operation is refused for want of room.                              *)
LEMMA DoRefuseHolds ==
  ASSUME IInv, DoRefuse PROVE IInv'
<1>1. /\ job.steps # <<>> /\ Step.k = "refuse" /\ GiveUp
      /\ UNCHANGED <<dev, disk, now, log, hint, icache, open>>
  BY DEF DoRefuse, Going
<1>2. PICK s, X : Backs(s) /\ Good(s, X) /\ Safe(s, job.steps, X)
  BY DEF IInv
<1>3. X = {} /\ Undoable(s, Step.undo)
  <2>1. PICK p : p = job.steps
    OBVIOUS
  <2>2. Safe(s, p, X) /\ p # <<>> /\ Head(p).k = "refuse"
    BY <1>1, <1>2, <2>1 DEF Step
  <2>3. X = {} /\ Undoable(s, Head(p).undo)
    BY <2>2, SafeStops
  <2> QED BY <2>1, <2>3 DEF Step
<1>4. Good(s, {})
  BY <1>2, <1>3
<1>5. s.core = icache' /\ Drives(dev, disk', now', log') /\ Shows(dev, now', s) /\ Leaves(dev, disk', log', s)
  BY <1>1, <1>2 DEF Backs
<1> QED BY <1>1, <1>3, <1>4, <1>5, GivesUp

(* The device reports an error, the write done or not done.                *)
LEMMA IoErrorHolds ==
  ASSUME OneTableSector, IInv, IoError PROVE IInv'
<1>1. /\ job.steps # <<>> /\ Step.k # "refuse" /\ GiveUp /\ job.op \in Flaky
      /\ UNCHANGED <<disk, now, log>> \/ (Step.k = "fat" /\ FatWrite)
      /\ UNCHANGED <<dev, hint, icache, open>>
  BY DEF IoError, Going
<1>2. PICK s, X, t : Stepping(s, X, t)
  BY <1>1, StepsOn
<1>3. /\ Backs(s) /\ Good(s, {}) /\ Good(t, {}) /\ Undoable(s, Step.undo)
      /\ (Step.k = "fat" => Undoable(t, Step.undo))
  BY <1>1, <1>2 DEF Stepping
<1>4. CASE UNCHANGED <<disk, now, log>>
  <2>1. s.core = icache' /\ Drives(dev, disk', now', log') /\ Shows(dev, now', s) /\ Leaves(dev, disk', log', s)
    BY <1>1, <1>3, <1>4 DEF Backs
  <2> QED BY <1>1, <1>3, <2>1, GivesUp
<1>5. CASE Step.k = "fat" /\ FatWrite
  <2>1. Drives(dev, disk', now', log') /\ Shows(dev, now', t) /\ Leaves(dev, disk', log', t)
    BY <1>2, <1>5, FatWriteHolds
  <2>2. t.core = icache'
    <3>1. PICK st : st = Step
      OBVIOUS
    <3>2. Does(s, st, t) /\ st.k = "fat" /\ s.core = icache
      BY <1>2, <1>5, <3>1 DEF Stepping, Backs
    <3> QED BY <1>1, <3>2 DEF Does, Sym
  <2> QED BY <1>1, <1>3, <1>5, <2>1, <2>2, GivesUp
<1> QED BY <1>1, <1>4, <1>5

(* Every step keeps the invariant.                                         *)
LEMMA NextHolds ==
  ASSUME OneTableSector, UnlinkUndisturbed, IInv, [Next]_vars PROVE IInv'
<1>1. CASE UNCHANGED vars
  <2>1. UNCHANGED <<dev, disk, now, log, hint, icache, open, job>>
    BY <1>1 DEF vars
  <2>2. ASSUME NEW s, Backs(s) PROVE Backs(s)'
    BY <2>1, <2>2 DEF Backs
  <2>3. JobIs'
    BY <2>1 DEF IInv, JobIs
  <2> QED BY <2>1, <2>2, <2>3 DEF IInv
<1>2. ASSUME NEW n \in Names, Create(n) \/ Mkdir(n) \/ Unlink(n) \/ Open(n) PROVE IInv'
  BY <1>2, CreateHolds, MkdirHolds, UnlinkHolds, OpenHolds
<1>3. ASSUME NEW n \in FileNames, NEW w \in Writes, Write(n, w[1], w[2]) PROVE IInv'
  <2>1. w[1] \in Nat /\ w[2] \in Nat
    BY FatConstants
  <2> QED BY <1>3, <2>1, WriteHolds
<1>4. ASSUME NEW n \in FileNames, NEW size \in Sizes, Truncate(n, size) PROVE IInv'
  <2>1. size \in Nat
    BY FatConstants
  <2> QED BY <1>4, <2>1, TruncateHolds
<1>5. ASSUME NEW i \in Slots, Close(i) \/ Trim(i) \/ Read(i) PROVE IInv'
  BY <1>5, CloseHolds, TrimHolds, ReadHolds
<1>6. CASE DoData \/ DoFat \/ DoBarrier \/ DoCore \/ DoRefuse \/ IoError
  BY <1>6, DoDataHolds, DoFatHolds, DoBarrierHolds, DoCoreHolds, DoRefuseHolds, IoErrorHolds
<1>7. CASE Return \/ Crash
  BY <1>7, ReturnHolds, CrashIsHeld
<1> QED BY <1>1, <1>2, <1>3, <1>4, <1>5, <1>6, <1>7 DEF Next

(* What the invariant says of the claims: each cluster a live entry has a  *)
(* claim on is in the chain of a claim that its place has.                 *)
Answers(F, E, i, a) ==
  IF i = 0 THEN a = Own(F, Root)
  ELSE /\ InRoot(F, i)
       /\ \A c \in a : \E b \in Clus : <<SlotPlace(F, i), b>> \in E /\ c \in Own(F, b)

(* Every claim that ChainsSound is about is one the table serves.          *)
LEMMA ClaimsAnswer ==
  ASSUME IInv
  PROVE  \E s, E : /\ s.fat = Fat /\ s.fat \in Tables /\ E \in SUBSET AllClaims /\ Sound(s.fat, E)
                   /\ \A a \in Claims : Answers(s.fat, E, a[1], a[2])
<1>1. PICK s, X : Backs(s) /\ Good(s, X) /\ (job = Idle => X = {})
  <2>1. PICK s, X : Backs(s) /\ Good(s, X)
    BY DEF IInv
  <2>2. CASE job = Idle
    BY <2>2, AtRest
  <2>3. CASE job # Idle
    BY <2>1, <2>3
  <2> QED BY <2>2, <2>3
<1>2. PICK F, E, ch : F = s.fat /\ E = (s.ent \cup CoreClaims(s.fat, s.core, X)) /\ ch = Chain(F, Root)
  OBVIOUS
<1>3. IsNow(s) /\ F = Fat /\ s.core = icache /\ icache \in [Slots -> Inodes]
  BY <1>1, <1>2, NowIs, GoodFacts DEF IsNow, Backs
<1>4. F \in Tables /\ E \in SUBSET AllClaims /\ Sound(F, E) /\ ch \in Seq(Clus)
  BY <1>1, <1>2, GoodFacts
<1>5. ASSUME NEW a \in Claims PROVE Answers(F, E, a[1], a[2])
  <2>1. CASE a = <<0, Own(F, Root)>>
    BY <2>1 DEF Answers
  <2>2. ASSUME NEW i \in Visible(Dir), IsEntry(Dir[i]),
               a = <<i, Own(F, Dir[i].first) \cup
                        (IF job = Idle /\ icache[i] # NoInode THEN Own(F, icache[i].first) ELSE {})>>
        PROVE  Answers(F, E, a[1], a[2])
    <3>1. i \in 1..(Len(ch) * UNITS)
      <4>1. PICK N : N = Len(ch) * UNITS
        OBVIOUS
      <4>2. N \in Nat
        BY <1>4, <4>1, ConstFacts
      <4>3. DOMAIN Dir = 1..N
        BY <1>2, <1>3, <4>1 DEF Dir, Records
      <4>4. Visible(Dir) \subseteq 1..N
        BY <4>2, <4>3, VisibleIn
      <4> QED BY <2>2, <4>1, <4>4
    <3>2. InRoot(F, i) /\ i # 0
      BY <1>2, <3>1 DEF InRoot
    <3>3. PICK c, j, e : c = SlotClus(i) /\ j = SlotUnit(i) /\ e = Dir[i]
      OBVIOUS
    <3>4. /\ c \in Clus /\ j \in 1..UNITS /\ SlotPlace(F, i) = <<c, j>> /\ e = s.dat[c][j] /\ e \in Units
          /\ i \in Slots
      BY <1>1, <1>2, <1>3, <3>2, <3>3, DirIs
    <3>5. e \in Entries
      BY <2>2, <3>3, <3>4, BlanksAre DEF Units
    <3>6. e.first \in Links
      BY <3>5 DEF Entries
    <3>7. ASSUME NEW x \in Own(F, e.first)
          PROVE  \E b \in Clus : <<SlotPlace(F, i), b>> \in E /\ x \in Own(F, b)
      <4>1. e.first \in Clus
        <5>1. e.first \notin Clus => Chain(F, e.first) = <<>>
          BY <1>4, <3>6, ChainType
        <5>2. Range(<<>>) = {}
          BY DEF Range
        <5> QED BY <3>7, <5>1, <5>2 DEF Own
      <4>2. PICK z : z = <<<<c, j>>, e.first>>
        OBVIOUS
      <4>3. z \in AllClaims /\ z[1][1] = c /\ z[1][2] = j /\ z[2] = e.first
        BY <3>4, <4>1, <4>2 DEF AllClaims, Places
      <4>4. z \in DatClaims(s.dat)
        BY <2>2, <3>3, <3>4, <4>3 DEF DatClaims
      <4>5. DatClaims(s.dat) \subseteq s.ent
        BY <1>1 DEF Good, SymType
      <4>6. z \in E
        BY <1>2, <4>4, <4>5
      <4> QED BY <3>4, <3>7, <4>1, <4>2, <4>6
    <3>8. ASSUME job = Idle, NEW x \in Own(F, icache[i].first)
          PROVE  \E b \in Clus : <<SlotPlace(F, i), b>> \in E /\ x \in Own(F, b)
      <4>1. PICK f : f = icache[i].first
        OBVIOUS
      <4>2. f \in Links
        BY <1>3, <3>4, <4>1 DEF Inodes
      <4>3. f \in Clus
        <5>1. f \notin Clus => Chain(F, f) = <<>>
          BY <1>4, <4>2, ChainType
        <5>2. Range(<<>>) = {}
          BY DEF Range
        <5> QED BY <3>8, <4>1, <5>1, <5>2 DEF Own
      <4>4. i \in Slots \ X
        BY <1>1, <3>4, <3>8
      <4>5. <<SlotPlace(F, i), f>> \in CoreClaims(F, icache, X)
        BY <4>1, <4>3, <4>4 DEF CoreClaims
      <4>6. <<SlotPlace(F, i), f>> \in E
        BY <1>2, <1>3, <4>5
      <4> QED BY <3>8, <4>1, <4>3, <4>6
    <3>9. \A x \in a[2] : \E b \in Clus : <<SlotPlace(F, i), b>> \in E /\ x \in Own(F, b)
      <4> TAKE x \in a[2]
      <4>1. x \in Own(F, e.first) \/ (job = Idle /\ x \in Own(F, icache[i].first))
        BY <2>2, <3>3
      <4> QED BY <3>7, <3>8, <4>1
    <3>10. a[1] = i
      BY <2>2
    <3> QED BY <3>2, <3>9, <3>10 DEF Answers
  <2> QED BY <1>3, <2>1, <2>2 DEF Claims, Own
<1> QED BY <1>2, <1>3, <1>4, <1>5

(* No two live entries share a cluster, and none leads into free space.    *)
LEMMA InvSound ==
  ASSUME IInv PROVE ChainsSound
<1>1. PICK s, E : /\ s.fat = Fat /\ s.fat \in Tables /\ E \in SUBSET AllClaims /\ Sound(s.fat, E)
                  /\ \A a \in Claims : Answers(s.fat, E, a[1], a[2])
  BY ClaimsAnswer
<1>2. PICK F : F = s.fat
  OBVIOUS
<1>3. F = Fat /\ F \in Tables /\ E \in SUBSET AllClaims /\ Sound(F, E) /\ \A a \in Claims : Answers(F, E, a[1], a[2])
  BY <1>1, <1>2
<1>4. Path(F, Chain(F, Root))
  BY <1>3, RootIs DEF Sound
<1>5. ASSUME NEW a \in Claims, NEW c \in a[2]
      PROVE  \E z \in E \cup {RootClaim} :
               /\ c \in Own(F, z[2])
               /\ IF a[1] = 0 THEN z = RootClaim ELSE InRoot(F, a[1]) /\ z \in E /\ z[1] = SlotPlace(F, a[1])
  <2>1. Answers(F, E, a[1], a[2])
    BY <1>3
  <2>2. CASE a[1] = 0
    BY <1>5, <2>1, <2>2, RootIs DEF Answers
  <2>3. CASE a[1] # 0
    <3>1. PICK b \in Clus : <<SlotPlace(F, a[1]), b>> \in E /\ c \in Own(F, b)
      BY <1>5, <2>1, <2>3 DEF Answers
    <3>2. PICK z : z = <<SlotPlace(F, a[1]), b>>
      OBVIOUS
    <3>3. z[1] = SlotPlace(F, a[1]) /\ z[2] = b /\ z \in E
      BY <3>1, <3>2
    <3>4. InRoot(F, a[1])
      BY <2>1, <2>3 DEF Answers
    <3> QED BY <2>3, <3>1, <3>3, <3>4
  <2> QED BY <2>2, <2>3
<1>6. ASSUME NEW a \in Claims, NEW b \in Claims, a[1] # b[1], NEW c \in a[2], c \in b[2] PROVE FALSE
  <2>1. PICK y \in E \cup {RootClaim} :
          /\ c \in Own(F, y[2])
          /\ IF a[1] = 0 THEN y = RootClaim ELSE InRoot(F, a[1]) /\ y \in E /\ y[1] = SlotPlace(F, a[1])
    BY <1>5
  <2>2. PICK z \in E \cup {RootClaim} :
          /\ c \in Own(F, z[2])
          /\ IF b[1] = 0 THEN z = RootClaim ELSE InRoot(F, b[1]) /\ z \in E /\ z[1] = SlotPlace(F, b[1])
    BY <1>5, <1>6
  <2>3. \A x \in E : x[1] # RootClaim[1]
    <3> TAKE x \in E
    <3>1. x[1][2] \in 1..UNITS
      BY <1>3 DEF AllClaims, Places
    <3>2. RootClaim[1][2] = 0
      BY DEF RootClaim
    <3>3. x[1][2] # 0
      BY <3>1, ConstFacts
    <3> QED BY <3>2, <3>3
  <2>4. y[1] # z[1]
    <3>1. CASE a[1] = 0 \/ b[1] = 0
      BY <1>6, <2>1, <2>2, <2>3, <3>1
    <3>2. CASE a[1] # 0 /\ b[1] # 0
      <4>1. PICK i, k, ch : i = a[1] /\ k = b[1] /\ ch = Chain(F, Root)
        OBVIOUS
      <4>2. InRoot(F, i) /\ InRoot(F, k) /\ i # k /\ Path(F, ch) /\ y[1] = SlotPlace(F, i) /\ z[1] = SlotPlace(F, k)
        BY <1>4, <1>6, <2>1, <2>2, <3>2, <4>1
      <4>3. SlotPlace(F, i) # SlotPlace(F, k)
        BY <1>3, <4>1, <4>2, PlaceOnce
      <4> QED BY <4>2, <4>3
    <3> QED BY <3>1, <3>2
  <2>5. Own(F, y[2]) \cap Own(F, z[2]) = {}
    BY <1>3, <2>4 DEF Sound
  <2> QED BY <2>1, <2>2, <2>5
<1>7. NoSharedClusters
  BY <1>6 DEF NoSharedClusters
<1>8. ASSUME NEW a \in Claims, NEW c \in a[2] PROVE Fat[c] # FREE
  <2>1. PICK z \in E \cup {RootClaim} : c \in Own(F, z[2])
    BY <1>5, <1>8
  <2>2. PICK g : g = Chain(F, z[2])
    OBVIOUS
  <2>3. Path(F, g)
    BY <1>3, <2>2 DEF Sound
  <2>4. PICK k \in 1..Len(g) : g[k] = c
    BY <2>1, <2>2, <2>3 DEF Own, Range, Path
  <2> QED BY <1>3, <2>3, <2>4, PathUsed
<1> QED BY <1>7, <1>8 DEF ChainsSound

-----------------------------------------------------------------------------
(* The volume an earlier boot left.                                        *)

(* The files in some order, each once.                                     *)
LEMMA FileSeqIs ==
  /\ FileSeq \in Seq(FileNames) /\ Len(FileSeq) = Cardinality(FileNames) /\ Cardinality(FileNames) \in Nat
  /\ \A j, k \in 1..Len(FileSeq) : FileSeq[j] = FileSeq[k] => j = k
  /\ \A n \in FileNames : \E k \in 1..Len(FileSeq) : FileSeq[k] = n
<1>1. PICK N : N = Cardinality(FileNames)
  OBVIOUS
<1>2. N \in Nat /\ IsFiniteSet(FileNames) /\ ExistsBijection(1..N, FileNames)
  BY <1>1, FatVolumes, FS_CardinalityType
<1>3. PICK g : g \in Bijection(1..N, FileNames)
  BY <1>2 DEF ExistsBijection
<1>4. g \in [1..N -> FileNames] /\ IsInjective(g)
  BY <1>3 DEF Bijection, Injection
<1>5. PICK f : f = FileSeq
  OBVIOUS
<1>6. f \in [1..N -> FileNames] /\ IsInjective(f)
  <2>1. \E h \in [1..N -> FileNames] : IsInjective(h)
    BY <1>4
  <2>2. f = CHOOSE h \in [1..N -> FileNames] : IsInjective(h)
    BY <1>1, <1>5 DEF FileSeq, SetToSeq
  <2> QED BY <2>1, <2>2
<1>7. \A j, k \in 1..N : f[j] = f[k] => j = k
  BY <1>6 DEF IsInjective
<1>8. f \in Injection(1..N, FileNames)
  BY <1>6 DEF Injection
<1>9. IsFiniteSet(1..N) /\ Cardinality(1..N) = N
  <2>1. 1 \in Int /\ N \in Int
    BY <1>2
  <2>2. IsFiniteSet(1..N) /\ Cardinality(1..N) = IF 1 > N THEN 0 ELSE N - 1 + 1
    BY <2>1, FS_Interval
  <2> QED BY <1>2, <2>2
<1>10. f \in Surjection(1..N, FileNames)
  <2>1. PICK S : S = 1..N
    OBVIOUS
  <2>2. f \in Injection(S, FileNames) /\ Cardinality(S) = Cardinality(FileNames)
    BY <1>1, <1>8, <1>9, <2>1
  <2>3. f \in Surjection(S, FileNames)
    BY <1>2, <2>2, FS_Injection
  <2> QED BY <2>1, <2>3
<1>11. \A n \in FileNames : \E k \in 1..N : f[k] = n
  BY <1>10 DEF Surjection
<1>12. f \in Seq(FileNames) /\ Len(f) = N
  BY <1>2, <1>6
<1> QED BY <1>1, <1>2, <1>5, <1>7, <1>11, <1>12

(* The number of a file in that order.                                     *)
Rank(n) == CHOOSE k \in DOMAIN FileSeq : FileSeq[k] = n

(* The numbers of the files are different and in range.                    *)
LEMMA RankIs ==
  /\ \A n \in FileNames : Rank(n) \in 1..Cardinality(FileNames) /\ FileSeq[Rank(n)] = n
  /\ \A m, n \in FileNames : Rank(m) = Rank(n) => m = n
<1>1. PICK N : N = Cardinality(FileNames)
  OBVIOUS
<1>2. DOMAIN FileSeq = 1..N /\ N \in Nat
  BY <1>1, FileSeqIs
<1>3. ASSUME NEW n \in FileNames PROVE Rank(n) \in 1..N /\ FileSeq[Rank(n)] = n
  <2>1. \E k \in DOMAIN FileSeq : FileSeq[k] = n
    BY <1>1, <1>2, FileSeqIs
  <2>2. Rank(n) \in DOMAIN FileSeq /\ FileSeq[Rank(n)] = n
    BY <2>1 DEF Rank
  <2> QED BY <1>2, <2>2
<1> QED BY <1>1, <1>3

(* Where the files' clusters are.                                          *)
LEMMA HomeIs ==
  ASSUME NEW v \in Volumes
  PROVE  /\ \A n \in FileNames : /\ v.size[n] \in Int
                                 /\ v.size[n] <= 0 => Home(v, n) = 0
                                 /\ v.size[n] > 0 => Home(v, n) = Root + Rank(n)
                                 /\ Tail2(n) = Root + Cardinality(FileNames) + Rank(n)
                                 /\ Root + Rank(n) \in Clus /\ Tail2(n) \in Clus /\ Root + Rank(n) # Root /\ Tail2(n) # Root
         /\ \A m, n \in FileNames : /\ Root + Rank(m) = Root + Rank(n) => m = n
                                    /\ Tail2(m) = Tail2(n) => m = n
                                    /\ Tail2(m) # Root + Rank(n)
<1>1. PICK N : N = Cardinality(FileNames)
  OBVIOUS
<1>2. N \in Nat /\ Len(FileSeq) = N /\ 1 + 2 * N <= CLUSTERS /\ CLUSTERS \in Nat
  BY <1>1, FileSeqIs, FatVolumes, ConstFacts
<1>3. ASSUME NEW n \in FileNames
      PROVE  /\ v.size[n] \in Int
             /\ v.size[n] <= 0 => Home(v, n) = 0
             /\ v.size[n] > 0 => Home(v, n) = Root + Rank(n)
             /\ Tail2(n) = Root + N + Rank(n)
  <2>1. UNITS \in Nat
    BY ConstFacts
  <2>2. v.size[n] \in Int
    BY <2>1, FatVolumes
  <2> QED BY <1>2, <2>2 DEF Home, Tail2, Rank
<1>4. ASSUME NEW n \in FileNames
      PROVE  /\ Rank(n) \in 1..N /\ Root + Rank(n) \in Clus /\ Root + N + Rank(n) \in Clus
             /\ Root + Rank(n) # Root /\ Root + N + Rank(n) # Root
  <2>1. Rank(n) \in 1..N
    BY <1>1, RankIs
  <2> QED BY <1>2, <2>1 DEF Root, Clus
<1>5. ASSUME NEW m \in FileNames, NEW n \in FileNames
      PROVE  /\ Root + Rank(m) = Root + Rank(n) => m = n
             /\ Root + N + Rank(m) = Root + N + Rank(n) => m = n
             /\ Root + N + Rank(m) # Root + Rank(n)
  <2>1. PICK a, b : a = Rank(m) /\ b = Rank(n)
    OBVIOUS
  <2>2. a \in 1..N /\ b \in 1..N
    BY <1>4, <2>1
  <2>3. a = b => m = n
    BY <2>1, RankIs
  <2>4. (Root + a = Root + b => a = b) /\ (Root + N + a = Root + N + b => a = b) /\ Root + N + a # Root + b
    BY <1>2, <2>2 DEF Root
  <2> QED BY <2>1, <2>3, <2>4
<1> QED BY <1>1, <1>3, <1>4, <1>5

(* The parts of a formatted volume: its entries, its sectors, its table.   *)
Present(v) == Taken(FileSeq, {n \in FileNames : v.size[n] >= 0})
Homes(v) == {<<Home(v, n), n>> : n \in FileNames}
FirstUnits(v, c) ==
  [j \in 1..UNITS |->
     IF c = Root THEN IF j <= Len(Present(v)) THEN Unit("file", Present(v)[j], Home(v, Present(v)[j]), v.size[Present(v)[j]]) ELSE Zero
     ELSE IF \E h \in Homes(v) : h[1] = c /\ j <= v.size[h[2]]
     THEN Byte((CHOOSE h \in Homes(v) : h[1] = c)[2], 0) ELSE Stale]
FirstTable(v) ==
  [c \in Clus |->
     IF \E n \in v.long : Home(v, n) = c
     THEN Tail2(CHOOSE n \in v.long : Home(v, n) = c)
     ELSE IF \/ c = Root \/ (\E h \in Homes(v) : h[1] = c)
             \/ (\E n \in v.long : Tail2(n) = c) THEN EOC
     ELSE FREE]

(* Its entries are of files, each at most once.                            *)
LEMMA PresentIs ==
  ASSUME NEW v \in Volumes
  PROVE  /\ Len(Present(v)) \in Nat
         /\ \A j \in 1..Len(Present(v)) : Present(v)[j] \in FileNames /\ v.size[Present(v)[j]] >= 0
         /\ \A j, k \in 1..Len(Present(v)) : Present(v)[j] = Present(v)[k] => j = k
<1>1. PICK S, t, fs : S = {n \in FileNames : v.size[n] >= 0} /\ t = Present(v) /\ fs = FileSeq
  OBVIOUS
<1>2. fs \in Seq(FileNames) /\ \A j, k \in 1..Len(fs) : fs[j] = fs[k] => j = k
  BY <1>1, FileSeqIs
<1>3. t = Taken(fs, S)
  BY <1>1 DEF Present
<1>4. t \in Seq(FileNames) /\ TakesAll(fs, S, t)
  BY <1>2, <1>3, TakenAll
<1>5. Len(t) \in Nat
  BY <1>4
<1>6. \A j, k \in 1..Len(t) : t[j] = t[k] => j = k
  BY <1>2, <1>4, <1>5, TakenOnce
<1>7. \A j \in 1..Len(t) : t[j] \in S
  BY <1>4 DEF TakesAll
<1> QED BY <1>1, <1>5, <1>6, <1>7

(* The table of a formatted volume.                                        *)
LEMMA FirstTableIs ==
  ASSUME NEW v \in Volumes
  PROVE  /\ FirstTable(v) \in Tables /\ FirstTable(v)[Root] = EOC
         /\ \A n \in FileNames : v.size[n] > 0 =>
              \/ FirstTable(v)[Home(v, n)] = EOC
              \/ FirstTable(v)[Home(v, n)] = Tail2(n) /\ FirstTable(v)[Tail2(n)] = EOC
<1>1. v.long \subseteq FileNames /\ \A n \in v.long : v.size[n] > 0
  BY FatVolumes
<1>2. PICK F : F = FirstTable(v)
  OBVIOUS
<1>3. ASSUME NEW c \in Clus, NEW n \in v.long, Home(v, n) = c
      PROVE  F[c] = Tail2(n) /\ n \in FileNames
  <2>1. PICK m : m = CHOOSE x \in v.long : Home(v, x) = c
    OBVIOUS
  <2>2. m \in v.long /\ Home(v, m) = c
    BY <1>3, <2>1
  <2>3. m \in FileNames /\ n \in FileNames /\ Home(v, m) = Root + Rank(m) /\ Home(v, n) = Root + Rank(n)
    BY <1>1, <2>2, HomeIs
  <2>4. m = n
    BY <1>3, <2>2, <2>3, HomeIs
  <2> QED BY <1>2, <1>3, <2>1, <2>3, <2>4 DEF FirstTable
<1>4. ASSUME NEW c \in Clus, ~\E n \in v.long : Home(v, n) = c
      PROVE  /\ F[c] \in {EOC, FREE}
             /\ (c = Root \/ (\E h \in Homes(v) : h[1] = c) \/ (\E n \in v.long : Tail2(n) = c)) => F[c] = EOC
  BY <1>2, <1>4 DEF FirstTable
<1>5. F \in Tables
  <2>1. ASSUME NEW c \in Clus PROVE F[c] \in Links
    <3>1. CASE \E n \in v.long : Home(v, n) = c
      BY <1>3, <3>1, HomeIs DEF Links
    <3>2. CASE ~\E n \in v.long : Home(v, n) = c
      BY <1>4, <3>2 DEF Links
    <3> QED BY <3>1, <3>2
  <2>2. F = [c \in Clus |-> F[c]]
    BY <1>2 DEF FirstTable
  <2> QED BY <2>1, <2>2 DEF Tables
<1>6. F[Root] = EOC
  <2>1. \A n \in v.long : Home(v, n) # Root
    BY <1>1, HomeIs
  <2> QED BY <1>4, <2>1, ConstFacts
<1>7. ASSUME NEW n \in FileNames, v.size[n] > 0
      PROVE  F[Home(v, n)] = EOC \/ (F[Home(v, n)] = Tail2(n) /\ F[Tail2(n)] = EOC)
  <2>1. PICK c, t : c = Home(v, n) /\ t = Tail2(n)
    OBVIOUS
  <2>2. c \in Clus /\ t \in Clus
    BY <1>7, <2>1, HomeIs
  <2>3. CASE n \in v.long
    <3>1. F[c] = t
      BY <1>3, <2>1, <2>2, <2>3
    <3>2. \A m \in v.long : Home(v, m) # t
      BY <1>1, <2>1, HomeIs
    <3>3. F[t] = EOC
      BY <1>4, <2>1, <2>2, <2>3, <3>2
    <3> QED BY <2>1, <3>1, <3>3
  <2>4. CASE n \notin v.long
    <3>1. ASSUME NEW m \in v.long, Home(v, m) = c PROVE FALSE
      <4>1. m \in FileNames /\ Home(v, m) = Root + Rank(m) /\ Home(v, n) = Root + Rank(n)
        BY <1>1, <1>7, HomeIs
      <4>2. Root + Rank(m) = Root + Rank(n)
        BY <2>1, <3>1, <4>1
      <4>3. m = n
        BY <4>1, <4>2, HomeIs
      <4> QED BY <2>4, <4>3
    <3>2. PICK h : h = <<c, n>>
      OBVIOUS
    <3>3. h \in Homes(v) /\ h[1] = c
      BY <2>1, <3>2 DEF Homes
    <3>4. F[c] = EOC
      BY <1>4, <2>2, <3>1, <3>3
    <3> QED BY <2>1, <3>4
  <2> QED BY <2>3, <2>4
<1> QED BY <1>2, <1>5, <1>6, <1>7

(* Its sectors are of units, and only the root has entries.                *)
LEMMA FirstUnitsAre ==
  ASSUME NEW v \in Volumes, NEW c \in Clus
  PROVE  /\ FirstUnits(v, c) \in Sectors
         /\ \A j \in 1..UNITS : IsEntry(FirstUnits(v, c)[j]) =>
              /\ c = Root /\ j \in 1..Len(Present(v))
              /\ FirstUnits(v, c)[j].first = Home(v, Present(v)[j])
<1>1. PICK u, p : u = FirstUnits(v, c) /\ p = Present(v)
  OBVIOUS
<1>2. ASSUME NEW j \in 1..UNITS
      PROVE  /\ u[j] \in Units
             /\ IsEntry(u[j]) => c = Root /\ j \in 1..Len(p) /\ u[j].first = Home(v, p[j])
  <2>0. j \in Nat /\ j >= 1 /\ Len(p) \in Nat
    BY <1>1, PresentIs, ConstFacts
  <2>1. CASE c = Root /\ j <= Len(p)
    <3>1. PICK n : n = p[j]
      OBVIOUS
    <3>2. u[j] = Unit("file", n, Home(v, n), v.size[n])
      BY <1>1, <2>1, <3>1 DEF FirstUnits
    <3>3. j \in 1..Len(p)
      BY <2>0, <2>1
    <3>4. n \in FileNames /\ v.size[n] >= 0
      BY <1>1, <3>1, <3>3, PresentIs
    <3>5. v.size[n] \in Nat
      BY <3>4, HomeIs
    <3>6. Home(v, n) \in Links
      <4>1. CASE v.size[n] <= 0
        BY <3>4, <4>1, HomeIs DEF Links, FREE
      <4>2. CASE v.size[n] > 0
        BY <3>4, <4>2, HomeIs DEF Links
      <4> QED BY <3>5, <4>1, <4>2
    <3>7. u[j] \in Entries
      BY <3>2, <3>4, <3>5, <3>6 DEF Unit, Entries, Names
    <3>8. u[j].first = Home(v, n)
      BY <3>2 DEF Unit
    <3> QED BY <2>1, <3>1, <3>3, <3>7, <3>8 DEF Units
  <2>2. CASE c = Root /\ ~(j <= Len(p))
    <3>1. u[j] = Zero
      BY <1>1, <2>2 DEF FirstUnits
    <3>2. Zero \in Blanks
      BY DEF Blanks
    <3> QED BY <3>1, <3>2, BlanksAre DEF Units
  <2>3. CASE c # Root /\ \E h \in Homes(v) : h[1] = c /\ j <= v.size[h[2]]
    <3>1. PICK h : h = CHOOSE x \in Homes(v) : x[1] = c
      OBVIOUS
    <3>2. h \in Homes(v)
      BY <2>3, <3>1
    <3>3. h[2] \in FileNames
      BY <3>2 DEF Homes
    <3>4. u[j] = Byte(h[2], 0)
      BY <1>1, <2>3, <3>1 DEF FirstUnits
    <3>5. u[j] \in Blanks
      BY <3>3, <3>4 DEF Blanks
    <3> QED BY <3>5, BlanksAre DEF Units
  <2>4. CASE c # Root /\ ~\E h \in Homes(v) : h[1] = c /\ j <= v.size[h[2]]
    <3>1. u[j] = Stale
      BY <1>1, <2>4 DEF FirstUnits
    <3>2. Stale \in Blanks
      BY DEF Blanks
    <3> QED BY <3>1, <3>2, BlanksAre DEF Units
  <2> QED BY <2>1, <2>2, <2>3, <2>4
<1>3. u = [j \in 1..UNITS |-> u[j]]
  BY <1>1 DEF FirstUnits
<1>4. u \in Sectors
  BY <1>2, <1>3 DEF Sectors
<1> QED BY <1>1, <1>2, <1>4

(* The image of a formatted volume.                                        *)
LEMMA FormattedIs ==
  ASSUME NEW d \in Devices, NEW v \in Volumes, NEW img, img = Formatted(d, v)
  PROVE  /\ Drive(d, img) /\ FatOf(d, img) = FirstTable(v)
         /\ \A c \in Clus : img[c] = FirstUnits(v, c)
<1>1. img = [x \in SecsOf(d) |-> IF x \in Clus THEN FirstUnits(v, x)
                                ELSE [c \in {y \in Clus : d.fatsec[y] = x} |-> FirstTable(v)[c]]]
  BY DEF Formatted, SecsOf, FirstUnits, FirstTable, Present, Homes
<1>2. DOMAIN img = SecsOf(d) /\ img = [x \in DOMAIN img |-> img[x]]
  BY <1>1
<1>3. ASSUME NEW c \in Clus PROVE img[c] = FirstUnits(v, c) /\ img[c] \in SecVals(d, c)
  <2>1. c \in SecsOf(d)
    BY DEF SecsOf
  <2>2. img[c] = FirstUnits(v, c)
    BY <1>1, <2>1
  <2> QED BY <2>2, FirstUnitsAre DEF SecVals
<1>4. ASSUME NEW x \in SecsOf(d), x \notin Clus
      PROVE  img[x] \in SecVals(d, x) /\ \A c \in Clus : d.fatsec[c] = x => img[x][c] = FirstTable(v)[c]
  <2>1. PICK C, F : C = {y \in Clus : d.fatsec[y] = x} /\ F = FirstTable(v)
    OBVIOUS
  <2>2. img[x] = [c \in C |-> F[c]]
    BY <1>1, <1>4, <2>1
  <2>3. F \in Tables
    BY <2>1, FirstTableIs
  <2>4. \A c \in C : c \in Clus /\ F[c] \in Links
    BY <2>1, <2>3 DEF Tables
  <2>5. img[x] \in [C -> Links]
    BY <2>2, <2>4
  <2>6. SecVals(d, x) = [C -> Links]
    BY <1>4, <2>1 DEF SecVals
  <2> QED BY <2>1, <2>2, <2>5, <2>6
<1>5. Drive(d, img)
  BY <1>2, <1>3, <1>4 DEF Drive
<1>6. FatOf(d, img) = FirstTable(v)
  <2>1. PICK F, G : F = FirstTable(v) /\ G = FatOf(d, img)
    OBVIOUS
  <2>2. ASSUME NEW c \in Clus PROVE G[c] = F[c]
    <3>1. d.fatsec[c] \in SecsOf(d) /\ d.fatsec[c] \notin Clus
      BY FatSecIs
    <3>2. img[d.fatsec[c]][c] = F[c]
      BY <1>4, <2>1, <3>1
    <3> QED BY <2>1, <3>2 DEF FatOf
  <2>3. F \in [Clus -> Links]
    BY <2>1, FirstTableIs DEF Tables
  <2>4. DOMAIN G = Clus /\ G = [c \in DOMAIN G |-> G[c]]
    BY <2>1 DEF FatOf
  <2> QED BY <2>1, <2>2, <2>3, <2>4
<1> QED BY <1>3, <1>5, <1>6

(* The chain of a path that ends at once, or after one link.               *)
LEMMA ShortPaths ==
  ASSUME NEW F \in Tables, NEW a \in Clus
  PROVE  /\ F[a] = EOC => Path(F, Chain(F, a)) /\ Own(F, a) = {a}
         /\ \A b \in Clus : b # a /\ F[a] = b /\ F[b] = EOC => Path(F, Chain(F, a)) /\ Own(F, a) = {a, b}
<1>1. ASSUME F[a] = EOC PROVE Path(F, Chain(F, a)) /\ Own(F, a) = {a}
  <2>1. PICK s : s = <<a>>
    OBVIOUS
  <2>2. Path(F, s)
    BY <1>1, <2>1 DEF Path
  <2>3. s[1] = a
    BY <2>1
  <2>4. Chain(F, s[1]) = s
    BY <2>2, PathIsChain
  <2>5. Chain(F, a) = s
    BY <2>3, <2>4
  <2>6. Range(s) = {a}
    BY <2>1 DEF Range
  <2> QED BY <2>2, <2>5, <2>6 DEF Own
<1>2. ASSUME NEW b \in Clus, b # a, F[a] = b, F[b] = EOC PROVE Path(F, Chain(F, a)) /\ Own(F, a) = {a, b}
  <2>1. PICK s : s = <<a, b>>
    OBVIOUS
  <2>2. /\ s \in Seq(Clus) /\ Len(s) = 2 /\ s[1] = a /\ s[2] = b /\ s # <<>>
        /\ DOMAIN s = 1..2
    BY <2>1
  <2>3. \A j, k \in 1..2 : s[j] = s[k] => j = k
    BY <1>2, <2>2
  <2>4. \A k \in 1..(2 - 1) : F[s[k]] = s[k + 1]
    BY <1>2, <2>2
  <2>5. Path(F, s)
    BY <1>2, <2>2, <2>3, <2>4 DEF Path
  <2>6. Chain(F, s[1]) = s
    BY <2>5, PathIsChain
  <2>7. Chain(F, a) = s
    BY <2>2, <2>6
  <2>8. Range(s) = {a, b}
    BY <2>2 DEF Range
  <2> QED BY <2>5, <2>7, <2>8 DEF Own
<1> QED BY <1>1, <1>2

(* The table of a formatted volume serves its entries.                     *)
LEMMA FormattedSound ==
  ASSUME NEW v \in Volumes, NEW dat, \A c \in Clus : dat[c] = FirstUnits(v, c)
  PROVE  Sound(FirstTable(v), DatClaims(dat))
<1>1. PICK F, p, E : F = FirstTable(v) /\ p = Present(v) /\ E = DatClaims(dat)
  OBVIOUS
<1>2. F \in Tables /\ F[Root] = EOC /\ Root \in Clus
  BY <1>1, FirstTableIs, ConstFacts
<1>3. ASSUME NEW n \in FileNames, v.size[n] > 0
      PROVE  /\ Path(F, Chain(F, Home(v, n)))
             /\ Own(F, Home(v, n)) \subseteq {Root + Rank(n), Tail2(n)}
  <2>1. PICK a, b : a = Home(v, n) /\ b = Tail2(n)
    OBVIOUS
  <2>2. a \in Clus /\ b \in Clus /\ a = Root + Rank(n) /\ b # a
    BY <1>3, <2>1, HomeIs
  <2>3. F[a] = EOC \/ (F[a] = b /\ F[b] = EOC)
    BY <1>1, <1>3, <2>1, FirstTableIs
  <2>4. Path(F, Chain(F, a)) /\ Own(F, a) \subseteq {a, b}
    BY <1>2, <2>2, <2>3, ShortPaths
  <2> QED BY <2>1, <2>2, <2>4
<1>4. ASSUME NEW z \in E
      PROVE  \E j \in 1..Len(p) : /\ z[1] = <<Root, j>> /\ p[j] \in FileNames /\ v.size[p[j]] > 0
                                  /\ z[2] = Home(v, p[j])
  <2>1. PICK c \in Clus, j \in 1..UNITS, a \in Clus : z = <<<<c, j>>, a>>
    BY <1>1 DEF DatClaims, AllClaims, Places
  <2>2. z[1] = <<c, j>> /\ z[1][1] = c /\ z[1][2] = j /\ z[2] = a
    BY <2>1
  <2>3. IsEntry(dat[c][j]) /\ dat[c][j].first = a
    BY <1>1, <2>2 DEF DatClaims
  <2>4. PICK u : u = FirstUnits(v, c)
    OBVIOUS
  <2>5. IsEntry(u[j]) /\ u[j].first = a
    BY <2>3, <2>4
  <2>6. c = Root /\ j \in 1..Len(p) /\ u[j].first = Home(v, p[j])
    BY <1>1, <2>4, <2>5, FirstUnitsAre
  <2>7. p[j] \in FileNames
    BY <1>1, <2>6, PresentIs
  <2>8. v.size[p[j]] > 0
    <3>1. v.size[p[j]] \in Int /\ (v.size[p[j]] <= 0 => Home(v, p[j]) = 0)
      BY <2>7, HomeIs
    <3>2. Home(v, p[j]) # 0
      BY <2>5, <2>6, ConstFacts DEF FREE
    <3> QED BY <3>1, <3>2
  <2> QED BY <2>2, <2>5, <2>6, <2>7, <2>8
<1>5. Path(F, Chain(F, Root)) /\ Own(F, Root) = {Root}
  BY <1>2, ShortPaths
<1>6. RootClaim[1] = <<Root, 0>> /\ RootClaim[2] = Root
  BY DEF RootClaim
<1>7. ASSUME NEW z \in E \cup {RootClaim} PROVE Path(F, Chain(F, z[2]))
  <2>1. CASE z \in E
    <3>1. PICK j \in 1..Len(p) : p[j] \in FileNames /\ v.size[p[j]] > 0 /\ z[2] = Home(v, p[j])
      BY <1>4, <2>1
    <3> QED BY <1>3, <3>1
  <2>2. CASE z = RootClaim
    BY <1>5, <1>6, <2>2
  <2> QED BY <2>1, <2>2
<1>8. ASSUME NEW z \in E PROVE Root \notin Own(F, z[2])
  <2>1. PICK j \in 1..Len(p) : p[j] \in FileNames /\ v.size[p[j]] > 0 /\ z[2] = Home(v, p[j])
    BY <1>4
  <2>2. Own(F, z[2]) \subseteq {Root + Rank(p[j]), Tail2(p[j])}
    BY <1>3, <2>1
  <2>3. Root + Rank(p[j]) # Root /\ Tail2(p[j]) # Root
    BY <2>1, HomeIs
  <2> QED BY <2>2, <2>3
<1>9. ASSUME NEW y \in E, NEW z \in E, y[1] # z[1] PROVE Own(F, y[2]) \cap Own(F, z[2]) = {}
  <2>1. PICK j \in 1..Len(p) : y[1] = <<Root, j>> /\ p[j] \in FileNames /\ v.size[p[j]] > 0 /\ y[2] = Home(v, p[j])
    BY <1>4
  <2>2. PICK k \in 1..Len(p) : z[1] = <<Root, k>> /\ p[k] \in FileNames /\ v.size[p[k]] > 0 /\ z[2] = Home(v, p[k])
    BY <1>4
  <2>3. p[j] # p[k]
    BY <1>1, <1>9, <2>1, <2>2, PresentIs
  <2>4. PICK m, n : m = p[j] /\ n = p[k]
    OBVIOUS
  <2>5. m \in FileNames /\ n \in FileNames /\ m # n
    BY <2>1, <2>2, <2>3, <2>4
  <2>6. Own(F, y[2]) \subseteq {Root + Rank(m), Tail2(m)} /\ Own(F, z[2]) \subseteq {Root + Rank(n), Tail2(n)}
    BY <1>3, <2>1, <2>2, <2>4
  <2>7. Root + Rank(m) # Root + Rank(n) /\ Tail2(m) # Tail2(n) /\ Tail2(m) # Root + Rank(n) /\ Tail2(n) # Root + Rank(m)
    BY <2>5, HomeIs
  <2> QED BY <2>6, <2>7
<1>10. ASSUME NEW y \in E \cup {RootClaim}, NEW z \in E \cup {RootClaim}, y[1] # z[1]
       PROVE  Own(F, y[2]) \cap Own(F, z[2]) = {}
  BY <1>5, <1>6, <1>8, <1>9, <1>10
<1>11. Sound(F, E)
  BY <1>7, <1>10 DEF Sound
<1> QED BY <1>1, <1>11

(* The invariant holds of every volume an earlier boot may have left.      *)
LEMMA InitHolds ==
  ASSUME Init PROVE IInv
<1>1. dev \in Devices /\ now = disk /\ log = <<>> /\ hint = 2 /\ icache = NoCache /\ open = {} /\ job = Idle
  BY DEF Init
<1>2. PICK v \in Volumes : disk = Formatted(dev, v)
  BY DEF Init
<1>3. PICK d, img, lg, F, dat : d = dev /\ img = disk /\ lg = log /\ F = FirstTable(v) /\ dat = [c \in Clus |-> img[c]]
  OBVIOUS
<1>4. d \in Devices /\ lg = <<>>
  BY <1>1, <1>3
<1>5. Drive(d, img) /\ FatOf(d, img) = F /\ \A c \in Clus : img[c] = FirstUnits(v, c)
  BY <1>2, <1>3, <1>4, FormattedIs
<1>6. F \in Tables
  BY <1>3, FirstTableIs
<1>7. Sound(F, DatClaims(dat))
  <2>1. \A c \in Clus : dat[c] = FirstUnits(v, c)
    BY <1>3, <1>5
  <2> QED BY <1>3, <2>1, FormattedSound
<1>8. PICK t : /\ Good(t, {}) /\ t.core = NoCache
               /\ Drives(d, img, img, lg) /\ Shows(d, img, t) /\ Leaves(d, img, lg, t)
  BY <1>3, <1>4, <1>5, <1>6, <1>7, MountHolds
<1>9. Backs(t)
  BY <1>1, <1>3, <1>8 DEF Backs
<1>10. job.steps = <<>> /\ JobIs
  BY <1>1 DEF Idle, JobIs
<1>11. Safe(t, <<>>, {})
  BY <1>8, SafeNil
<1>12. hint \in Clus /\ open \subseteq Slots
  BY <1>1, ConstFacts DEF Root
<1>13. PICK X : X = {}
  OBVIOUS
<1>14. Backs(t) /\ Good(t, X) /\ Safe(t, job.steps, X) /\ (job.op \in Flaky => X = {})
  BY <1>8, <1>9, <1>10, <1>11, <1>13
<1> QED BY <1>1, <1>10, <1>12, <1>14 DEF IInv

(* No cluster belongs to two files, or to a file and the directory, at any *)
(* moment and after any loss of power, and each file's chain is whole.     *)
THEOREM ChainsHold ==
  ASSUME OneTableSector, UnlinkUndisturbed
  PROVE  Spec => []ChainsSound
<1>1. Init => IInv
  BY InitHolds
<1>2. IInv /\ [Next]_vars => IInv'
  BY NextHolds
<1>3. IInv => ChainsSound
  BY InvSound
<1> QED BY <1>1, <1>2, <1>3, PTL DEF Spec
=============================================================================
