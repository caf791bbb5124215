----------------------------- MODULE ChatProofs -----------------------------
(***************************************************************************)
(* Proofs about Chat and MainLoop: the history stays well formed under     *)
(* every order of appends, evictions and rollbacks, for every size of it,  *)
(* and the loop answers the one who asked.                                 *)
(***************************************************************************)
EXTENDS MainLoop, LoopLemmas, FiniteSetTheorems, SequenceTheorems

-----------------------------------------------------------------------------
(* The history as a data structure.                                        *)

Hists == [msgs : Seq(Entry), arena : Seq(Contents)]

Sound(h) == h \in Hists /\ Tiles(h)

(* The sizes of the code's buffers are positive numbers.                   *)
LEMMA Constants ==
  /\ HISTORY_BYTES \in Nat \ {0} /\ HISTORY_MSGS \in Nat \ {0}
  /\ MAX_ROUNDS \in Nat \ {0} /\ MAX_TOOL_CALLS \in Nat \ {0}
  /\ JOURNAL_ENTRIES \in Nat \ {0} /\ EPOCHS \in Nat \ {0}
  /\ MAXTURNS \in Nat \ {0} /\ SEND_RETRIES \in Nat
  /\ SIZES \subseteq Nat \ {0} /\ ASKS \subseteq Nat \ {0}
BY ChatConstants, Zenon

(* An entry of the index has its fields' types, and its end is where they  *)
(* say (chat_msg_t).                                                       *)
LEMMA EntryFacts ==
  ASSUME NEW h \in Hists, NEW i \in 1..Len(h.msgs)
  PROVE  /\ h.msgs[i] \in Entry
         /\ h.msgs[i].off \in Nat /\ h.msgs[i].off <= HISTORY_BYTES
         /\ h.msgs[i].len \in Nat \ {0} /\ h.msgs[i].len \in SIZES
         /\ EndOf(h, i) = h.msgs[i].off + h.msgs[i].len
<1>1. h.msgs \in Seq(Entry)
  BY DEF Hists
<1>2. h.msgs[i] \in Entry
  BY <1>1, ElementOfSeq
<1>3. /\ h.msgs[i].off \in 0..HISTORY_BYTES
      /\ h.msgs[i].len \in SIZES
  BY <1>2 DEF Entry
<1>4. Len(h.msgs) \in Nat
  BY <1>1, LenProperties
<1>5. i # 0
  BY <1>4
<1>6. EndOf(h, i) = h.msgs[i].off + h.msgs[i].len
  BY <1>5, Zenon DEF EndOf
<1>7. h.msgs[i].len \in Nat \ {0}
  BY <1>3, Constants, Zenon
<1>8. h.msgs[i].off \in Nat /\ h.msgs[i].off <= HISTORY_BYTES
  BY <1>3, Constants
<1> QED
  BY <1>2, <1>3, <1>6, <1>7, <1>8

(* What Sound gives for one entry, in the form the lemmas below use.       *)
LEMMA SoundEntry ==
  ASSUME NEW h, Sound(h)
  PROVE  /\ Len(h.msgs) \in Nat /\ DOMAIN h.msgs = 1..Len(h.msgs)
         /\ Used(h) \in Nat /\ DOMAIN h.arena = 1..Used(h)
         /\ EndOf(h, 0) = 0 /\ EndOf(h, Len(h.msgs)) = Used(h)
         /\ \A i \in 1..Len(h.msgs) :
              /\ h.msgs[i].off = EndOf(h, i - 1)
              /\ EndOf(h, i) <= Used(h)
              /\ \A b \in (h.msgs[i].off + 1)..EndOf(h, i) :
                   h.arena[b] = Said(h, i)
              /\ h.msgs[i].role =
                   IF Said(h, i).kind \in {"say", "res"} THEN USER ELSE ASSISTANT
<1>1. h.msgs \in Seq(Entry) /\ h.arena \in Seq(Contents)
  BY DEF Sound, Hists
<1>2. /\ Len(h.msgs) \in Nat /\ DOMAIN h.msgs = 1..Len(h.msgs)
      /\ Used(h) \in Nat /\ DOMAIN h.arena = 1..Used(h)
  BY <1>1, LenProperties DEF Used
<1>3. EndOf(h, 0) = 0
  BY DEF EndOf
<1> QED
  BY <1>2, <1>3 DEF Sound, Tiles

(* The ends of the entries ascend: no entry begins before an earlier one   *)
(* has ended.                                                              *)
LEMMA EndsAscend ==
  ASSUME NEW h, Sound(h)
  PROVE  \A i, j \in 0..Len(h.msgs) :
           /\ EndOf(h, i) \in 0..Used(h)
           /\ i <= j => EndOf(h, i) <= EndOf(h, j)
           /\ i < j => EndOf(h, i) < EndOf(h, j)
<1> DEFINE n == Len(h.msgs)
           E(i) == EndOf(h, i)
<1>1. n \in Nat /\ Used(h) \in Nat /\ E(0) = 0 /\ h \in Hists
  BY SoundEntry DEF Sound
<1>2. ASSUME NEW i \in 1..n
      PROVE  E(i) \in Nat /\ E(i - 1) \in Nat /\ E(i - 1) < E(i) /\ E(i) <= Used(h)
  <2>1. h.msgs[i].off = E(i - 1) /\ E(i) <= Used(h)
    BY SoundEntry
  <2> QED BY <1>1, <2>1, EntryFacts
<1>3. \A i \in 0..n : E(i) \in 0..Used(h)
  <2> SUFFICES ASSUME NEW i \in 0..n PROVE E(i) \in 0..Used(h)
    OBVIOUS
  <2>1. CASE i = 0
    BY <2>1, <1>1
  <2>2. CASE i # 0
    BY <2>2, <1>1, <1>2
  <2> QED BY <2>1, <2>2
<1> HIDE DEF E, n
<1> DEFINE T == {d \in Nat : \A i \in 0..n : i + d <= n =>
                   E(i) <= E(i + d) /\ (d > 0 => E(i) < E(i + d))}
<1>4. 0 \in T
  BY <1>1, <1>3
<1>5. ASSUME NEW d \in Nat, d \in T
      PROVE  d + 1 \in T
  <2> SUFFICES ASSUME NEW i \in 0..n, i + (d + 1) <= n
               PROVE  E(i) < E(i + (d + 1))
    BY <1>1, <1>3
  <2>1. i + d \in 0..n /\ i + (d + 1) \in 1..n /\ (i + (d + 1)) - 1 = i + d
    BY <1>1
  <2>2. E(i) <= E(i + d)
    BY <1>5, <2>1
  <2>3. E(i + d) < E(i + (d + 1))
    BY <1>2, <2>1
  <2> QED BY <1>1, <1>3, <2>1, <2>2, <2>3
<1> HIDE DEF T
<1>6. \A d \in Nat : d \in T
  BY <1>4, <1>5, SetInduction
<1>7. ASSUME NEW i \in 0..n, NEW j \in 0..n
      PROVE  /\ i <= j => E(i) <= E(j)
             /\ i < j => E(i) < E(j)
  <2>1. CASE i <= j
    <3>1. j - i \in Nat /\ i + (j - i) = j
      BY <2>1, <1>1
    <3>2. j - i \in T
      BY <3>1, <1>6
    <3> QED BY <1>1, <3>1, <3>2 DEF T
  <2>2. CASE ~(i <= j)
    BY <2>2, <1>1
  <2> QED BY <2>1, <2>2
<1> QED BY <1>3, <1>7 DEF E, n

(* The common form of the three compactions: g is h without the entries    *)
(* p+1 .. p+k and their bytes.                                             *)
Src(i, p, k) == IF i <= p THEN i ELSE i + k

Gone(h, p, k) == EndOf(h, p + k) - EndOf(h, p)

IsCut(g, h, p, k) ==
  /\ g = [msgs |-> g.msgs, arena |-> g.arena]
  /\ DOMAIN g.msgs = 1..(Len(h.msgs) - k)
  /\ g.msgs = [i \in 1..(Len(h.msgs) - k) |-> g.msgs[i]]
  /\ \A i \in 1..(Len(h.msgs) - k) :
       /\ g.msgs[i] = [off |-> g.msgs[i].off, len |-> g.msgs[i].len,
                       epoch |-> g.msgs[i].epoch, role |-> g.msgs[i].role]
       /\ g.msgs[i].len = h.msgs[Src(i, p, k)].len
       /\ g.msgs[i].epoch = h.msgs[Src(i, p, k)].epoch
       /\ g.msgs[i].role = h.msgs[Src(i, p, k)].role
       /\ g.msgs[i].off = IF i <= p THEN h.msgs[i].off
                          ELSE h.msgs[i + k].off - Gone(h, p, k)
  /\ g.arena \in Seq(Contents)
  /\ Len(g.arena) = Used(h) - Gone(h, p, k)
  /\ \A b \in 1..(Used(h) - Gone(h, p, k)) :
       g.arena[b] = IF b <= EndOf(h, p) THEN h.arena[b]
                    ELSE h.arena[b + Gone(h, p, k)]

(* A compaction keeps the history sound and every message that stays says  *)
(* what it said (hist_drop_oldest_epoch, hist_drop_oldest_attempt,         *)
(* hist_rollback_epoch).                                                   *)
LEMMA CutSound ==
  ASSUME NEW h, Sound(h), NEW g, NEW p \in Nat, NEW k \in Nat,
         p + k <= Len(h.msgs), IsCut(g, h, p, k)
  PROVE  /\ Sound(g)
         /\ Len(g.msgs) = Len(h.msgs) - k
         /\ Used(g) <= Used(h)
         /\ \A i \in 1..(Len(h.msgs) - k) :
              /\ Said(g, i) = Said(h, Src(i, p, k))
              /\ g.msgs[i].epoch = h.msgs[Src(i, p, k)].epoch
              /\ g.msgs[i].role = h.msgs[Src(i, p, k)].role
<1> DEFINE n == Len(h.msgs)
           m == n - k
           c == EndOf(h, p)
           d == Gone(h, p, k)
<1>1. n \in Nat /\ m \in Nat /\ Used(h) \in Nat /\ h \in Hists
  BY SoundEntry DEF Sound
<1>2. /\ p \in 0..n /\ p + k \in 0..n /\ p <= p + k /\ p <= m
  BY <1>1
<1>3. c \in Nat /\ d \in Nat /\ c + d = EndOf(h, p + k) /\ c + d <= Used(h)
  BY <1>1, <1>2, EndsAscend DEF Gone
<1>3a. \A i \in 0..n : EndOf(h, i) \in Nat /\ EndOf(h, i) <= Used(h)
  BY <1>1, EndsAscend
<1>3b. \A i \in 0..n : i <= p => EndOf(h, i) <= c
  BY <1>2, EndsAscend
<1>3c. \A i \in 0..n : p + k <= i => c + d <= EndOf(h, i)
  <2> SUFFICES ASSUME NEW i \in 0..n, p + k <= i PROVE EndOf(h, p + k) <= EndOf(h, i)
    BY <1>3
  <2> QED BY <1>2, EndsAscend
<1>4. \A i \in 1..m : Src(i, p, k) \in 1..n
  BY <1>1, <1>2 DEF Src
<1>5. Len(g.msgs) = m /\ Len(g.arena) = Used(h) - d /\ Used(g) = Used(h) - d
  BY <1>1 DEF IsCut, Used
<1>6. ASSUME NEW i \in 1..m
      PROVE  /\ i <= p => /\ i \in 1..n
                          /\ g.msgs[i].off = EndOf(h, i - 1)
                          /\ g.msgs[i].off + g.msgs[i].len = EndOf(h, i)
                          /\ EndOf(h, i) <= c
             /\ i > p => /\ i + k \in 1..n
                         /\ g.msgs[i].off = EndOf(h, (i + k) - 1) - d
                         /\ g.msgs[i].off + g.msgs[i].len = EndOf(h, i + k) - d
                         /\ EndOf(h, (i + k) - 1) >= c + d
             /\ g.msgs[i] \in Entry
             /\ EndOf(g, i) = g.msgs[i].off + g.msgs[i].len
             /\ g.msgs[i].off \in Nat /\ g.msgs[i].len \in Nat \ {0}
             /\ g.msgs[i].len = h.msgs[Src(i, p, k)].len
  <2> DEFINE s == Src(i, p, k)
  <2>1. s \in 1..n /\ i # 0
    BY <1>4, <1>1
  <2>2. /\ h.msgs[s] \in Entry /\ h.msgs[s].off \in Nat
        /\ h.msgs[s].off <= HISTORY_BYTES /\ h.msgs[s].len \in Nat \ {0}
        /\ EndOf(h, s) = h.msgs[s].off + h.msgs[s].len
    BY <1>1, <2>1, EntryFacts
  <2>3. h.msgs[s].off = EndOf(h, s - 1)
    BY <2>1, SoundEntry
  <2>4. /\ g.msgs[i] = [off |-> g.msgs[i].off, len |-> g.msgs[i].len,
                        epoch |-> g.msgs[i].epoch, role |-> g.msgs[i].role]
        /\ g.msgs[i].len = h.msgs[s].len
        /\ g.msgs[i].epoch = h.msgs[s].epoch
        /\ g.msgs[i].role = h.msgs[s].role
        /\ g.msgs[i].off = IF i <= p THEN h.msgs[i].off
                           ELSE h.msgs[i + k].off - d
    BY DEF IsCut
  <2>5. EndOf(g, i) = g.msgs[i].off + g.msgs[i].len
    BY <2>1, Zenon DEF EndOf
  <2>6. CASE i <= p
    <3>1. s = i
      BY <2>6 DEF Src
    <3>2. EndOf(h, i) <= c
      BY <1>1, <1>2, <2>1, <3>1, <2>6, EndsAscend
    <3>3. g.msgs[i].off = h.msgs[s].off
      BY <2>4, <2>6, <3>1
    <3>4. g.msgs[i] = h.msgs[s]
      BY <2>2, <2>4, <3>3 DEF Entry
    <3> QED BY <2>1, <2>2, <2>3, <2>5, <2>6, <3>1, <3>2, <3>3, <3>4, <1>1
  <2>7. CASE ~(i <= p)
    <3>1. s = i + k
      BY <2>7 DEF Src
    <3>2. (i + k) - 1 \in 0..n /\ p + k <= (i + k) - 1
      BY <1>1, <1>2, <2>7
    <3>3. EndOf(h, (i + k) - 1) >= c + d /\ EndOf(h, (i + k) - 1) \in Nat
      BY <3>2, <1>3a, <1>3c, <1>3
    <3>4. g.msgs[i].off = EndOf(h, (i + k) - 1) - d
      BY <2>3, <2>4, <2>7, <3>1
    <3>5. g.msgs[i].off \in Nat /\ g.msgs[i].off <= h.msgs[s].off
      BY <1>3, <2>3, <3>1, <3>3, <3>4
    <3>6. g.msgs[i].off \in 0..HISTORY_BYTES
      BY <3>5, <2>2, Constants, SMTT(30)
    <3>7. g.msgs[i] \in Entry
      BY <3>6, <2>4, <2>2 DEF Entry
    <3>8. g.msgs[i].off + g.msgs[i].len = EndOf(h, i + k) - d
      BY <2>2, <2>3, <2>4, <3>1, <3>3, <3>4, <1>3, SMTT(30)
    <3> QED BY <2>1, <2>2, <2>4, <2>5, <2>7, <3>1, <3>3, <3>4, <3>5, <3>7, <3>8, <1>1
  <2> QED BY <2>6, <2>7
<1>6a. ASSUME NEW i \in 1..m, i <= p
       PROVE  /\ i \in 1..n /\ Src(i, p, k) = i /\ h.msgs[i].off = EndOf(h, i - 1)
              /\ g.msgs[i].off = h.msgs[i].off /\ EndOf(g, i) = EndOf(h, i)
              /\ g.msgs[i].off \in Nat /\ EndOf(h, i) \in Nat
              /\ g.msgs[i].off + 1 <= EndOf(h, i) /\ EndOf(h, i) <= c
  <2>1. i \in 1..n /\ i \in 0..n /\ Src(i, p, k) = i
    BY <1>6a, <1>6, <1>1 DEF Src
  <2>2. h.msgs[i].off = EndOf(h, i - 1)
    BY <2>1, SoundEntry
  <2>3. /\ g.msgs[i].off = EndOf(h, i - 1)
        /\ g.msgs[i].off + g.msgs[i].len = EndOf(h, i)
        /\ EndOf(h, i) <= c /\ EndOf(g, i) = g.msgs[i].off + g.msgs[i].len
        /\ g.msgs[i].off \in Nat /\ g.msgs[i].len \in Nat \ {0}
    BY <1>6a, <1>6
  <2> QED BY <2>1, <2>2, <2>3, SMTT(30)
<1>6b. ASSUME NEW i \in 1..m, i > p
       PROVE  /\ i + k \in 1..n /\ Src(i, p, k) = i + k
              /\ h.msgs[i + k].off = EndOf(h, (i + k) - 1)
              /\ g.msgs[i].off + d = h.msgs[i + k].off
              /\ EndOf(g, i) + d = EndOf(h, i + k)
              /\ g.msgs[i].off \in Nat /\ EndOf(h, i + k) \in Nat
              /\ EndOf(g, i) \in Nat /\ EndOf(h, i + k) <= Used(h)
              /\ g.msgs[i].off + 1 <= EndOf(g, i) /\ c <= g.msgs[i].off
  <2>1. i + k \in 1..n /\ i + k \in 0..n /\ Src(i, p, k) = i + k
    BY <1>6b, <1>6, <1>1 DEF Src
  <2>2. h.msgs[i + k].off = EndOf(h, (i + k) - 1)
    BY <2>1, SoundEntry
  <2>3. /\ g.msgs[i].off = EndOf(h, (i + k) - 1) - d
        /\ g.msgs[i].off + g.msgs[i].len = EndOf(h, i + k) - d
        /\ EndOf(h, (i + k) - 1) >= c + d
        /\ EndOf(g, i) = g.msgs[i].off + g.msgs[i].len
        /\ g.msgs[i].off \in Nat /\ g.msgs[i].len \in Nat \ {0}
    BY <1>6b, <1>6
  <2>4. EndOf(h, (i + k) - 1) \in Nat /\ EndOf(h, i + k) \in Nat /\ EndOf(h, i + k) <= Used(h)
    BY <2>1, <1>1, <1>3a
  <2> DEFINE x == g.msgs[i].off
             y == g.msgs[i].len
             z == EndOf(h, (i + k) - 1)
             w == EndOf(h, i + k)
  <2>5. /\ x \in Nat /\ y \in Nat \ {0} /\ z \in Nat /\ w \in Nat
        /\ x = z - d /\ x + y = w - d /\ z >= c + d
    BY <2>3, <2>4
  <2> HIDE DEF c, d, x, y, z, w
  <2>6. x + d = z /\ (x + y) + d = w /\ x + y \in Nat /\ x + 1 <= x + y /\ c <= x
    BY <2>5, <1>3
  <2> QED BY <2>1, <2>2, <2>3, <2>4, <2>6 DEF x, y, z, w
<1>7. g \in Hists
  <2>1. g.msgs \in Seq(Entry)
    <3>1. g.msgs \in [1..m -> Entry]
      BY <1>6 DEF IsCut
    <3> QED BY <1>1, <3>1, SeqDef
  <2> QED BY <2>1 DEF Hists, IsCut
<1>8. ASSUME NEW i \in 0..m
      PROVE  EndOf(g, i) = IF i <= p THEN EndOf(h, i) ELSE EndOf(h, i + k) - d
  <2>1. CASE i = 0
    BY <2>1, <1>2 DEF EndOf
  <2>2. CASE i # 0
    BY <2>2, <1>1, <1>6
  <2> QED BY <2>1, <2>2
<1>8a. \A b \in 1..(Used(h) - d) :
         g.arena[b] = IF b <= c THEN h.arena[b] ELSE h.arena[b + d]
  BY DEF IsCut
<1>8b. /\ DOMAIN g.msgs = 1..m
       /\ \A i \in 1..m : g.msgs[i].role = h.msgs[Src(i, p, k)].role
  BY DEF IsCut
<1> HIDE DEF n, m, c, d
<1>8c. ASSUME NEW i \in 1..m, i <= p
       PROVE  /\ g.msgs[i].off + 1 \in (g.msgs[i].off + 1)..EndOf(g, i)
              /\ \A b \in (g.msgs[i].off + 1)..EndOf(g, i) :
                   /\ b \in (h.msgs[i].off + 1)..EndOf(h, i)
                   /\ g.arena[b] = h.arena[b]
  <2> DEFINE x == g.msgs[i].off
             w == EndOf(h, i)
             u == Used(h)
  <2>1. /\ x \in Nat /\ w \in Nat /\ u \in Nat /\ x + 1 <= w /\ w <= c /\ c + d <= u
        /\ EndOf(g, i) = w /\ h.msgs[i].off = x
    BY <1>8c, <1>6a, <1>3, <1>1
  <2>2. \A b \in 1..(u - d) : b <= c => g.arena[b] = h.arena[b]
    BY <1>8a
  <2> HIDE DEF x, w, u
  <2>3. x + 1 \in (x + 1)..w /\ \A b \in (x + 1)..w : b \in 1..(u - d) /\ b <= c
    BY <2>1, <1>3
  <2> QED BY <2>1, <2>2, <2>3 DEF x, w
<1>8d. ASSUME NEW i \in 1..m, i > p
       PROVE  /\ g.msgs[i].off + 1 \in (g.msgs[i].off + 1)..EndOf(g, i)
              /\ (g.msgs[i].off + 1) + d = h.msgs[i + k].off + 1
              /\ \A b \in (g.msgs[i].off + 1)..EndOf(g, i) :
                   /\ b + d \in (h.msgs[i + k].off + 1)..EndOf(h, i + k)
                   /\ g.arena[b] = h.arena[b + d]
  <2> DEFINE x == g.msgs[i].off
             w == EndOf(g, i)
             u == Used(h)
  <2>1. /\ x \in Nat /\ w \in Nat /\ u \in Nat /\ x + 1 <= w /\ c <= x /\ w + d <= u
        /\ EndOf(h, i + k) = w + d /\ h.msgs[i + k].off = x + d
    BY <1>8d, <1>6b, <1>3, <1>1
  <2>2. \A b \in 1..(u - d) : ~(b <= c) => g.arena[b] = h.arena[b + d]
    BY <1>8a
  <2> HIDE DEF x, w, u
  <2>3. x + 1 \in (x + 1)..w /\ (x + 1) + d = (x + d) + 1
    BY <2>1, <1>3, SMTT(30)
  <2>4. ASSUME NEW b \in (x + 1)..w
        PROVE  b \in 1..(u - d) /\ ~(b <= c) /\ b + d \in ((x + d) + 1)..(w + d)
    <3>1. b \in Int /\ x + 1 <= b /\ b <= w
      BY <2>1
    <3>2. b + d \in Int /\ (x + d) + 1 <= b + d /\ b + d <= w + d
      BY <3>1, <2>1, <1>3, SMTT(30)
    <3>3. b <= u - d /\ 1 <= b /\ ~(b <= c) /\ u - d \in Int
      BY <3>1, <2>1, <1>3
    <3> QED BY <3>1, <3>2, <3>3, <2>1, <1>3
  <2> QED BY <2>1, <2>2, <2>3, <2>4 DEF x, w
<1>9. ASSUME NEW i \in 1..m
      PROVE  Said(g, i) = Said(h, Src(i, p, k))
  <2>1. CASE i <= p
    <3>1. g.arena[g.msgs[i].off + 1] = h.arena[g.msgs[i].off + 1]
      BY <2>1, <1>8c
    <3>2. g.msgs[i].off = h.msgs[i].off /\ Src(i, p, k) = i
      BY <2>1, <1>6a
    <3> QED BY <3>1, <3>2 DEF Said
  <2>2. CASE i > p
    <3>1. g.arena[g.msgs[i].off + 1] = h.arena[(g.msgs[i].off + 1) + d]
      BY <2>2, <1>8d
    <3>2. (g.msgs[i].off + 1) + d = h.msgs[i + k].off + 1
      BY <2>2, <1>8d
    <3>3. Src(i, p, k) = i + k
      BY <2>2, <1>6b
    <3> QED BY <3>1, <3>2, <3>3 DEF Said
  <2> QED BY <2>1, <2>2, <1>1
<1>10. Tiles(g)
  <2>1. EndOf(g, Len(g.msgs)) = Used(g)
    <3>1. EndOf(h, n) = Used(h) /\ m + k = n /\ m \in 0..m
      BY <1>1, SoundEntry DEF n, m
    <3>2. CASE m = p
      <4>1. EndOf(g, m) = EndOf(h, p)
        BY <3>1, <3>2, <1>8
      <4>2. EndOf(h, p + k) = Used(h)
        BY <3>1, <3>2
      <4> QED BY <4>1, <4>2, <1>3, <1>5 DEF c
    <3>3. CASE m # p
      <4>1. ~(m <= p)
        BY <3>3, <1>1, <1>2
      <4>2. EndOf(g, m) = EndOf(h, m + k) - d
        BY <3>1, <4>1, <1>8
      <4> QED BY <4>2, <3>1, <1>5
    <3> QED BY <3>2, <3>3
  <2> SUFFICES ASSUME NEW i \in 1..m
               PROVE  /\ g.msgs[i].off = EndOf(g, i - 1)
                      /\ EndOf(g, i) <= Used(g)
                      /\ \A b \in (g.msgs[i].off + 1)..EndOf(g, i) :
                           g.arena[b] = Said(g, i)
                      /\ g.msgs[i].role =
                           IF Said(g, i).kind \in {"say", "res"} THEN USER ELSE ASSISTANT
    BY <2>1, <1>8b DEF Tiles
  <2> DEFINE s == Src(i, p, k)
  <2>2. s \in 1..n
    BY <1>4
  <2>3. g.msgs[i].off = EndOf(g, i - 1)
    <3>1. i - 1 \in 0..m
      BY <1>1
    <3>2. CASE i <= p
      BY <3>1, <3>2, <1>1, <1>6a, <1>8
    <3>3. CASE i = p + 1
      <4>1. (i + k) - 1 = p + k /\ i - 1 = p /\ i > p
        BY <3>3
      <4>2. EndOf(g, i - 1) = c
        BY <4>1, <3>1, <1>8 DEF c
      <4>3. g.msgs[i].off + d = c + d /\ g.msgs[i].off \in Nat
        BY <4>1, <1>6b, <1>3
      <4> QED BY <4>2, <4>3, <1>3
    <3>4. CASE i > p + 1
      <4>1. (i - 1) + k = (i + k) - 1 /\ ~(i - 1 <= p) /\ i > p
        BY <3>4
      <4>2. EndOf(g, i - 1) = EndOf(h, (i + k) - 1) - d
        BY <3>1, <4>1, <1>8
      <4>3. g.msgs[i].off + d = EndOf(h, (i + k) - 1) /\ g.msgs[i].off \in Nat
        BY <4>1, <1>6b
      <4> QED BY <4>2, <4>3, <1>3
    <3> QED BY <3>2, <3>3, <3>4, <1>1
  <2>4. EndOf(g, i) <= Used(g)
    <3>1. CASE i <= p
      BY <3>1, <1>3, <1>5, <1>6a, <1>1
    <3>2. CASE i > p
      BY <3>2, <1>3, <1>5, <1>6b, <1>1
    <3> QED BY <3>1, <3>2, <1>1
  <2>5. Said(g, i) = Said(h, s)
    BY <1>9
  <2>6. ASSUME NEW b \in (g.msgs[i].off + 1)..EndOf(g, i)
        PROVE  g.arena[b] = Said(g, i)
    <3>1. \A x \in (h.msgs[s].off + 1)..EndOf(h, s) : h.arena[x] = Said(h, s)
      BY <2>2, SoundEntry DEF n
    <3>4. CASE i <= p
      BY <3>1, <3>4, <2>5, <1>6a, <1>8c
    <3>5. CASE i > p
      BY <3>1, <3>5, <2>5, <1>6b, <1>8d
    <3> QED BY <3>4, <3>5, <1>1
  <2>7. g.msgs[i].role = IF Said(g, i).kind \in {"say", "res"} THEN USER ELSE ASSISTANT
    <3>1. h.msgs[s].role = IF Said(h, s).kind \in {"say", "res"} THEN USER ELSE ASSISTANT
      BY <2>2, SoundEntry DEF n
    <3>2. g.msgs[i].role = h.msgs[s].role
      BY <1>8b
    <3> QED BY <3>1, <3>2, <2>5
  <2> QED BY <2>3, <2>4, <2>6, <2>7
<1> QED
  <2>1. \A i \in 1..m : /\ g.msgs[i].epoch = h.msgs[Src(i, p, k)].epoch
                        /\ g.msgs[i].role = h.msgs[Src(i, p, k)].role
    BY DEF IsCut, n, m
  <2>2. Used(g) <= Used(h)
    BY <1>1, <1>3, <1>5
  <2> QED BY <2>1, <2>2, <1>5, <1>7, <1>9, <1>10 DEF Sound, n, m

(* The bytes of a history are contents.                                    *)
LEMMA ArenaByte ==
  ASSUME NEW h, Sound(h), NEW b \in 1..Used(h)
  PROVE  h.arena[b] \in Contents
BY ElementOfSeq DEF Sound, Hists, Used

(* What SubSeq keeps of a sequence after its first `a` places.             *)
LEMMA RestIs ==
  ASSUME NEW S, NEW s, NEW a \in Nat, NEW u \in Nat, a <= u,
         \A i \in (a + 1)..u : s[i] \in S
  PROVE  /\ SubSeq(s, a + 1, u) \in Seq(S)
         /\ Len(SubSeq(s, a + 1, u)) = u - a
         /\ \A i \in 1..(u - a) : SubSeq(s, a + 1, u)[i] = s[a + i]
<1> DEFINE m == a + 1
           t == SubSeq(s, m, u)
<1>1. /\ m \in Int /\ u \in Int /\ u - m + 1 = u - a /\ (~(m <= u) => u - a = 0)
      /\ \A i \in 1..(u - a) : m + i - 1 = a + i
  OBVIOUS
<1> HIDE DEF m
<1>2. \A i \in m..u : s[i] \in S
  BY DEF m
<1>3. /\ t \in Seq(S) /\ Len(t) = IF m <= u THEN u - m + 1 ELSE 0
      /\ \A i \in 1..(u - m + 1) : t[i] = s[m + i - 1]
  BY <1>1, <1>2, SubSeqProperties
<1> HIDE DEF t
<1>4. Len(t) = u - a
  BY <1>1, <1>3
<1>5. \A i \in 1..(u - a) : t[i] = s[a + i]
  BY <1>1, <1>3, Zenon
<1>6. t \in Seq(S) /\ Len(t) = u - a /\ \A i \in 1..(u - a) : t[i] = s[a + i]
  BY <1>3, <1>4, <1>5
<1> QED BY <1>6 DEF t, m

(* hist_drop_oldest_epoch drops the leading entries of one epoch, all of   *)
(* them and no others, as a compaction of the front.                       *)
LEMMA DropEpochCut ==
  ASSUME NEW h, Sound(h), NEW ep, h.msgs # <<>>, h.msgs[1].epoch # ep
  PROVE  \E k \in 1..Len(h.msgs) :
           /\ IsCut(DropOldestEpoch(h, ep), h, 0, k)
           /\ \A j \in 1..k : h.msgs[j].epoch = h.msgs[1].epoch
           /\ k < Len(h.msgs) => h.msgs[k + 1].epoch # h.msgs[1].epoch
<1> DEFINE n == Len(h.msgs)
           same == {i \in DOMAIN h.msgs :
                      \A j \in 1..i : h.msgs[j].epoch = h.msgs[1].epoch}
           k == CHOOSE i \in same : \A j \in same : j <= i
           bytes == h.msgs[k].off + h.msgs[k].len
           g == [msgs  |-> [i \in 1..(Len(h.msgs) - k) |->
                              [h.msgs[i + k] EXCEPT !.off = @ - bytes]],
                 arena |-> SubSeq(h.arena, bytes + 1, Used(h))]
<1>1. /\ n \in Nat /\ DOMAIN h.msgs = 1..n /\ Used(h) \in Nat /\ h \in Hists
      /\ EndOf(h, 0) = 0
  BY SoundEntry DEF Sound
<1>2. n # 0
  BY <1>1, EmptySeq DEF Hists
<1>3. same \in SUBSET (0..n) /\ same # {}
  <2>1. 1 \in same
    BY <1>1, <1>2
  <2> QED BY <1>1, <2>1
<1>4. k \in same /\ \A j \in same : j <= k
  <2> HIDE DEF same
  <2>1. \E i \in same : \A j \in same : j <= i
    BY <1>1, <1>3, GreatestElement
  <2> QED BY <2>1
<1> HIDE DEF k
<1>5. k \in 1..n /\ \A j \in 1..k : h.msgs[j].epoch = h.msgs[1].epoch
  BY <1>1, <1>4
<1>6. ASSUME k < n PROVE h.msgs[k + 1].epoch # h.msgs[1].epoch
  <2>1. k + 1 \in 1..n /\ k + 1 \notin same
    BY <1>1, <1>4, <1>5, <1>6
  <2> SUFFICES ASSUME h.msgs[k + 1].epoch = h.msgs[1].epoch PROVE k + 1 \in same
    BY <2>1
  <2> QED BY <1>1, <1>5, <2>1
<1>7. bytes = EndOf(h, k) /\ bytes = Gone(h, 0, k) /\ bytes \in 0..Used(h)
  <2>1. EndOf(h, k) = bytes
    BY <1>1, <1>5, EntryFacts
  <2>2. EndOf(h, k) \in 0..Used(h)
    BY <1>1, <1>5, EndsAscend
  <2>3. 0 + k = k /\ EndOf(h, k) - 0 = EndOf(h, k)
    BY <1>1, <1>5, <2>2
  <2> QED BY <1>1, <2>1, <2>2, <2>3 DEF Gone
<1>8. DropOldestEpoch(h, ep) = g
  BY DEF DropOldestEpoch, k, same
<1> HIDE DEF bytes, same
<1>9. IsCut(g, h, 0, k)
  <2>1. \A i \in (bytes + 1)..Used(h) : h.arena[i] \in Contents
    BY <1>1, <1>7, ArenaByte
  <2>2. /\ g.arena \in Seq(Contents)
        /\ Len(g.arena) = Used(h) - bytes
        /\ \A i \in 1..(Used(h) - bytes) : g.arena[i] = h.arena[i + bytes]
    <3>1. bytes \in Int /\ bytes + 1 \in Int /\ Used(h) \in Int /\ bytes <= Used(h)
      BY <1>1, <1>7
    <3>2. /\ SubSeq(h.arena, bytes + 1, Used(h)) \in Seq(Contents)
          /\ Len(SubSeq(h.arena, bytes + 1, Used(h))) =
               IF bytes + 1 <= Used(h) THEN Used(h) - (bytes + 1) + 1 ELSE 0
          /\ \A i \in 1..(Used(h) - (bytes + 1) + 1) :
               SubSeq(h.arena, bytes + 1, Used(h))[i] = h.arena[(bytes + 1) + i - 1]
      BY <2>1, <3>1, SubSeqProperties
    <3>3. Used(h) - (bytes + 1) + 1 = Used(h) - bytes
      BY <3>1
    <3>4. \A i \in 1..(Used(h) - bytes) : (bytes + 1) + i - 1 = i + bytes
      BY <3>1
    <3> QED BY <3>1, <3>2, <3>3, <3>4
  <2>3. \A b \in 1..(Used(h) - bytes) : ~(b <= EndOf(h, 0))
    BY <1>1, <1>7
  <2>4. ASSUME NEW i \in 1..(n - k)
        PROVE  /\ g.msgs[i] = [off |-> g.msgs[i].off, len |-> g.msgs[i].len,
                               epoch |-> g.msgs[i].epoch, role |-> g.msgs[i].role]
               /\ g.msgs[i].len = h.msgs[Src(i, 0, k)].len
               /\ g.msgs[i].epoch = h.msgs[Src(i, 0, k)].epoch
               /\ g.msgs[i].role = h.msgs[Src(i, 0, k)].role
               /\ g.msgs[i].off = IF i <= 0 THEN h.msgs[i].off
                                  ELSE h.msgs[i + k].off - bytes
    <3>1. i + k \in 1..n /\ Src(i, 0, k) = i + k /\ ~(i <= 0)
      BY <1>1, <1>5 DEF Src
    <3>2. h.msgs[i + k] \in Entry
      BY <1>1, <3>1, EntryFacts
    <3>3. g.msgs[i] = [h.msgs[i + k] EXCEPT !.off = @ - bytes]
      OBVIOUS
    <3> HIDE DEF g
    <3> QED BY <3>1, <3>2, <3>3 DEF Entry
  <2>5. /\ g = [msgs |-> g.msgs, arena |-> g.arena]
        /\ DOMAIN g.msgs = 1..(n - k)
        /\ g.msgs = [i \in 1..(n - k) |-> g.msgs[i]]
    OBVIOUS
  <2> HIDE DEF g
  <2> QED BY <1>7, <2>2, <2>3, <2>4, <2>5 DEF IsCut
<1> QED BY <1>5, <1>6, <1>8, <1>9

(* hist_drop_oldest_attempt drops the second and the third entry, as a     *)
(* compaction behind the first.                                            *)
LEMMA DropAttemptCut ==
  ASSUME NEW h, Sound(h), NEW ep, Len(h.msgs) >= 3,
         \A i \in 1..3 : h.msgs[i].epoch = ep,
         h.msgs[2].role = ASSISTANT, h.msgs[3].role = USER
  PROVE  IsCut(DropOldestAttempt(h, ep), h, 1, 2)
<1> DEFINE n == Len(h.msgs)
           off == h.msgs[2].off
           bytes == h.msgs[2].len + h.msgs[3].len
           g == [msgs  |-> [i \in 1..(Len(h.msgs) - 2) |->
                              IF i = 1 THEN h.msgs[1]
                              ELSE [h.msgs[i + 2] EXCEPT !.off = @ - bytes]],
                 arena |-> SubSeq(h.arena, 1, off)
                             \o SubSeq(h.arena, off + bytes + 1, Used(h))]
<1>1. /\ n \in Nat /\ DOMAIN h.msgs = 1..n /\ Used(h) \in Nat /\ h \in Hists
      /\ 1 \in 1..n /\ 2 \in 1..n /\ 3 \in 1..n
  BY SoundEntry DEF Sound
<1>2. DropOldestAttempt(h, ep) = g
  <2>1. ~(\/ Len(h.msgs) < 3 \/ \E i \in 1..3 : h.msgs[i].epoch # ep
          \/ h.msgs[2].role # ASSISTANT \/ h.msgs[3].role # USER)
    BY <1>1
  <2> QED BY <2>1, Zenon DEF DropOldestAttempt
<1>3. /\ h.msgs[2].off = EndOf(h, 1) /\ h.msgs[3].off = EndOf(h, 2)
      /\ EndOf(h, 2) = h.msgs[2].off + h.msgs[2].len
      /\ EndOf(h, 3) = h.msgs[3].off + h.msgs[3].len
      /\ h.msgs[2].off \in Nat /\ h.msgs[2].len \in Nat /\ h.msgs[3].len \in Nat
      /\ EndOf(h, 3) <= Used(h)
  <2>1. /\ h.msgs[2].off = EndOf(h, 2 - 1) /\ h.msgs[3].off = EndOf(h, 3 - 1)
        /\ EndOf(h, 3) <= Used(h)
    BY <1>1, SoundEntry
  <2> QED BY <1>1, <2>1, EntryFacts
<1>4. /\ off = EndOf(h, 1) /\ bytes = Gone(h, 1, 2) /\ off \in Nat /\ bytes \in Nat
      /\ off + bytes <= Used(h)
  BY <1>3 DEF Gone
<1> HIDE DEF off, bytes
<1>5. /\ g.arena \in Seq(Contents)
      /\ Len(g.arena) = Used(h) - bytes
      /\ \A b \in 1..(Used(h) - bytes) :
           g.arena[b] = IF b <= off THEN h.arena[b] ELSE h.arena[b + bytes]
  <2> DEFINE s1 == SubSeq(h.arena, 1, off)
             s2 == SubSeq(h.arena, off + bytes + 1, Used(h))
  <2>1. /\ \A i \in 1..off : h.arena[i] \in Contents
        /\ \A i \in (off + bytes + 1)..Used(h) : h.arena[i] \in Contents
    BY <1>1, <1>4, ArenaByte
  <2>2. s1 \in Seq(Contents) /\ Len(s1) = off /\ \A i \in 1..off : s1[i] = h.arena[i]
    <3>1. /\ s1 \in Seq(Contents)
          /\ Len(s1) = IF 1 <= off THEN off - 1 + 1 ELSE 0
          /\ \A i \in 1..(off - 1 + 1) : s1[i] = h.arena[1 + i - 1]
      BY <1>4, <2>1, SubSeqProperties
    <3>2. off - 1 + 1 = off /\ \A i \in 1..off : 1 + i - 1 = i
      BY <1>4
    <3> QED BY <1>4, <3>1, <3>2
  <2>3. /\ s2 \in Seq(Contents) /\ Len(s2) = Used(h) - off - bytes
        /\ \A i \in 1..(Used(h) - off - bytes) : s2[i] = h.arena[off + bytes + i]
    <3> DEFINE c == off + bytes
               u == Used(h)
               r == h.arena
    <3>1. c \in Nat /\ u \in Nat /\ c <= u /\ u - c = u - off - bytes
      BY <1>1, <1>4
    <3>2. \A i \in (c + 1)..u : r[i] \in Contents
      BY <2>1
    <3>3. s2 = SubSeq(r, c + 1, u) /\ \A i : off + bytes + i = c + i
      OBVIOUS
    <3> HIDE DEF c, u, r, s2
    <3>4. /\ SubSeq(r, c + 1, u) \in Seq(Contents) /\ Len(SubSeq(r, c + 1, u)) = u - c
          /\ \A i \in 1..(u - c) : SubSeq(r, c + 1, u)[i] = r[c + i]
      BY <3>1, <3>2, RestIs
    <3>5. s2 \in Seq(Contents) /\ Len(s2) = u - c /\ \A i \in 1..(u - c) : s2[i] = r[c + i]
      BY <3>3, <3>4, Zenon
    <3> QED BY <3>1, <3>3, <3>5, Zenon DEF u, r
  <2>4. g.arena = s1 \o s2
    OBVIOUS
  <2> HIDE DEF s1, s2, g
  <2>5. /\ g.arena \in Seq(Contents) /\ Len(g.arena) = Len(s1) + Len(s2)
        /\ \A i \in 1..(Len(s1) + Len(s2)) :
             g.arena[i] = IF i <= Len(s1) THEN s1[i] ELSE s2[i - Len(s1)]
    <3>1. s1 \in Seq(Contents) /\ s2 \in Seq(Contents)
      BY <2>2, <2>3
    <3> QED BY <3>1, <2>4, ConcatProperties
  <2>6. Len(s1) + Len(s2) = Used(h) - bytes
    BY <1>1, <1>4, <2>2, <2>3, SMTT(30)
  <2>7. ASSUME NEW b \in 1..(Used(h) - bytes)
        PROVE  g.arena[b] = IF b <= off THEN h.arena[b] ELSE h.arena[b + bytes]
    <3>1. CASE b <= off
      BY <3>1, <1>1, <1>4, <2>2, <2>5, <2>6, SMTT(30)
    <3>2. CASE ~(b <= off)
      <4>1. /\ b - off \in 1..(Used(h) - off - bytes)
            /\ off + bytes + (b - off) = b + bytes
        <5> DEFINE u == Used(h)
        <5>1. u \in Nat /\ b \in 1..(u - bytes) /\ off \in Nat /\ bytes \in Nat
          BY <1>1, <1>4
        <5> HIDE DEF u
        <5>2. b \in Nat /\ b <= u - bytes /\ b > off
          BY <3>2, <5>1
        <5>3. b - off \in Int /\ 1 <= b - off /\ b - off <= u - off - bytes
          BY <5>1, <5>2, <1>4, SMTT(30)
        <5> QED BY <5>1, <5>2, <5>3, <1>4 DEF u
      <4>2. g.arena[b] = s2[b - off]
        BY <3>2, <2>2, <2>5, <2>6
      <4> QED BY <3>2, <4>1, <4>2, <2>3
    <3> QED BY <3>1, <3>2
  <2> QED BY <2>5, <2>6, <2>7
<1>6. ASSUME NEW i \in 1..(n - 2)
      PROVE  /\ g.msgs[i] = [off |-> g.msgs[i].off, len |-> g.msgs[i].len,
                             epoch |-> g.msgs[i].epoch, role |-> g.msgs[i].role]
             /\ g.msgs[i].len = h.msgs[Src(i, 1, 2)].len
             /\ g.msgs[i].epoch = h.msgs[Src(i, 1, 2)].epoch
             /\ g.msgs[i].role = h.msgs[Src(i, 1, 2)].role
             /\ g.msgs[i].off = IF i <= 1 THEN h.msgs[i].off
                                ELSE h.msgs[i + 2].off - bytes
  <2>1. CASE i = 1
    <3>1. h.msgs[1] \in Entry /\ Src(i, 1, 2) = 1 /\ i <= 1
      BY <1>1, <2>1, EntryFacts DEF Src
    <3>2. g.msgs[i] = h.msgs[1]
      BY <2>1
    <3> HIDE DEF g
    <3> QED BY <2>1, <3>1, <3>2 DEF Entry
  <2>2. CASE i # 1
    <3>1. i + 2 \in 1..n /\ Src(i, 1, 2) = i + 2 /\ ~(i <= 1)
      BY <1>1, <2>2 DEF Src
    <3>2. h.msgs[i + 2] \in Entry
      BY <1>1, <3>1, EntryFacts
    <3>3. g.msgs[i] = [h.msgs[i + 2] EXCEPT !.off = @ - bytes]
      BY <2>2
    <3> HIDE DEF g
    <3> QED BY <3>1, <3>2, <3>3 DEF Entry
  <2> QED BY <2>1, <2>2
<1>7. /\ g = [msgs |-> g.msgs, arena |-> g.arena]
      /\ DOMAIN g.msgs = 1..(n - 2)
      /\ g.msgs = [i \in 1..(n - 2) |-> g.msgs[i]]
  OBVIOUS
<1> HIDE DEF g
<1> QED BY <1>2, <1>4, <1>5, <1>6, <1>7 DEF IsCut

(* hist_rollback_epoch pops the trailing entries of the current epoch, all *)
(* of them and no others, as a compaction of the end.                      *)
LEMMA RollbackCut ==
  ASSUME NEW h, Sound(h), NEW ep
  PROVE  \/ /\ Rollback(h, ep) = h
            /\ Len(h.msgs) = 0 \/ h.msgs[Len(h.msgs)].epoch # ep
         \/ \E keep \in 0..(Len(h.msgs) - 1) :
              /\ IsCut(Rollback(h, ep), h, keep, Len(h.msgs) - keep)
              /\ \A j \in (keep + 1)..Len(h.msgs) : h.msgs[j].epoch = ep
              /\ keep > 0 => h.msgs[keep].epoch # ep
<1> DEFINE n == Len(h.msgs)
           own == {i \in DOMAIN h.msgs :
                     \A j \in i..Len(h.msgs) : h.msgs[j].epoch = ep}
<1>1. /\ n \in Nat /\ DOMAIN h.msgs = 1..n /\ Used(h) \in Nat /\ h \in Hists
      /\ EndOf(h, n) = Used(h)
  BY SoundEntry DEF Sound
<1>2. CASE own = {}
  <2>1. Rollback(h, ep) = h
    BY <1>2, Zenon DEF Rollback
  <2>2. ASSUME n # 0, h.msgs[n].epoch = ep PROVE FALSE
    <3>1. n \in own
      BY <2>2, <1>1
    <3> QED BY <3>1, <1>2
  <2> QED BY <2>1, <2>2
<1>3. CASE own # {}
  <2> DEFINE keep == n - Cardinality(own)
             g == [msgs  |-> SubSeq(h.msgs, 1, keep),
                   arena |-> SubSeq(h.arena, 1, h.msgs[keep + 1].off)]
  <2>1. own \in SUBSET Nat
    BY <1>1
  <2>2. PICK m \in own : \A i \in own : m <= i
    <3> HIDE DEF own
    <3> QED BY <1>3, <2>1, LeastElement
  <2>3. m \in 1..n /\ \A j \in m..n : h.msgs[j].epoch = ep
    BY <2>2, <1>1
  <2>4. own = m..n
    <3>1. ASSUME NEW i \in m..n PROVE i \in own
      BY <2>3, <1>1
    <3>2. ASSUME NEW i \in own PROVE i \in m..n
      BY <2>2, <2>3, <1>1
    <3> QED BY <3>1, <3>2
  <2>5. Cardinality(own) = n - m + 1
    <3>1. ~(m > n) /\ m \in Int /\ n \in Int
      BY <1>1, <2>3
    <3> HIDE DEF own
    <3> QED BY <2>4, <3>1, FS_Interval
  <2>6. Rollback(h, ep) = g
    BY <1>3, Zenon DEF Rollback
  <2>7. keep = m - 1
    BY <1>1, <2>3, <2>5
  <2>8. keep > 0 => h.msgs[keep].epoch # ep
    <3> SUFFICES ASSUME keep > 0, h.msgs[keep].epoch = ep PROVE FALSE
      OBVIOUS
    <3>1. keep \in 1..n /\ keep \notin own
      BY <1>1, <2>2, <2>3, <2>7
    <3>2. \A j \in keep..n : h.msgs[j].epoch = ep
      <4> HIDE DEF keep
      <4> SUFFICES ASSUME NEW j \in keep..n PROVE h.msgs[j].epoch = ep
        OBVIOUS
      <4>1. j = keep \/ j \in m..n
        BY <2>3, <2>7, <1>1
      <4> QED BY <4>1, <2>3
    <3> QED BY <3>1, <3>2, <1>1
  <2> HIDE DEF keep, own
  <2>9. /\ keep \in 0..(n - 1) /\ keep + 1 \in 1..n /\ keep \in 0..n
        /\ keep + (n - keep) = n /\ n - (n - keep) = keep
    BY <1>1, <2>3, <2>7
  <2> DEFINE c == EndOf(h, keep)
  <2>10. /\ h.msgs[keep + 1].off = c /\ c \in Nat /\ c <= Used(h)
         /\ Gone(h, keep, n - keep) = Used(h) - c
    <3>1. h.msgs[keep + 1].off = EndOf(h, (keep + 1) - 1)
      BY <2>9, SoundEntry
    <3>2. (keep + 1) - 1 = keep
      BY <2>9
    <3>3. c \in 0..Used(h)
      BY <2>9, EndsAscend
    <3> QED BY <1>1, <2>9, <3>1, <3>2, <3>3 DEF Gone
  <2>11. Used(h) - Gone(h, keep, n - keep) = c
    BY <1>1, <2>10
  <2>12. /\ g.arena \in Seq(Contents) /\ Len(g.arena) = c
         /\ \A b \in 1..c : g.arena[b] = h.arena[b]
    <3> DEFINE s1 == SubSeq(h.arena, 1, c)
    <3>1. \A i \in 1..c : h.arena[i] \in Contents
      BY <1>1, <2>10, ArenaByte
    <3>2. /\ s1 \in Seq(Contents)
          /\ Len(s1) = IF 1 <= c THEN c - 1 + 1 ELSE 0
          /\ \A i \in 1..(c - 1 + 1) : s1[i] = h.arena[1 + i - 1]
      BY <2>10, <3>1, SubSeqProperties
    <3>3. c - 1 + 1 = c /\ \A i \in 1..c : 1 + i - 1 = i
      BY <2>10
    <3>4. g.arena = s1
      BY <2>10
    <3> HIDE DEF s1, g, c
    <3>5. Len(s1) = c
      BY <3>2, <3>3, <2>10
    <3> QED BY <3>2, <3>3, <3>4, <3>5
  <2>13. /\ g.msgs \in Seq(Entry) /\ Len(g.msgs) = keep
         /\ \A i \in 1..keep : g.msgs[i] = h.msgs[i]
    <3> DEFINE s1 == SubSeq(h.msgs, 1, keep)
    <3>1. \A i \in 1..keep : h.msgs[i] \in Entry
      BY <1>1, <2>9, EntryFacts
    <3>2. /\ s1 \in Seq(Entry)
          /\ Len(s1) = IF 1 <= keep THEN keep - 1 + 1 ELSE 0
          /\ \A i \in 1..(keep - 1 + 1) : s1[i] = h.msgs[1 + i - 1]
      BY <2>9, <3>1, SubSeqProperties
    <3>3. keep - 1 + 1 = keep /\ \A i \in 1..keep : 1 + i - 1 = i
      BY <2>9
    <3>4. g.msgs = s1
      OBVIOUS
    <3> HIDE DEF s1, g
    <3>5. Len(s1) = keep
      BY <3>2, <3>3, <2>9
    <3> QED BY <3>2, <3>3, <3>4, <3>5
  <2>14. g = [msgs |-> g.msgs, arena |-> g.arena]
    OBVIOUS
  <2> HIDE DEF g
  <2>15. g.msgs \in [1..keep -> Entry] /\ DOMAIN g.msgs = 1..keep
    BY <2>13, LenProperties
  <2>16. ASSUME NEW i \in 1..keep
         PROVE  /\ g.msgs[i] = [off |-> g.msgs[i].off, len |-> g.msgs[i].len,
                                epoch |-> g.msgs[i].epoch, role |-> g.msgs[i].role]
                /\ i <= keep /\ Src(i, keep, n - keep) = i
                /\ g.msgs[i] = h.msgs[i]
    <3>1. g.msgs[i] \in Entry
      BY <2>15
    <3>2. i <= keep
      BY <2>9
    <3> QED BY <3>1, <3>2, <2>13 DEF Entry, Src
  <2>17. IsCut(g, h, keep, n - keep)
    <3>1. g.msgs = [i \in 1..keep |-> g.msgs[i]]
      BY <2>15
    <3>2. \A b \in 1..c : b <= c
      BY <2>10
    <3> HIDE DEF c
    <3> QED BY <2>9, <2>11, <2>12, <2>14, <2>15, <2>16, <3>1, <3>2 DEF IsCut, c
  <2> QED BY <2>3, <2>6, <2>7, <2>8, <2>9, <2>17
<1> QED BY <1>2, <1>3

(* hist_commit appends one entry with its bytes and disturbs none before.  *)
LEMMA CommitSound ==
  ASSUME NEW h, Sound(h), NEW ep \in 0..(EPOCHS - 1), NEW len \in SIZES,
         NEW content \in Contents, NEW role, Used(h) + len <= HISTORY_BYTES,
         role = IF content.kind \in {"say", "res"} THEN USER ELSE ASSISTANT
  PROVE  LET g == Commit(h, ep, role, content, len)
             n == Len(h.msgs)
         IN /\ Sound(g)
            /\ Len(g.msgs) = n + 1
            /\ Used(g) = Used(h) + len
            /\ \A i \in 1..n : /\ Said(g, i) = Said(h, i)
                               /\ g.msgs[i] = h.msgs[i]
            /\ Said(g, n + 1) = content
            /\ g.msgs[n + 1].epoch = ep
<1> DEFINE g == Commit(h, ep, role, content, len)
           n == Len(h.msgs)
           u == Used(h)
           e == [off |-> u, len |-> len, epoch |-> ep, role |-> role]
           t == [i \in 1..len |-> content]
<1>1. /\ n \in Nat /\ DOMAIN h.msgs = 1..n /\ u \in Nat /\ h \in Hists
      /\ EndOf(h, n) = u /\ EndOf(h, 0) = 0
  BY SoundEntry DEF Sound
<1>2. len \in Nat \ {0} /\ u \in 0..HISTORY_BYTES
  BY <1>1, Constants
<1>3. e \in Entry
  BY <1>2 DEF Entry
<1>4. t \in Seq(Contents) /\ Len(t) = len /\ \A i \in 1..len : t[i] = content
  <2>1. t \in [1..len -> Contents]
    OBVIOUS
  <2>2. t \in Seq(Contents)
    BY <1>2, <2>1, SeqDef
  <2> QED BY <1>2, <2>2, <2>1, LenProperties
<1>5. g = [msgs |-> Append(h.msgs, e), arena |-> h.arena \o t]
  BY DEF Commit
<1> HIDE DEF g, e, t
<1>6. /\ g.msgs \in Seq(Entry) /\ Len(g.msgs) = n + 1
      /\ \A i \in 1..n : g.msgs[i] = h.msgs[i]
      /\ g.msgs[n + 1] = e
  <2>1. h.msgs \in Seq(Entry) /\ g.msgs = Append(h.msgs, e)
    BY <1>1, <1>5 DEF Hists
  <2> QED BY <2>1, <1>3, AppendProperties
<1>7. /\ g.arena \in Seq(Contents) /\ Len(g.arena) = u + len
      /\ \A b \in 1..(u + len) :
           g.arena[b] = IF b <= u THEN h.arena[b] ELSE content
  <2>1. h.arena \in Seq(Contents) /\ g.arena = h.arena \o t /\ Len(h.arena) = u
    BY <1>1, <1>5 DEF Hists, Used
  <2>2. /\ g.arena \in Seq(Contents) /\ Len(g.arena) = u + len
        /\ \A b \in 1..(u + len) :
             g.arena[b] = IF b <= u THEN h.arena[b] ELSE t[b - u]
    <3>1. /\ h.arena \o t \in Seq(Contents)
          /\ Len(h.arena \o t) = Len(h.arena) + Len(t)
          /\ \A b \in 1..(Len(h.arena) + Len(t)) :
               (h.arena \o t)[b] =
                 IF b <= Len(h.arena) THEN h.arena[b] ELSE t[b - Len(h.arena)]
      BY <2>1, <1>4, ConcatProperties
    <3> HIDE DEF u
    <3> QED BY <2>1, <3>1, <1>4
  <2>3. ASSUME NEW b \in 1..(u + len), ~(b <= u) PROVE t[b - u] = content
    <3> HIDE DEF u
    <3>1. b - u \in 1..len
      BY <2>3, <1>1, <1>2
    <3> QED BY <3>1, <1>4
  <2> QED BY <2>2, <2>3
<1>8. g \in Hists /\ Used(g) = u + len
  BY <1>5, <1>6, <1>7 DEF Hists, Used
<1>9. ASSUME NEW i \in 1..n
      PROVE  /\ Said(g, i) = Said(h, i) /\ g.msgs[i] = h.msgs[i]
             /\ EndOf(g, i) = EndOf(h, i) /\ EndOf(h, i) \in Nat /\ EndOf(h, i) <= u
             /\ h.msgs[i].off \in Nat /\ h.msgs[i].off + 1 <= EndOf(h, i)
             /\ i # 0
  <2>1. i # 0 /\ g.msgs[i] = h.msgs[i]
    BY <1>1, <1>6
  <2>2. /\ h.msgs[i].off \in Nat /\ h.msgs[i].len \in Nat \ {0}
        /\ EndOf(h, i) = h.msgs[i].off + h.msgs[i].len /\ EndOf(h, i) <= u
    BY <1>1, EntryFacts, SoundEntry
  <2>3. EndOf(g, i) = EndOf(h, i)
    BY <2>1, Zenon DEF EndOf
  <2>4. h.msgs[i].off + 1 \in 1..(u + len) /\ h.msgs[i].off + 1 <= u
        /\ h.msgs[i].off + 1 <= EndOf(h, i) /\ EndOf(h, i) \in Nat
    <3> DEFINE x == h.msgs[i].off
               y == h.msgs[i].len
    <3>1. x \in Nat /\ y \in Nat \ {0} /\ x + y <= u /\ u \in Nat /\ EndOf(h, i) = x + y
      BY <2>2, <1>1
    <3> HIDE DEF x, y, u
    <3>2. x + 1 \in 1..(u + len) /\ x + 1 <= u /\ x + 1 <= x + y /\ x + y \in Nat
      BY <3>1, <1>2
    <3> QED BY <3>1, <3>2 DEF x, y
  <2>5. g.arena[h.msgs[i].off + 1] = h.arena[h.msgs[i].off + 1]
    BY <2>4, <1>7
  <2>6. Said(g, i) = Said(h, i)
    BY <2>1, <2>5, Zenon DEF Said
  <2> QED BY <2>1, <2>2, <2>3, <2>4, <2>6
<1>10. /\ g.msgs[n + 1].off = u /\ g.msgs[n + 1].epoch = ep /\ g.msgs[n + 1].role = role
       /\ EndOf(g, n + 1) = u + len /\ Said(g, n + 1) = content
  <2>1. /\ g.msgs[n + 1].off = u /\ g.msgs[n + 1].len = len
        /\ g.msgs[n + 1].epoch = ep /\ g.msgs[n + 1].role = role
    BY <1>6 DEF e
  <2>2. n + 1 # 0
    BY <1>1
  <2>3. EndOf(g, n + 1) = u + len
    BY <2>1, <2>2 DEF EndOf
  <2>4. u + 1 \in 1..(u + len) /\ ~(u + 1 <= u)
    BY <1>1, <1>2
  <2> QED BY <2>1, <2>3, <2>4, <1>7 DEF Said
<1>11. Tiles(g)
  <2>1. DOMAIN g.msgs = 1..(n + 1)
    BY <1>6, LenProperties
  <2> SUFFICES ASSUME NEW i \in 1..(n + 1)
               PROVE  /\ g.msgs[i].off = EndOf(g, i - 1)
                      /\ EndOf(g, i) <= Used(g)
                      /\ \A b \in (g.msgs[i].off + 1)..EndOf(g, i) :
                           g.arena[b] = Said(g, i)
                      /\ g.msgs[i].role =
                           IF Said(g, i).kind \in {"say", "res"} THEN USER ELSE ASSISTANT
    BY <2>1, <1>6, <1>8, <1>10 DEF Tiles
  <2>2. CASE i = n + 1
    <3>1. EndOf(g, (n + 1) - 1) = u
      <4>1. (n + 1) - 1 = n
        BY <1>1
      <4>2. CASE n = 0
        BY <4>1, <4>2, <1>1 DEF EndOf
      <4>3. CASE n # 0
        <5>1. n \in 1..n
          BY <4>3, <1>1
        <5> QED BY <4>1, <5>1, <1>1, <1>9
      <4> QED BY <4>2, <4>3
    <3>2. \A b \in (u + 1)..(u + len) : g.arena[b] = content
      <4> SUFFICES ASSUME NEW b \in (u + 1)..(u + len) PROVE g.arena[b] = content
        OBVIOUS
      <4>1. b \in 1..(u + len) /\ ~(b <= u)
        BY <1>1, <1>2
      <4> QED BY <4>1, <1>7
    <3>3. u + len <= u + len
      BY <1>1, <1>2
    <3> QED BY <2>2, <3>1, <3>2, <3>3, <1>8, <1>10
  <2>3. CASE i # n + 1
    <3>1. i \in 1..n
      BY <2>3, <1>1
    <3>2. /\ h.msgs[i].off = EndOf(h, i - 1)
          /\ \A b \in (h.msgs[i].off + 1)..EndOf(h, i) : h.arena[b] = Said(h, i)
          /\ h.msgs[i].role =
               IF Said(h, i).kind \in {"say", "res"} THEN USER ELSE ASSISTANT
      BY <3>1, SoundEntry
    <3>3. EndOf(g, i - 1) = EndOf(h, i - 1)
      <4>1. CASE i = 1
        BY <4>1 DEF EndOf
      <4>2. CASE i # 1
        <5>1. i - 1 \in 1..n
          BY <4>2, <3>1, <1>1
        <5> QED BY <5>1, <1>9
      <4> QED BY <4>1, <4>2
    <3>4. ASSUME NEW b \in (g.msgs[i].off + 1)..EndOf(g, i)
          PROVE  g.arena[b] = Said(g, i)
      <4>1. b \in (h.msgs[i].off + 1)..EndOf(h, i)
        BY <3>1, <1>9
      <4>2. b \in 1..(u + len) /\ b <= u
        <5> DEFINE x == h.msgs[i].off
                   y == EndOf(h, i)
        <5>1. x \in Nat /\ y \in Nat /\ y <= u /\ b \in (x + 1)..y
          BY <4>1, <3>1, <1>9
        <5> HIDE DEF x, y, u
        <5> QED BY <5>1, <1>1, <1>2
      <4> QED BY <3>1, <3>2, <4>1, <4>2, <1>7, <1>9
    <3>5. EndOf(g, i) <= Used(g)
      <4>1. EndOf(g, i) \in Nat /\ EndOf(g, i) <= u
        BY <3>1, <1>9
      <4> QED BY <4>1, <1>1, <1>2, <1>8
    <3>6. g.msgs[i] = h.msgs[i] /\ Said(g, i) = Said(h, i)
      BY <3>1, <1>9
    <3> QED BY <3>2, <3>3, <3>4, <3>5, <3>6
  <2> QED BY <2>2, <2>3
<1>12. Sound(g)
  BY <1>8, <1>11 DEF Sound
<1> QED BY <1>6, <1>8, <1>9, <1>10, <1>12 DEF g

-----------------------------------------------------------------------------
(* The loops over the history.                                             *)

(* hist_reserve's loop: what each pass keeps, the loop keeps.              *)
LEMMA ReserveKeeps ==
  ASSUME NEW S, NEW h \in S, NEW ep, NEW need,
         \A g \in S : MakeRoom(g, ep, need) \in S
  PROVE  Reserve(h, ep, need) \in S
<1> DEFINE N == HISTORY_MSGS
           F == [g \in S |-> MakeRoom(g, ep, need)]
           D(f) == [i \in 0..N |-> IF i = 0 THEN h ELSE MakeRoom(f[i - 1], ep, need)]
           after == CHOOSE f : f = D(f)
<1>1. N \in Nat
  BY Constants
<1>2. \E f : f = D(f)
  <2>1. F \in [S -> S]
    OBVIOUS
  <2>2. \A g \in S : F[g] = MakeRoom(g, ep, need)
    OBVIOUS
  <2> HIDE DEF F
  <2>0. PICK f : IsRun(f, S, h, F, N)
    BY <1>1, <2>1, RunExists
  <2>3. f \in [0..N -> S] /\ f[0] = h /\ \A i \in 1..N : f[i] = F[f[i - 1]]
    BY <2>0 DEF IsRun
  <2>4. ASSUME NEW i \in 0..N
        PROVE  f[i] = IF i = 0 THEN h ELSE MakeRoom(f[i - 1], ep, need)
    <3>1. CASE i = 0
      BY <3>1, <2>3
    <3>2. CASE i # 0
      <4>1. i \in 1..N /\ i - 1 \in 0..N
        BY <3>2, <1>1
      <4> QED BY <3>2, <4>1, <2>2, <2>3
    <3> QED BY <3>1, <3>2
  <2>5. f = [i \in 0..N |-> f[i]]
    BY <2>3
  <2>6. ASSUME NEW i \in 0..N PROVE f[i] = D(f)[i]
    <3>1. D(f)[i] = IF i = 0 THEN h ELSE MakeRoom(f[i - 1], ep, need)
      OBVIOUS
    <3> HIDE DEF D
    <3> QED BY <3>1, <2>4, Zenon
  <2>7. f = D(f)
    <3>1. D(f) = [i \in 0..N |-> D(f)[i]]
      OBVIOUS
    <3> HIDE DEF D
    <3> QED BY <2>5, <2>6, <3>1
  <2> QED BY <2>7
<1>3. after = D(after)
  <2> HIDE DEF D
  <2> QED BY <1>2, Zenon
<1>4. Reserve(h, ep, need) = after[N]
  BY DEF Reserve
<1> HIDE DEF after
<1>5. \A i \in 0..N : after[i] = IF i = 0 THEN h ELSE MakeRoom(after[i - 1], ep, need)
  BY <1>3
<1> DEFINE T == {i \in 0..N : after[i] \in S}
<1>6. 0 \in T
  BY <1>1, <1>5
<1>7. ASSUME NEW i \in 0..(N - 1), i \in T
      PROVE  i + 1 \in T
  <2>1. i + 1 \in 0..N /\ i + 1 # 0 /\ (i + 1) - 1 = i
    BY <1>1
  <2> QED BY <2>1, <1>5, <1>7
<1> HIDE DEF T
<1>8. N \in T
  BY <1>1, <1>6, <1>7, BoundedInduction
<1> QED BY <1>4, <1>8 DEF T

(* build_request's loop: what dropping the oldest epoch keeps, it keeps.   *)
LEMMA TrimKeeps ==
  ASSUME NEW S, NEW h \in S, NEW ep, NEW room,
         \A g \in S : DropOldestEpoch(g, ep) \in S
  PROVE  Trim(h, ep, room) \in S
<1> DEFINE N == HISTORY_MSGS
           Pass(g) == IF Used(g) <= room THEN g ELSE DropOldestEpoch(g, ep)
           F == [g \in S |-> Pass(g)]
           D(f) == [i \in 0..N |-> IF i = 0 THEN h
                                   ELSE IF Used(f[i - 1]) <= room THEN f[i - 1]
                                   ELSE DropOldestEpoch(f[i - 1], ep)]
           after == CHOOSE f : f = D(f)
<1>1. N \in Nat
  BY Constants
<1>2. \E f : f = D(f)
  <2>1. F \in [S -> S]
    OBVIOUS
  <2>2. \A g \in S : F[g] = Pass(g)
    OBVIOUS
  <2> HIDE DEF F
  <2>0. PICK f : IsRun(f, S, h, F, N)
    BY <1>1, <2>1, RunExists
  <2>3. f \in [0..N -> S] /\ f[0] = h /\ \A i \in 1..N : f[i] = F[f[i - 1]]
    BY <2>0 DEF IsRun
  <2>4. ASSUME NEW i \in 0..N
        PROVE  f[i] = IF i = 0 THEN h ELSE Pass(f[i - 1])
    <3>1. CASE i = 0
      BY <3>1, <2>3
    <3>2. CASE i # 0
      <4>1. i \in 1..N /\ i - 1 \in 0..N
        BY <3>2, <1>1
      <4> HIDE DEF Pass
      <4> QED BY <3>2, <4>1, <2>2, <2>3
    <3> QED BY <3>1, <3>2
  <2>5. f = [i \in 0..N |-> f[i]]
    BY <2>3
  <2>6. ASSUME NEW i \in 0..N PROVE f[i] = D(f)[i]
    <3>1. D(f)[i] = IF i = 0 THEN h ELSE Pass(f[i - 1])
      OBVIOUS
    <3> HIDE DEF D, Pass
    <3> QED BY <3>1, <2>4, Zenon
  <2>7. f = D(f)
    <3>1. D(f) = [i \in 0..N |-> D(f)[i]]
      OBVIOUS
    <3> HIDE DEF D
    <3> QED BY <2>5, <2>6, <3>1
  <2> QED BY <2>7
<1>3. after = D(after)
  <2> HIDE DEF D
  <2> QED BY <1>2, Zenon
<1>4. Trim(h, ep, room) = after[N]
  BY DEF Trim
<1> HIDE DEF after
<1>5. \A i \in 0..N : after[i] = IF i = 0 THEN h ELSE Pass(after[i - 1])
  BY <1>3
<1> DEFINE T == {i \in 0..N : after[i] \in S}
<1>6. 0 \in T
  BY <1>1, <1>5
<1>7. ASSUME NEW i \in 0..(N - 1), i \in T
      PROVE  i + 1 \in T
  <2>1. i + 1 \in 0..N /\ i + 1 # 0 /\ (i + 1) - 1 = i
    BY <1>1
  <2> QED BY <2>1, <1>5, <1>7
<1> HIDE DEF T
<1>8. N \in T
  BY <1>1, <1>6, <1>7, BoundedInduction
<1> QED BY <1>4, <1>8 DEF T

-----------------------------------------------------------------------------
(* What the compactions keep of the storage bounds.                        *)

Fit(h) ==
  Sound(h) /\ Len(h.msgs) <= HISTORY_MSGS /\ Used(h) <= HISTORY_BYTES

(* A compaction of a history within the fixed storage stays within it.     *)
LEMMA CutFit ==
  ASSUME NEW h, Fit(h), NEW g, NEW p \in Nat, NEW k \in Nat,
         p + k <= Len(h.msgs), IsCut(g, h, p, k)
  PROVE  Fit(g)
<1>1. Sound(h)
  BY DEF Fit
<1>2. Sound(g) /\ Len(g.msgs) = Len(h.msgs) - k /\ Used(g) <= Used(h)
  BY <1>1, CutSound
<1>3. Len(h.msgs) \in Nat /\ Used(h) \in Nat /\ Used(g) \in Nat
  BY <1>1, <1>2, SoundEntry
<1> QED
  BY <1>2, <1>3, Constants DEF Fit

(* hist_drop_oldest_epoch stays within the storage.                        *)
LEMMA DropEpochFit ==
  ASSUME NEW h, Fit(h), NEW ep
  PROVE  Fit(DropOldestEpoch(h, ep))
<1>1. CASE h.msgs = <<>> \/ h.msgs[1].epoch = ep
  BY <1>1 DEF DropOldestEpoch
<1>2. CASE h.msgs # <<>> /\ h.msgs[1].epoch # ep
  <2>1. Sound(h) /\ Len(h.msgs) \in Nat
    BY SoundEntry DEF Fit
  <2>2. PICK k \in 1..Len(h.msgs) : IsCut(DropOldestEpoch(h, ep), h, 0, k)
    BY <1>2, <2>1, DropEpochCut
  <2>3. k \in Nat /\ 0 + k <= Len(h.msgs)
    BY <2>1
  <2> QED BY <2>2, <2>3, CutFit
<1> QED BY <1>1, <1>2

(* When hist_drop_oldest_attempt does something, and what.                 *)
LEMMA DropAttemptCases ==
  ASSUME NEW h, Sound(h), NEW ep
  PROVE  \/ DropOldestAttempt(h, ep) = h
         \/ /\ Len(h.msgs) >= 3 /\ \A i \in 1..3 : h.msgs[i].epoch = ep
            /\ h.msgs[2].role = ASSISTANT /\ h.msgs[3].role = USER
            /\ IsCut(DropOldestAttempt(h, ep), h, 1, 2)
<1>1. Len(h.msgs) \in Nat
  BY SoundEntry
<1>2. CASE \/ Len(h.msgs) < 3
           \/ \E i \in 1..3 : h.msgs[i].epoch # ep
           \/ h.msgs[2].role # ASSISTANT
           \/ h.msgs[3].role # USER
  BY <1>2, Zenon DEF DropOldestAttempt
<1>3. CASE ~ (\/ Len(h.msgs) < 3
              \/ \E i \in 1..3 : h.msgs[i].epoch # ep
              \/ h.msgs[2].role # ASSISTANT
              \/ h.msgs[3].role # USER)
  <2>1. /\ Len(h.msgs) >= 3 /\ \A i \in 1..3 : h.msgs[i].epoch = ep
        /\ h.msgs[2].role = ASSISTANT /\ h.msgs[3].role = USER
    BY <1>1, <1>3
  <2> QED BY <2>1, DropAttemptCut
<1> QED BY <1>2, <1>3

(* hist_drop_oldest_attempt stays within the storage.                      *)
LEMMA DropAttemptFit ==
  ASSUME NEW h, Fit(h), NEW ep
  PROVE  Fit(DropOldestAttempt(h, ep))
<1>1. Sound(h) /\ Len(h.msgs) \in Nat
  BY SoundEntry DEF Fit
<1>2. CASE DropOldestAttempt(h, ep) = h
  BY <1>2
<1>3. CASE Len(h.msgs) >= 3 /\ IsCut(DropOldestAttempt(h, ep), h, 1, 2)
  <2>1. 1 + 2 <= Len(h.msgs) /\ 1 \in Nat /\ 2 \in Nat
    BY <1>1, <1>3
  <2> QED BY <1>3, <2>1, CutFit
<1> QED BY <1>1, <1>2, <1>3, DropAttemptCases

(* hist_rollback_epoch stays within the storage.                           *)
LEMMA RollbackFit ==
  ASSUME NEW h, Fit(h), NEW ep
  PROVE  Fit(Rollback(h, ep))
<1>1. Sound(h) /\ Len(h.msgs) \in Nat
  BY SoundEntry DEF Fit
<1>2. CASE Rollback(h, ep) = h
  BY <1>2
<1>3. ASSUME NEW keep \in 0..(Len(h.msgs) - 1),
             IsCut(Rollback(h, ep), h, keep, Len(h.msgs) - keep)
      PROVE  Fit(Rollback(h, ep))
  <2>1. keep \in Nat /\ Len(h.msgs) - keep \in Nat /\ keep + (Len(h.msgs) - keep) <= Len(h.msgs)
    BY <1>1
  <2> QED BY <1>3, <2>1, CutFit
<1> QED BY <1>1, <1>2, <1>3, RollbackCut

(* One pass of hist_reserve, and the whole of it, stay within the storage. *)
LEMMA ReserveFit ==
  ASSUME NEW h, Fit(h), NEW ep, NEW need
  PROVE  Fit(Reserve(h, ep, need))
<1> DEFINE S == {g \in Hists : Fit(g)}
<1>1. h \in S
  BY DEF Fit, Sound
<1>2. ASSUME NEW g \in S PROVE MakeRoom(g, ep, need) \in S
  <2>1. Fit(g)
    OBVIOUS
  <2>2. Fit(DropOldestEpoch(g, ep)) /\ Fit(DropOldestAttempt(g, ep))
    BY <2>1, DropEpochFit, DropAttemptFit
  <2>3. Fit(MakeRoom(g, ep, need))
    BY <2>1, <2>2 DEF MakeRoom
  <2> QED BY <2>3 DEF Fit, Sound
<1> HIDE DEF S
<1>3. Reserve(h, ep, need) \in S
  BY <1>1, <1>2, ReserveKeeps
<1> QED BY <1>3 DEF S

(* build_request's evictions stay within the storage.                      *)
LEMMA TrimFit ==
  ASSUME NEW h, Fit(h), NEW ep, NEW room
  PROVE  Fit(Trim(h, ep, room))
<1> DEFINE S == {g \in Hists : Fit(g)}
<1>1. h \in S
  BY DEF Fit, Sound
<1>2. ASSUME NEW g \in S PROVE DropOldestEpoch(g, ep) \in S
  <2>1. Fit(DropOldestEpoch(g, ep))
    BY DropEpochFit
  <2> QED BY <2>1 DEF Fit, Sound
<1> HIDE DEF S
<1>3. Trim(h, ep, room) \in S
  BY <1>1, <1>2, TrimKeeps
<1> QED BY <1>3 DEF S

(* hist_commit stays within the storage that hist_reserve found free.      *)
LEMMA CommitFit ==
  ASSUME NEW h, Fit(h), NEW ep \in 0..(EPOCHS - 1), NEW len \in SIZES, NEW need \in Nat,
         NEW content \in Contents, NEW role, HasRoom(h, need), len <= need,
         role = IF content.kind \in {"say", "res"} THEN USER ELSE ASSISTANT
  PROVE  Fit(Commit(h, ep, role, content, len))
<1>1. Sound(h) /\ Len(h.msgs) \in Nat /\ Used(h) \in Nat /\ len \in Nat
  BY SoundEntry, Constants DEF Fit
<1>2. Used(h) + len <= HISTORY_BYTES /\ Len(h.msgs) + 1 <= HISTORY_MSGS
  BY <1>1, Constants DEF HasRoom
<1>3. /\ Sound(Commit(h, ep, role, content, len))
      /\ Len(Commit(h, ep, role, content, len).msgs) = Len(h.msgs) + 1
      /\ Used(Commit(h, ep, role, content, len)) = Used(h) + len
  BY <1>1, <1>2, CommitSound
<1> QED BY <1>2, <1>3 DEF Fit

-----------------------------------------------------------------------------
(* The variables of the turn loop.                                         *)

Replies == [n : ASKS, cut : BOOLEAN, done : Nat]

ChatState ==
  /\ transport \in BOOLEAN /\ in_turn \in BOOLEAN
  /\ Fit(hist)
  /\ epoch \in 0..(EPOCHS - 1)
  /\ rounds \in 0..MAX_ROUNDS /\ retries \in 0..SEND_RETRIES
  /\ text \in 0..MAXTURNS /\ turn \in 0..MAXTURNS
  /\ pc \in {"out", "round", "sent", "run"} /\ rc \in Codes
  /\ pc # "out" => turn # 0 /\ in_turn
  /\ pc = "sent" => rounds < MAX_ROUNDS
  /\ pc = "run" => reply \in Replies /\ reply.done <= reply.n
  /\ pc # "run" => reply = NoReply

(* The end of a turn leaves the loop's variables as a new turn wants them  *)
(* (ACT_CHAT_TURN_END).                                                    *)
LEMMA AbortState ==
  ASSUME NEW h, Fit(h), NEW ep, NEW code \in Codes, Abort(h, ep, code)
  PROVE  /\ Fit(hist') /\ hist' = Rollback(h, ep)
         /\ in_turn' = FALSE /\ pc' = "out" /\ rc' = code /\ rc' \in Codes
         /\ reply' = NoReply
BY RollbackFit DEF Abort, End

(* chat_ask keeps the loop's variables in their ranges.                    *)
LEMMA AskState ==
  ASSUME ChatState, NEW len \in SIZES, Ask(len)
  PROVE  ChatState'
<1> DEFINE ep == (epoch + 1) % EPOCHS
           h == Reserve(hist, ep, len + 1)
           said == [kind |-> "say", turn |-> turn + 1, round |-> 0, n |-> 0]
<1>1. /\ turn' = turn + 1 /\ epoch' = ep /\ rounds' = 0 /\ retries' = 0 /\ text' = 0
      /\ turn < MAXTURNS /\ transport' = transport
  BY DEF Ask
<1>2. ep \in 0..(EPOCHS - 1) /\ len \in Nat
  BY Constants DEF ChatState
<1>3. turn + 1 \in 1..MAXTURNS /\ turn' \in 0..MAXTURNS /\ turn' # 0
  BY <1>1, Constants DEF ChatState
<1>4. /\ rounds' \in 0..MAX_ROUNDS /\ retries' \in 0..SEND_RETRIES
      /\ text' \in 0..MAXTURNS /\ rounds' < MAX_ROUNDS
  BY <1>1, Constants
<1> HIDE DEF ep
<1>5. Fit(h)
  BY ReserveFit DEF ChatState
<1>6. said \in Contents
  BY <1>3, Constants DEF Contents
<1> HIDE DEF said, h
<1>7. CASE ~transport /\ End("ETRANSPORT") /\ UNCHANGED hist
  BY <1>1, <1>2, <1>3, <1>4, <1>7 DEF ChatState, End, Codes
<1>8. CASE Abort(h, ep, "EHISTORY")
  <2>1. "EHISTORY" \in Codes
    BY DEF Codes
  <2>2. /\ Fit(hist') /\ in_turn' = FALSE /\ pc' = "out" /\ rc' \in Codes
        /\ reply' = NoReply
    BY <1>5, <1>8, <2>1, AbortState
  <2> QED BY <1>1, <1>2, <1>3, <1>4, <2>2 DEF ChatState
<1>9. CASE /\ HasRoom(h, len + 1)
           /\ hist' = Commit(h, ep, USER, said, len)
           /\ in_turn' = TRUE /\ pc' = "round" /\ UNCHANGED <<reply, rc>>
  <2>1. said.kind = "say" /\ len + 1 \in Nat /\ len <= len + 1
    BY <1>2 DEF said
  <2>2. USER = IF said.kind \in {"say", "res"} THEN USER ELSE ASSISTANT
    BY <2>1
  <2>3. Fit(hist')
    BY <1>2, <1>5, <1>6, <1>9, <2>1, <2>2, CommitFit
  <2>4. pc = "out"
    BY DEF Ask
  <2> QED BY <1>1, <1>2, <1>3, <1>4, <1>9, <2>3, <2>4 DEF ChatState
<1> QED BY <1>7, <1>8, <1>9 DEF Ask, h, ep, said

(* The refusals, retries and failures of a turn keep the variables in      *)
(* their ranges.                                                           *)
LEMMA FailureState ==
  ASSUME ChatState,
         \/ AskRefused
         \/ StopAtCap
         \/ \E b \in BOOLEAN : SendFails(b)
         \/ \E b, s \in BOOLEAN : HttpError(b, s)
         \/ \E c \in {"EPROTO", "ENOSPC"} : BadReply(c)
  PROVE  ChatState'
<1>1. CASE AskRefused
  BY <1>1 DEF AskRefused, ChatState, Codes
<1>2. \A c \in {"ELIMIT", "ETRANSPORT", "EHTTP", "EPROTO", "ENOSPC"} : c \in Codes
  BY DEF Codes
<1>3. ASSUME NEW c \in Codes, Abort(hist, epoch, c)
      PROVE  /\ Fit(hist') /\ in_turn' = FALSE /\ pc' = "out" /\ rc' \in Codes
             /\ reply' = NoReply
  BY <1>3, AbortState DEF ChatState
<1>4. CASE StopAtCap
  <2>1. Abort(hist, epoch, "ELIMIT")
    BY <1>4 DEF StopAtCap
  <2> QED BY <1>2, <1>3, <1>4, <2>1 DEF StopAtCap, ChatState
<1>5. ASSUME NEW b \in BOOLEAN, SendFails(b) PROVE ChatState'
  <2>1. CASE b /\ retries < SEND_RETRIES
    <3>1. retries + 1 \in 0..SEND_RETRIES
      BY <2>1, Constants DEF ChatState
    <3> QED BY <1>5, <2>1, <3>1 DEF SendFails, ChatState
  <2>2. CASE ~(b /\ retries < SEND_RETRIES)
    <3>1. /\ Abort(hist, epoch, "ETRANSPORT") /\ rounds' = rounds + 1 /\ pc = "sent"
          /\ UNCHANGED <<retries, transport, epoch, text, turn>>
      BY <1>5, <2>2 DEF SendFails
    <3>2. rounds + 1 \in 0..MAX_ROUNDS
      BY <3>1, Constants DEF ChatState
    <3> QED BY <1>2, <1>3, <3>1, <3>2 DEF ChatState
  <2> QED BY <2>1, <2>2
<1>6. ASSUME NEW b \in BOOLEAN, NEW s \in BOOLEAN, HttpError(b, s) PROVE ChatState'
  <2>0. text' \in 0..MAXTURNS
    BY <1>6 DEF HttpError, ChatState
  <2>1. CASE b /\ retries < SEND_RETRIES
    <3>1. retries + 1 \in 0..SEND_RETRIES
      BY <2>1, Constants DEF ChatState
    <3> QED BY <1>6, <2>0, <2>1, <3>1 DEF HttpError, ChatState
  <2>2. CASE ~(b /\ retries < SEND_RETRIES)
    <3>1. /\ Abort(hist, epoch, "EHTTP") /\ rounds' = rounds + 1 /\ pc = "sent"
          /\ UNCHANGED <<retries, transport, epoch, turn>>
      BY <1>6, <2>2 DEF HttpError
    <3>2. rounds + 1 \in 0..MAX_ROUNDS
      BY <3>1, Constants DEF ChatState
    <3> QED BY <1>2, <1>3, <2>0, <3>1, <3>2 DEF ChatState
  <2> QED BY <2>1, <2>2
<1>7. ASSUME NEW c \in {"EPROTO", "ENOSPC"}, BadReply(c) PROVE ChatState'
  <2>1. /\ Abort(hist, epoch, c) /\ rounds' = rounds + 1 /\ pc = "sent"
        /\ UNCHANGED <<retries, transport, epoch, text, turn>>
    BY <1>7 DEF BadReply
  <2>2. rounds + 1 \in 0..MAX_ROUNDS
    BY <2>1, Constants DEF ChatState
  <2> QED BY <1>2, <1>3, <2>1, <2>2 DEF ChatState
<1> QED BY <1>1, <1>4, <1>5, <1>6, <1>7

(* build_request keeps the variables in their ranges.                      *)
LEMMA BuildState ==
  ASSUME ChatState, NEW room \in REQ_ROOMS, BuildRequest(room)
  PROVE  ChatState'
<1> DEFINE h == Trim(hist, epoch, room)
<1>1. Fit(h)
  BY TrimFit DEF ChatState
<1>2. /\ pc = "round" /\ rounds < MAX_ROUNDS
      /\ UNCHANGED <<transport, epoch, rounds, retries, text, turn>>
  BY DEF BuildRequest
<1> HIDE DEF h
<1>3. CASE hist' = h /\ pc' = "sent" /\ UNCHANGED <<in_turn, rc, reply>>
  BY <1>1, <1>2, <1>3 DEF ChatState
<1>4. ASSUME NEW c \in {"ENOSPC", "EINVAL"}, Abort(h, epoch, c) PROVE ChatState'
  <2>1. c \in Codes
    BY DEF Codes
  <2>2. /\ Fit(hist') /\ in_turn' = FALSE /\ pc' = "out" /\ rc' \in Codes
        /\ reply' = NoReply
    BY <1>1, <1>4, <2>1, AbortState
  <2> QED BY <1>2, <2>2 DEF ChatState
<1> QED BY <1>3, <1>4 DEF BuildRequest, h

(* What the loop commits is content of the turn in flight.                 *)
LEMMA ContentOK ==
  ASSUME ChatState, pc # "out", NEW kind \in {"say", "use", "res", "fin"},
         NEW round \in 0..MAX_ROUNDS, NEW n \in {0} \cup ASKS
  PROVE  /\ Content(kind, round, n) \in Contents
         /\ Content(kind, round, n).kind = kind
         /\ Content(kind, round, n).turn = turn
         /\ Content(kind, round, n).n = n
<1>1. turn \in 1..MAXTURNS
  BY Constants DEF ChatState
<1> QED BY <1>1 DEF Content, Contents

(* A reply with tool calls keeps the variables in their ranges.            *)
LEMMA ToolReplyState ==
  ASSUME ChatState, NEW n \in ASKS, NEW len \in SIZES, NEW cut \in BOOLEAN,
         NEW prose \in BOOLEAN, ToolReply(n, len, cut, prose)
  PROVE  ChatState'
<1> DEFINE h == Reserve(hist, epoch, len)
           said == Content("use", rounds + 1, n)
<1>1. /\ pc = "sent" /\ rounds' = rounds + 1
      /\ UNCHANGED <<transport, epoch, retries, turn>>
  BY DEF ToolReply
<1>2. rounds + 1 \in 0..MAX_ROUNDS /\ len \in Nat /\ epoch \in 0..(EPOCHS - 1)
      /\ n \in {0} \cup ASKS
  BY <1>1, Constants DEF ChatState
<1>3. Fit(h)
  BY ReserveFit DEF ChatState
<1>4. said \in Contents /\ said.kind = "use"
  BY <1>1, <1>2, ContentOK
<1> HIDE DEF h, said
<1>5. CASE Abort(h, epoch, "EHISTORY") /\ UNCHANGED text
  <2>1. "EHISTORY" \in Codes
    BY DEF Codes
  <2>2. /\ Fit(hist') /\ in_turn' = FALSE /\ pc' = "out" /\ rc' \in Codes
        /\ reply' = NoReply
    BY <1>3, <1>5, <2>1, AbortState
  <2> QED BY <1>1, <1>2, <1>5, <2>2 DEF ChatState
<1>6. CASE /\ HasRoom(h, len) /\ hist' = Commit(h, epoch, ASSISTANT, said, len)
           /\ pc' = "run" /\ reply' = [n |-> n, cut |-> cut, done |-> 0]
           /\ text' = (IF prose THEN turn ELSE text) /\ UNCHANGED <<in_turn, rc>>
  <2>1. ASSISTANT = IF said.kind \in {"say", "res"} THEN USER ELSE ASSISTANT
    BY <1>4
  <2>2. len <= len
    BY <1>2
  <2>3. Fit(hist')
    BY <1>2, <1>3, <1>4, <1>6, <2>1, <2>2, CommitFit
  <2>4. text' \in 0..MAXTURNS
    BY <1>6 DEF ChatState
  <2>5. n \in Nat
    BY Constants
  <2>6. reply' \in Replies /\ reply'.done <= reply'.n
    BY <1>6, <2>5 DEF Replies
  <2> QED BY <1>1, <1>2, <1>6, <2>3, <2>4, <2>6 DEF ChatState
<1> QED BY <1>5, <1>6 DEF ToolReply, h, said

(* The final reply keeps the variables in their ranges.                    *)
LEMMA FinalReplyState ==
  ASSUME ChatState, NEW len \in SIZES, NEW prose \in BOOLEAN, FinalReply(len, prose)
  PROVE  ChatState'
<1> DEFINE h == Reserve(hist, epoch, len)
           said == Content("fin", rounds + 1, 0)
<1>1. /\ pc = "sent" /\ rounds' = rounds + 1 /\ End("OK")
      /\ text' = (IF prose THEN turn ELSE text)
      /\ UNCHANGED <<transport, epoch, retries, turn>>
      /\ hist' = IF HasRoom(h, len) THEN Commit(h, epoch, ASSISTANT, said, len)
                 ELSE Rollback(h, epoch)
  BY DEF FinalReply
<1>2. rounds + 1 \in 0..MAX_ROUNDS /\ len \in Nat /\ epoch \in 0..(EPOCHS - 1)
  BY <1>1, Constants DEF ChatState
<1>3. Fit(h)
  BY ReserveFit DEF ChatState
<1>4. said \in Contents /\ said.kind = "fin"
  BY <1>1, <1>2, ContentOK
<1> HIDE DEF h, said
<1>5. Fit(hist')
  <2>1. ASSISTANT = IF said.kind \in {"say", "res"} THEN USER ELSE ASSISTANT
    BY <1>4
  <2>2. len <= len
    BY <1>2
  <2>3. CASE HasRoom(h, len)
    BY <1>1, <1>2, <1>3, <1>4, <2>1, <2>2, <2>3, CommitFit
  <2>4. CASE ~HasRoom(h, len)
    BY <1>1, <1>3, <2>4, RollbackFit
  <2> QED BY <2>3, <2>4
<1>6. text' \in 0..MAXTURNS
  BY <1>1 DEF ChatState
<1> QED BY <1>1, <1>2, <1>5, <1>6 DEF ChatState, End, Codes

(* Answering one tool_use block keeps the variables in their ranges.       *)
LEMMA AnsweredState ==
  ASSUME ChatState, RefuseTool \/ CutTool \/ DispatchTool
  PROVE  ChatState'
<1>1. /\ pc = "run" /\ reply.done < reply.n /\ reply' = Answered
      /\ UNCHANGED <<transport, hist, text, turnVars>>
  BY DEF RefuseTool, CutTool, DispatchTool
<1>2. reply \in Replies /\ reply.done \in Nat /\ reply.n \in Nat
  BY <1>1, Constants DEF ChatState, Replies
<1>3. reply.done + 1 \in Nat /\ reply.done + 1 <= reply.n
  BY <1>1, <1>2
<1>4. reply' \in Replies /\ reply'.done = reply.done + 1 /\ reply'.n = reply.n
  BY <1>1, <1>2, <1>3 DEF Answered, Replies
<1>5. reply'.done <= reply'.n
  BY <1>3, <1>4
<1> QED BY <1>1, <1>4, <1>5 DEF ChatState, turnVars

(* Recording the tool results keeps the variables in their ranges.         *)
LEMMA ResultsState ==
  ASSUME ChatState, NEW len \in SIZES, RecordResults(len)
  PROVE  ChatState'
<1> DEFINE h == Reserve(hist, epoch, len)
           said == Content("res", rounds, reply.done)
<1>1. /\ pc = "run" /\ reply.done = reply.n
      /\ UNCHANGED <<transport, epoch, rounds, retries, text, turn>>
  BY DEF RecordResults
<1>2. /\ rounds \in 0..MAX_ROUNDS /\ len \in Nat /\ epoch \in 0..(EPOCHS - 1)
      /\ reply.done \in {0} \cup ASKS
  BY <1>1, Constants DEF ChatState, Replies
<1>3. Fit(h)
  BY ReserveFit DEF ChatState
<1>4. said \in Contents /\ said.kind = "res"
  <2>1. pc # "out" /\ "res" \in {"say", "use", "res", "fin"}
    BY <1>1
  <2> DEFINE d == reply.done
  <2>2. d \in {0} \cup ASKS
    BY <1>2
  <2> HIDE DEF d
  <2>3. /\ Content("res", rounds, d) \in Contents
        /\ Content("res", rounds, d).kind = "res"
    BY <1>2, <2>1, <2>2, ContentOK
  <2> QED BY <2>3 DEF d
<1> HIDE DEF h, said
<1>5. ASSUME NEW g, Fit(g), NEW c \in {"EHISTORY", "ENOSPC"}, Abort(g, epoch, c)
      PROVE  ChatState'
  <2>1. c \in Codes
    BY DEF Codes
  <2>2. /\ Fit(hist') /\ in_turn' = FALSE /\ pc' = "out" /\ rc' \in Codes
        /\ reply' = NoReply
    BY <1>5, <2>1, AbortState
  <2> QED BY <1>1, <2>2 DEF ChatState
<1>6. CASE /\ HasRoom(h, len) /\ hist' = Commit(h, epoch, USER, said, len)
           /\ pc' = "round" /\ reply' = NoReply /\ UNCHANGED <<in_turn, rc>>
  <2>1. USER = IF said.kind \in {"say", "res"} THEN USER ELSE ASSISTANT
    BY <1>4
  <2>2. len <= len
    BY <1>2
  <2>3. Fit(hist')
    BY <1>2, <1>3, <1>4, <1>6, <2>1, <2>2, CommitFit
  <2> QED BY <1>1, <1>6, <2>3 DEF ChatState
<1>7. CASE Abort(h, epoch, "EHISTORY")
  BY <1>3, <1>5, <1>7
<1>8. CASE Abort(hist, epoch, "ENOSPC")
  BY <1>5, <1>8 DEF ChatState
<1> QED BY <1>6, <1>7, <1>8 DEF RecordResults, h, said

(* Every step of a turn keeps the variables in their ranges.               *)
LEMMA TurnState ==
  ASSUME ChatState, Wire \/ Loop \/ DispatchTool \/ AskRefused
  PROVE  ChatState'
<1>1. CASE Wire
  BY <1>1, FailureState, ToolReplyState, FinalReplyState DEF Wire
<1>2. CASE Loop
  BY <1>2, FailureState, BuildState, AnsweredState, ResultsState DEF Loop
<1>3. CASE DispatchTool
  BY <1>3, AnsweredState
<1>4. CASE AskRefused
  BY <1>4, FailureState
<1> QED BY <1>1, <1>2, <1>3, <1>4

(* The empty history is within the storage.                                *)
LEMMA EmptyFit == Fit(Empty)
<1>1. Empty.msgs = <<>> /\ Empty.arena = <<>> /\ Empty \in Hists
  BY EmptySeq DEF Empty, Hists
<1>2. Len(Empty.msgs) = 0 /\ Used(Empty) = 0 /\ DOMAIN Empty.msgs = 1..0
  BY <1>1, EmptySeq, LenProperties DEF Used, Hists
<1>3. EndOf(Empty, Len(Empty.msgs)) = Used(Empty)
  BY <1>2 DEF EndOf
<1>4. Tiles(Empty)
  BY <1>2, <1>3 DEF Tiles
<1> QED BY <1>1, <1>2, <1>4, Constants DEF Fit, Sound

(* At boot, with or without a transport.                                   *)
LEMMA InitState ==
  ASSUME Init
  PROVE  ChatState
<1>1. Fit(hist)
  BY EmptyFit DEF Init
<1>2. /\ epoch \in 0..(EPOCHS - 1) /\ rounds \in 0..MAX_ROUNDS
      /\ retries \in 0..SEND_RETRIES /\ text \in 0..MAXTURNS /\ turn \in 0..MAXTURNS
  BY Constants DEF Init
<1>3. rc \in Codes /\ pc = "out" /\ reply = NoReply
  BY DEF Init, Codes
<1>4. transport \in BOOLEAN /\ in_turn \in BOOLEAN
  BY DEF Init
<1> QED BY <1>1, <1>2, <1>3, <1>4 DEF ChatState

-----------------------------------------------------------------------------
(* What the history says: a conversation, between and during turns.  The   *)
(* epoch of an entry is the turn that wrote it as long as the 16-bit epoch *)
(* counter has not wrapped, which is the hypothesis of the theorems below. *)

Follows(a, b) ==
  \/ a.kind \in {"say", "res"} /\ b.kind \in {"use", "fin"} /\ b.turn = a.turn
  \/ a.kind = "use" /\ b = [a EXCEPT !.kind = "res"]
  \/ a.kind = "fin" /\ b.kind = "say" /\ a.turn < b.turn

Talk(h) ==
  /\ Len(h.msgs) > 0 => Said(h, 1).kind = "say"
  /\ \A i \in 1..(Len(h.msgs) - 1) : Follows(Said(h, i), Said(h, i + 1))
  /\ \A i, j \in 1..Len(h.msgs) : i <= j => Said(h, i).turn <= Said(h, j).turn
  /\ \A i \in 1..Len(h.msgs) : h.msgs[i].epoch = Said(h, i).turn

(* Between turns: whole exchanges, none newer than turn t.                 *)
Rest(h, t) ==
  /\ Fit(h) /\ Talk(h)
  /\ \A i \in 1..Len(h.msgs) : Said(h, i).turn <= t
  /\ Len(h.msgs) > 0 => Said(h, Len(h.msgs)).kind = "fin"

(* During turn t: the last message is of that turn and one of K.           *)
Live(h, t, K) ==
  /\ Fit(h) /\ Talk(h)
  /\ Len(h.msgs) > 0
  /\ Said(h, Len(h.msgs)) \in K /\ Said(h, Len(h.msgs)).turn = t

Asking(t) == {c \in Contents : c.kind \in {"say", "res"} /\ c.turn = t}

(* With a tool result K also holds the sentence it may be cut back to.     *)
Closed(t, K) == \A c \in K : c.kind = "res" => Asking(t) \subseteq K

(* What an entry delimits is a content (the bytes hist_commit copied).     *)
LEMMA SaidContent ==
  ASSUME NEW h, Sound(h), NEW i \in 1..Len(h.msgs)
  PROVE  /\ Said(h, i) \in Contents
         /\ Said(h, i).turn \in 1..MAXTURNS
         /\ Said(h, i).kind \in {"say", "use", "res", "fin"}
         /\ h.msgs[i].role =
              IF Said(h, i).kind \in {"say", "res"} THEN USER ELSE ASSISTANT
<1> DEFINE b == h.msgs[i].off + 1
           n == Len(h.msgs)
<1>1. /\ h.msgs[i].off = EndOf(h, i - 1) /\ n \in Nat
      /\ h.msgs[i].role =
           IF Said(h, i).kind \in {"say", "res"} THEN USER ELSE ASSISTANT
  BY SoundEntry
<1>2. i - 1 \in 0..n /\ i \in 0..n /\ i - 1 < i
  BY <1>1
<1>3. EndOf(h, i - 1) < EndOf(h, i) /\ EndOf(h, i - 1) \in 0..Used(h)
      /\ EndOf(h, i) \in 0..Used(h) /\ Used(h) \in Nat
  BY <1>2, EndsAscend, SoundEntry
<1>4. b \in 1..Used(h)
  BY <1>1, <1>3
<1> HIDE DEF b
<1>5. h.arena[b] \in Contents
  BY <1>4, ArenaByte
<1>6. Said(h, i) \in Contents
  BY <1>5 DEF Said, b
<1> QED BY <1>1, <1>6 DEF Contents

(* A cut whose two ends go together leaves a conversation.                 *)
LEMMA CutTalk ==
  ASSUME NEW h, Sound(h), Talk(h), NEW g, NEW p \in Nat, NEW k \in Nat,
         p + k <= Len(h.msgs), IsCut(g, h, p, k),
         p = 0 /\ k < Len(h.msgs) => Said(h, k + 1).kind = "say",
         p > 0 /\ p + k < Len(h.msgs) => Follows(Said(h, p), Said(h, p + k + 1))
  PROVE  /\ Talk(g)
         /\ Len(g.msgs) = Len(h.msgs) - k
         /\ \A i \in 1..Len(g.msgs) :
              /\ Src(i, p, k) \in 1..Len(h.msgs)
              /\ Said(g, i) = Said(h, Src(i, p, k))
<1> DEFINE n == Len(h.msgs)
           m == Len(g.msgs)
<1>1. n \in Nat /\ m = n - k /\ m \in Nat
  BY CutSound, SoundEntry
<1>2. \A i \in 1..m : /\ Said(g, i) = Said(h, Src(i, p, k))
                      /\ g.msgs[i].epoch = h.msgs[Src(i, p, k)].epoch
  BY <1>1, CutSound
<1>3. \A i \in 1..m : Src(i, p, k) \in 1..n
  BY <1>1 DEF Src
<1> HIDE DEF n, m
<1>4. m > 0 => Said(g, 1).kind = "say"
  <2>1. SUFFICES ASSUME m > 0 PROVE Said(g, 1).kind = "say"
    OBVIOUS
  <2>2. CASE p = 0
    <3>1. Src(1, p, k) = k + 1 /\ k < n /\ 1 \in 1..m
      BY <1>1, <2>1, <2>2 DEF Src
    <3> QED BY <1>2, <2>2, <3>1 DEF n
  <2>3. CASE p > 0
    <3>1. Src(1, p, k) = 1 /\ n > 0 /\ 1 \in 1..m
      BY <1>1, <2>1, <2>3 DEF Src
    <3> QED BY <1>2, <3>1 DEF Talk, n
  <2> QED BY <2>2, <2>3
<1>5. ASSUME NEW i \in 1..(m - 1)
      PROVE  Follows(Said(g, i), Said(g, i + 1))
  <2>1. i \in 1..m /\ i + 1 \in 1..m
    BY <1>1
  <2>2. Said(g, i) = Said(h, Src(i, p, k)) /\ Said(g, i + 1) = Said(h, Src(i + 1, p, k))
    BY <1>2, <2>1
  <2>3. CASE i = p
    <3>1. Src(i, p, k) = p /\ Src(i + 1, p, k) = p + k + 1 /\ p > 0 /\ p + k < n
      BY <1>1, <2>1, <2>3 DEF Src
    <3> QED BY <2>2, <3>1 DEF n
  <2>4. CASE i # p
    <3>1. Src(i + 1, p, k) = Src(i, p, k) + 1 /\ Src(i, p, k) \in 1..(n - 1)
      BY <1>1, <2>1, <2>4 DEF Src
    <3> QED BY <2>2, <3>1 DEF Talk, n
  <2> QED BY <2>3, <2>4
<1>6. ASSUME NEW i \in 1..m, NEW j \in 1..m, i <= j
      PROVE  Said(g, i).turn <= Said(g, j).turn
  <2>1. Src(i, p, k) <= Src(j, p, k)
    BY <1>1, <1>6 DEF Src
  <2> DEFINE x == Src(i, p, k)
             y == Src(j, p, k)
  <2>2. x \in 1..n /\ y \in 1..n /\ x <= y /\ Said(g, i) = Said(h, x) /\ Said(g, j) = Said(h, y)
    BY <1>2, <1>3, <2>1
  <2> HIDE DEF x, y
  <2> QED BY <2>2 DEF Talk, n
<1>7. ASSUME NEW i \in 1..m
      PROVE  g.msgs[i].epoch = Said(g, i).turn
  BY <1>2, <1>3 DEF Talk, n
<1>8. Talk(g)
  BY <1>4, <1>5, <1>6, <1>7 DEF Talk, m
<1> QED BY <1>1, <1>2, <1>3, <1>8 DEF m, n

(* A message that follows the last one continues the conversation.         *)
LEMMA CommitTalk ==
  ASSUME NEW h, Sound(h), Talk(h), NEW ep \in 0..(EPOCHS - 1), NEW len \in SIZES,
         NEW content \in Contents, NEW role, Used(h) + len <= HISTORY_BYTES,
         role = IF content.kind \in {"say", "res"} THEN USER ELSE ASSISTANT,
         content.turn = ep,
         \A i \in 1..Len(h.msgs) : Said(h, i).turn <= ep,
         Len(h.msgs) = 0 => content.kind = "say",
         Len(h.msgs) > 0 => Follows(Said(h, Len(h.msgs)), content)
  PROVE  LET g == Commit(h, ep, role, content, len)
         IN /\ Talk(g)
            /\ Len(g.msgs) = Len(h.msgs) + 1
            /\ Said(g, Len(g.msgs)) = content
            /\ \A i \in 1..Len(h.msgs) : Said(g, i) = Said(h, i)
<1> DEFINE g == Commit(h, ep, role, content, len)
           n == Len(h.msgs)
<1>1. /\ n \in Nat /\ Len(g.msgs) = n + 1
      /\ \A i \in 1..n : Said(g, i) = Said(h, i) /\ g.msgs[i] = h.msgs[i]
      /\ Said(g, n + 1) = content
      /\ g.msgs[n + 1].epoch = ep
  BY CommitSound, SoundEntry
<1> HIDE DEF g, n
<1>2. Said(g, 1).kind = "say"
  <2>1. CASE n = 0
    BY <1>1, <2>1 DEF n
  <2>2. CASE n > 0
    BY <1>1, <2>2 DEF Talk, n
  <2> QED BY <1>1, <2>1, <2>2
<1>3. ASSUME NEW i \in 1..n
      PROVE  Follows(Said(g, i), Said(g, i + 1))
  <2>1. CASE i = n
    BY <1>1, <2>1 DEF n
  <2>2. CASE i # n
    <3>1. i \in 1..(n - 1) /\ i + 1 \in 1..n
      BY <1>1, <2>2
    <3> QED BY <1>1, <3>1 DEF Talk, n
  <2> QED BY <2>1, <2>2
<1>4. ASSUME NEW i \in 1..(n + 1), NEW j \in 1..(n + 1), i <= j
      PROVE  Said(g, i).turn <= Said(g, j).turn
  <2>0. ep \in Int
    BY Constants
  <2>1. CASE j = n + 1 /\ i = n + 1
    BY <1>1, <2>0, <2>1
  <2>2. CASE j = n + 1 /\ i # n + 1
    <3>1. i \in 1..n
      BY <1>1, <2>2
    <3> QED BY <1>1, <2>2, <3>1 DEF n
  <2>3. CASE j # n + 1
    <3>1. i \in 1..n /\ j \in 1..n
      BY <1>1, <1>4, <2>3
    <3> QED BY <1>1, <1>4, <3>1 DEF Talk, n
  <2> QED BY <2>1, <2>2, <2>3
<1>5. ASSUME NEW i \in 1..(n + 1)
      PROVE  g.msgs[i].epoch = Said(g, i).turn
  <2>1. CASE i = n + 1
    BY <1>1, <2>1
  <2>2. CASE i # n + 1
    <3>1. i \in 1..n
      BY <1>1, <2>2
    <3> QED BY <1>1, <3>1 DEF Talk, n
  <2> QED BY <2>1, <2>2
<1>6. n + 1 - 1 = n
  BY <1>1
<1>7. Talk(g)
  BY <1>1, <1>2, <1>3, <1>4, <1>5, <1>6 DEF Talk
<1> QED BY <1>1, <1>7 DEF g, n

(* Dropping the oldest exchange leaves whole exchanges.                    *)
LEMMA RestDrop ==
  ASSUME NEW t \in Nat, NEW h, Rest(h, t), NEW ep
  PROVE  Rest(DropOldestEpoch(h, ep), t)
<1> DEFINE g == DropOldestEpoch(h, ep)
           n == Len(h.msgs)
<1>0. Sound(h) /\ Fit(h) /\ Talk(h) /\ n \in Nat
  BY SoundEntry DEF Rest, Fit
<1>1. CASE h.msgs = <<>> \/ h.msgs[1].epoch = ep
  BY <1>1, Zenon DEF DropOldestEpoch
<1>2. CASE h.msgs # <<>> /\ h.msgs[1].epoch # ep
  <2>1. PICK k \in 1..n :
          /\ IsCut(g, h, 0, k)
          /\ \A j \in 1..k : h.msgs[j].epoch = h.msgs[1].epoch
          /\ k < n => h.msgs[k + 1].epoch # h.msgs[1].epoch
    BY <1>0, <1>2, DropEpochCut
  <2>2. k \in Nat /\ 0 \in Nat /\ 0 + k <= n
    BY <1>0
  <2>3. ASSUME k < n PROVE Said(h, k + 1).kind = "say"
    <3>1. k \in 1..(n - 1) /\ k + 1 \in 1..n
      BY <1>0, <2>3
    <3>2. Follows(Said(h, k), Said(h, k + 1))
      BY <1>0, <3>1 DEF Talk
    <3>3. Said(h, k).turn # Said(h, k + 1).turn
      BY <1>0, <2>1, <2>3, <3>1 DEF Talk
    <3>4. Said(h, k) \in Contents
      BY <1>0, SaidContent
    <3> QED BY <3>2, <3>3, <3>4 DEF Follows, Contents
  <2>4. Fit(g)
    BY <1>0, DropEpochFit
  <2> HIDE DEF g
  <2>5. /\ Talk(g) /\ Len(g.msgs) = n - k
        /\ \A i \in 1..Len(g.msgs) : /\ Src(i, 0, k) \in 1..n
                                     /\ Said(g, i) = Said(h, Src(i, 0, k))
    BY <1>0, <2>1, <2>2, <2>3, CutTalk
  <2>6. \A i \in 1..Len(g.msgs) : Said(g, i).turn <= t
    BY <2>5 DEF Rest
  <2>7. ASSUME Len(g.msgs) > 0 PROVE Said(g, Len(g.msgs)).kind = "fin"
    <3>1. Src(n - k, 0, k) = n /\ n - k \in 1..(n - k) /\ n > 0
      BY <1>0, <2>2, <2>5, <2>7 DEF Src
    <3> QED BY <2>5, <3>1 DEF Rest
  <2>8. Rest(g, t)
    BY <2>4, <2>5, <2>6, <2>7 DEF Rest
  <2> QED BY <2>8 DEF g
<1> QED BY <1>1, <1>2

(* Making room for the sentence of a new turn leaves whole exchanges: no   *)
(* entry is of the new epoch.                                              *)
LEMMA RestReserve ==
  ASSUME NEW t \in Nat, NEW h, Rest(h, t), NEW need
  PROVE  Rest(Reserve(h, t + 1, need), t)
<1> DEFINE S == {g \in Hists : Rest(g, t)}
<1>1. ASSUME NEW g, Rest(g, t)
      PROVE  g \in S
  BY <1>1 DEF Rest, Fit, Sound
<1>2. ASSUME NEW g \in S
      PROVE  MakeRoom(g, t + 1, need) \in S
  <2>1. Rest(g, t) /\ Sound(g) /\ Talk(g)
    BY DEF Rest, Fit
  <2>2. Rest(DropOldestEpoch(g, t + 1), t)
    BY <2>1, RestDrop
  <2>3. DropOldestAttempt(g, t + 1) = g
    <3>1. SUFFICES ASSUME Len(g.msgs) >= 3, g.msgs[1].epoch = t + 1
                   PROVE  FALSE
      BY <2>1, DropAttemptCases
    <3>2. 1 \in 1..Len(g.msgs)
      BY <2>1, <3>1, SoundEntry
    <3>3. Said(g, 1).turn <= t /\ g.msgs[1].epoch = Said(g, 1).turn
      BY <2>1, <3>2 DEF Rest, Talk
    <3> QED BY <3>1, <3>3
  <2>4. Rest(MakeRoom(g, t + 1, need), t)
    BY <2>1, <2>2, <2>3, Zenon DEF MakeRoom
  <2> QED BY <1>1, <2>4
<1> HIDE DEF S
<1>3. h \in S
  BY <1>1
<1>4. Reserve(h, t + 1, need) \in S
  BY <1>2, <1>3, ReserveKeeps
<1> QED BY <1>4 DEF S

(* Dropping the oldest exchange does not touch the turn in flight.         *)
LEMMA LiveDrop ==
  ASSUME NEW t \in Nat, NEW K, NEW h, Live(h, t, K)
  PROVE  Live(DropOldestEpoch(h, t), t, K)
<1> DEFINE g == DropOldestEpoch(h, t)
           n == Len(h.msgs)
<1>0. Sound(h) /\ Fit(h) /\ Talk(h) /\ n \in Nat /\ n > 0
  BY SoundEntry DEF Live, Fit
<1>1. CASE h.msgs = <<>> \/ h.msgs[1].epoch = t
  BY <1>1, Zenon DEF DropOldestEpoch
<1>2. CASE h.msgs # <<>> /\ h.msgs[1].epoch # t
  <2>1. PICK k \in 1..n :
          /\ IsCut(g, h, 0, k)
          /\ \A j \in 1..k : h.msgs[j].epoch = h.msgs[1].epoch
          /\ k < n => h.msgs[k + 1].epoch # h.msgs[1].epoch
    BY <1>0, <1>2, DropEpochCut
  <2>2. k \in Nat /\ 0 \in Nat /\ 0 + k <= n /\ n \in 1..n
    BY <1>0
  <2>3. h.msgs[n].epoch = t
    BY <2>2, <1>0 DEF Live, Talk
  <2>4. k < n
    BY <1>0, <1>2, <2>1, <2>3
  <2>5. Said(h, k + 1).kind = "say"
    <3>1. k \in 1..(n - 1) /\ k + 1 \in 1..n
      BY <1>0, <2>4
    <3>2. Follows(Said(h, k), Said(h, k + 1))
      BY <1>0, <3>1 DEF Talk
    <3>3. Said(h, k).turn # Said(h, k + 1).turn
      BY <1>0, <2>1, <2>4, <3>1 DEF Talk
    <3>4. Said(h, k) \in Contents
      BY <1>0, SaidContent
    <3> QED BY <3>2, <3>3, <3>4 DEF Follows, Contents
  <2>6. Fit(g)
    BY <1>0, DropEpochFit
  <2> HIDE DEF g
  <2>7. /\ Talk(g) /\ Len(g.msgs) = n - k
        /\ \A i \in 1..Len(g.msgs) : Said(g, i) = Said(h, Src(i, 0, k))
    BY <1>0, <2>1, <2>2, <2>5, CutTalk
  <2>8. Src(n - k, 0, k) = n /\ n - k \in 1..(n - k) /\ n - k > 0
    BY <1>0, <2>2, <2>4 DEF Src
  <2>9. Live(g, t, K)
    BY <2>6, <2>7, <2>8 DEF Live
  <2> QED BY <2>9 DEF g
<1> QED BY <1>1, <1>2

(* Dropping the oldest attempt of the turn in flight takes a tool_use with *)
(* its own results and leaves a conversation; the last message stays, or   *)
(* it was those results and the sentence is the last again.                *)
LEMMA LiveAttempt ==
  ASSUME NEW t \in Nat, NEW K, Closed(t, K), NEW h, Live(h, t, K)
  PROVE  Live(DropOldestAttempt(h, t), t, K)
<1> DEFINE g == DropOldestAttempt(h, t)
           n == Len(h.msgs)
<1>0. Sound(h) /\ Fit(h) /\ Talk(h) /\ n \in Nat /\ n > 0
  BY SoundEntry DEF Live, Fit
<1>1. CASE g = h
  BY <1>1
<1>2. CASE /\ n >= 3 /\ \A i \in 1..3 : h.msgs[i].epoch = t
           /\ h.msgs[2].role = ASSISTANT /\ h.msgs[3].role = USER
           /\ IsCut(g, h, 1, 2)
  <2>1. 1 \in 1..n /\ 2 \in 1..n /\ 3 \in 1..n /\ 1 \in 1..(n - 1) /\ 2 \in 1..(n - 1)
    BY <1>0, <1>2
  <2>2. Said(h, 1).kind = "say" /\ Said(h, 1).turn = t /\ Said(h, 2).turn = t /\ Said(h, 3).turn = t
    BY <1>0, <1>2, <2>1 DEF Talk
  <2>3. Said(h, 1) \in Contents /\ Said(h, 2) \in Contents /\ Said(h, 3) \in Contents
    BY <1>0, <2>1, SaidContent
  <2>4. Said(h, 2).kind \in {"use", "fin"} /\ Said(h, 3).kind \in {"say", "res"}
    <3>1. /\ ASSISTANT = IF Said(h, 2).kind \in {"say", "res"} THEN USER ELSE ASSISTANT
          /\ USER = IF Said(h, 3).kind \in {"say", "res"} THEN USER ELSE ASSISTANT
      BY <1>0, <1>2, <2>1, SaidContent
    <3> QED BY <2>3, <3>1 DEF USER, ASSISTANT, Contents
  <2>5. Follows(Said(h, 2), Said(h, 3))
    <3>1. 2 + 1 = 3
      OBVIOUS
    <3> QED BY <1>0, <2>1, <3>1 DEF Talk
  <2>6. Said(h, 3).kind = "res"
    BY <2>2, <2>3, <2>4, <2>5 DEF Follows, Contents
  <2>7. ASSUME 3 < n PROVE Follows(Said(h, 1), Said(h, 4))
    <3>1. 3 \in 1..(n - 1) /\ 3 + 1 = 4 /\ 4 \in 1..n
      BY <1>0, <2>7
    <3>2. Follows(Said(h, 3), Said(h, 4))
      BY <1>0, <3>1 DEF Talk
    <3> QED BY <2>2, <2>6, <3>2 DEF Follows
  <2>8. Fit(g)
    BY <1>0, DropAttemptFit
  <2> HIDE DEF g
  <2>9. 1 \in Nat /\ 2 \in Nat /\ 1 + 2 <= n /\ 1 > 0 /\ 1 + 2 + 1 = 4 /\ 1 + 2 = 3 /\ 1 # 0
    BY <1>0, <1>2
  <2>10. /\ Talk(g) /\ Len(g.msgs) = n - 2
         /\ \A i \in 1..Len(g.msgs) : Said(g, i) = Said(h, Src(i, 1, 2))
    <3> DEFINE p == 1
               k == 2
    <3>1. /\ p \in Nat /\ k \in Nat /\ p + k <= n /\ IsCut(g, h, p, k)
          /\ p = 0 /\ k < n => Said(h, k + 1).kind = "say"
          /\ p > 0 /\ p + k < n => Follows(Said(h, p), Said(h, p + k + 1))
      <4>1. p \in Nat /\ k \in Nat /\ p + k <= n /\ IsCut(g, h, p, k)
        BY <1>2, <2>9
      <4>2. p = 0 /\ k < n => Said(h, k + 1).kind = "say"
        BY <2>9
      <4>3. 1 + 2 < n => Follows(Said(h, 1), Said(h, 1 + 2 + 1))
        BY <2>7, <2>9
      <4> QED BY <4>1, <4>2, <4>3
    <3> HIDE DEF p, k
    <3>2. /\ Talk(g) /\ Len(g.msgs) = Len(h.msgs) - k
          /\ \A i \in 1..Len(g.msgs) :
               /\ Src(i, p, k) \in 1..Len(h.msgs)
               /\ Said(g, i) = Said(h, Src(i, p, k))
      <4>1. p \in Nat /\ k \in Nat /\ p + k <= Len(h.msgs)
        BY <3>1
      <4>2. p = 0 /\ k < Len(h.msgs) => Said(h, k + 1).kind = "say"
        BY <3>1
      <4>3. p > 0 /\ p + k < Len(h.msgs) => Follows(Said(h, p), Said(h, p + k + 1))
        BY <3>1
      <4>4. IsCut(g, h, p, k) /\ Sound(h) /\ Talk(h)
        BY <1>0, <3>1
      <4> QED BY <4>1, <4>2, <4>3, <4>4, CutTalk
    <3> QED BY <3>2 DEF p, k
  <2>11. n - 2 \in 1..(n - 2) /\ n - 2 > 0
    BY <1>0, <1>2
  <2> HIDE DEF n
  <2>12. CASE n = 3
    <3>1. n - 2 = 1 /\ Src(1, 1, 2) = 1
      BY <2>12 DEF Src
    <3>2. Said(g, n - 2) = Said(h, 1)
      BY <2>10, <2>11, <3>1
    <3>3. Said(h, 1) \in Asking(t)
      BY <2>2, <2>3 DEF Asking
    <3>4. Said(h, 1) \in K
      BY <2>6, <2>12, <3>3 DEF Live, Closed, n
    <3> QED BY <2>2, <2>8, <2>10, <2>11, <3>2, <3>4 DEF Live, g, n
  <2>13. CASE n # 3
    <3>1. Src(n - 2, 1, 2) = n
      BY <1>0, <1>2, <2>13 DEF Src
    <3>2. Said(g, n - 2) = Said(h, n)
      BY <2>10, <2>11, <3>1
    <3> QED BY <2>8, <2>10, <2>11, <3>2 DEF Live, g, n
  <2> QED BY <2>12, <2>13
<1> QED BY <1>0, <1>1, <1>2, DropAttemptCases DEF n

(* hist_reserve during a turn.                                             *)
LEMMA LiveReserve ==
  ASSUME NEW t \in Nat, NEW K, Closed(t, K), NEW h, Live(h, t, K), NEW need
  PROVE  Live(Reserve(h, t, need), t, K)
<1> DEFINE S == {g \in Hists : Live(g, t, K)}
<1>1. ASSUME NEW g, Live(g, t, K)
      PROVE  g \in S
  BY <1>1 DEF Live, Fit, Sound
<1>2. ASSUME NEW g \in S
      PROVE  MakeRoom(g, t, need) \in S
  <2>1. Live(g, t, K)
    OBVIOUS
  <2>2. Live(DropOldestEpoch(g, t), t, K) /\ Live(DropOldestAttempt(g, t), t, K)
    BY <2>1, LiveDrop, LiveAttempt
  <2>3. Live(MakeRoom(g, t, need), t, K)
    BY <2>1, <2>2, Zenon DEF MakeRoom
  <2> QED BY <1>1, <2>3
<1> HIDE DEF S
<1>3. h \in S
  BY <1>1
<1>4. Reserve(h, t, need) \in S
  BY <1>2, <1>3, ReserveKeeps
<1> QED BY <1>4 DEF S

(* build_request's trimming during a turn.                                 *)
LEMMA LiveTrim ==
  ASSUME NEW t \in Nat, NEW K, NEW h, Live(h, t, K), NEW room
  PROVE  Live(Trim(h, t, room), t, K)
<1> DEFINE S == {g \in Hists : Live(g, t, K)}
<1>1. ASSUME NEW g, Live(g, t, K)
      PROVE  g \in S
  BY <1>1 DEF Live, Fit, Sound
<1>2. ASSUME NEW g \in S
      PROVE  DropOldestEpoch(g, t) \in S
  <2>1. Live(DropOldestEpoch(g, t), t, K)
    BY LiveDrop
  <2> QED BY <1>1, <2>1
<1> HIDE DEF S
<1>3. h \in S
  BY <1>1
<1>4. Trim(h, t, room) \in S
  BY <1>2, <1>3, TrimKeeps
<1> QED BY <1>4 DEF S

(* During a turn no message is newer than it.                              *)
LEMMA LiveTurns ==
  ASSUME NEW t \in Nat, NEW K, NEW h, Live(h, t, K)
  PROVE  \A i \in 1..Len(h.msgs) : Said(h, i).turn <= t
<1>1. Sound(h) /\ Talk(h) /\ Len(h.msgs) \in Nat /\ Len(h.msgs) > 0
  BY SoundEntry DEF Live, Fit
<1>2. Len(h.msgs) \in 1..Len(h.msgs)
  BY <1>1
<1>3. ASSUME NEW i \in 1..Len(h.msgs) PROVE i <= Len(h.msgs)
  BY <1>1
<1> QED BY <1>1, <1>2, <1>3 DEF Talk, Live

(* hist_rollback_epoch on the turn in flight: it goes, and whole exchanges *)
(* are left.                                                               *)
LEMMA LiveRollback ==
  ASSUME NEW t \in Nat, NEW K, NEW h, Live(h, t, K)
  PROVE  /\ Rest(Rollback(h, t), t)
         /\ \E keep \in 0..(Len(h.msgs) - 1) :
              /\ Len(Rollback(h, t).msgs) = keep
              /\ \A i \in 1..keep : /\ Said(Rollback(h, t), i) = Said(h, i)
                                    /\ Said(h, i).turn # t
              /\ \A i \in (keep + 1)..Len(h.msgs) : Said(h, i).turn = t
<1> DEFINE n == Len(h.msgs)
           g == Rollback(h, t)
<1>0. Sound(h) /\ Fit(h) /\ Talk(h) /\ n \in Nat /\ n > 0
  BY SoundEntry DEF Live, Fit
<1>1. n \in 1..n /\ h.msgs[n].epoch = t
  BY <1>0 DEF Live, Talk
<1>2. PICK keep \in 0..(n - 1) :
        /\ IsCut(g, h, keep, n - keep)
        /\ \A j \in (keep + 1)..n : h.msgs[j].epoch = t
        /\ keep > 0 => h.msgs[keep].epoch # t
  <2>1. \/ Rollback(h, t) = h /\ (Len(h.msgs) = 0 \/ h.msgs[Len(h.msgs)].epoch # t)
        \/ \E keep \in 0..(Len(h.msgs) - 1) :
             /\ IsCut(Rollback(h, t), h, keep, Len(h.msgs) - keep)
             /\ \A j \in (keep + 1)..Len(h.msgs) : h.msgs[j].epoch = t
             /\ keep > 0 => h.msgs[keep].epoch # t
    BY <1>0, RollbackCut, Zenon
  <2>2. ~(Len(h.msgs) = 0 \/ h.msgs[Len(h.msgs)].epoch # t)
    BY <1>0, <1>1
  <2> QED BY <2>1, <2>2, Zenon
<1>3. keep \in Nat /\ n - keep \in Nat /\ keep + (n - keep) = n /\ n - (n - keep) = keep
      /\ keep + (n - keep) <= n /\ ~(keep + (n - keep) < n) /\ ~(keep = 0 /\ n - keep < n)
  BY <1>0
<1>4. Fit(g)
  BY <1>0, RollbackFit
<1>5. \A i \in 1..n : Said(h, i).turn <= t /\ Said(h, i).turn \in Nat
  <2>1. \A i \in 1..n : Said(h, i).turn <= t
    BY LiveTurns
  <2>2. \A i \in 1..n : Said(h, i).turn \in 1..MAXTURNS
    BY <1>0, SaidContent
  <2>3. 1..MAXTURNS \subseteq Nat
    BY Constants
  <2> QED BY <2>1, <2>2, <2>3
<1> HIDE DEF n, g
<1>6. /\ Talk(g) /\ Len(g.msgs) = keep
      /\ \A i \in 1..Len(g.msgs) : Said(g, i) = Said(h, Src(i, keep, n - keep))
  <2> DEFINE k == n - keep
  <2>1. /\ k \in Nat /\ keep + k <= n /\ IsCut(g, h, keep, k) /\ n - k = keep
        /\ ~(keep = 0 /\ k < n) /\ ~(keep + k < n)
    BY <1>2, <1>3
  <2> HIDE DEF k
  <2>2. /\ Talk(g) /\ Len(g.msgs) = n - k
        /\ \A i \in 1..Len(g.msgs) : Said(g, i) = Said(h, Src(i, keep, k))
    BY <1>0, <1>3, <2>1, CutTalk DEF n
  <2> QED BY <2>1, <2>2 DEF k
<1>7. \A i \in 1..keep : Said(g, i) = Said(h, i) /\ i \in 1..n
  BY <1>3, <1>6 DEF Src
<1>8. \A i \in (keep + 1)..n : Said(h, i).turn = t
  <2>1. ASSUME NEW i \in (keep + 1)..n PROVE i \in 1..n
    BY <1>3
  <2> QED BY <1>0, <1>2, <2>1 DEF Talk, n
<1>9. keep > 0 => keep \in 1..n /\ keep \in 1..(n - 1) /\ Said(h, keep).turn # t
                  /\ keep + 1 \in (keep + 1)..n /\ keep \in 1..keep
  <2>1. SUFFICES ASSUME keep > 0
                 PROVE  keep \in 1..n /\ keep \in 1..(n - 1) /\ Said(h, keep).turn # t
                        /\ keep + 1 \in (keep + 1)..n /\ keep \in 1..keep
    OBVIOUS
  <2>2. keep \in 1..n /\ keep \in 1..(n - 1) /\ keep + 1 \in (keep + 1)..n /\ keep \in 1..keep
    BY <1>3, <2>1, <1>2, <1>0, SMTT(30)
  <2> QED BY <1>0, <1>2, <2>1, <2>2 DEF Talk, n
<1>10. ASSUME NEW i \in 1..keep PROVE Said(h, i).turn # t
  <2>1. keep > 0 /\ i <= keep /\ i \in 1..n /\ keep \in 1..n
    BY <1>3, <1>7, <1>9
  <2>2. Said(h, i).turn <= Said(h, keep).turn
    BY <1>0, <2>1 DEF Talk, n
  <2>3. Said(h, keep).turn # t /\ Said(h, keep).turn <= t
    BY <1>5, <1>9, <2>1
  <2> DEFINE x == Said(h, i).turn
             y == Said(h, keep).turn
  <2>4. x \in Nat /\ y \in Nat /\ x <= y /\ y # t /\ y <= t
    BY <1>5, <2>1, <2>2, <2>3
  <2> HIDE DEF x, y
  <2>5. x # t
    BY <2>4
  <2> QED BY <2>5 DEF x
<1>11. keep > 0 => Said(g, keep).kind = "fin"
  <2>1. SUFFICES ASSUME keep > 0 PROVE Said(g, keep).kind = "fin"
    OBVIOUS
  <2>2. Follows(Said(h, keep), Said(h, keep + 1))
    BY <1>0, <1>9, <2>1 DEF Talk, n
  <2>3. Said(h, keep + 1).turn = t /\ Said(h, keep).turn # t
    BY <1>8, <1>9, <2>1
  <2>4. Said(h, keep) \in Contents
    BY <1>0, <1>9, <2>1, SaidContent DEF n
  <2>5. Said(h, keep).kind = "fin"
    BY <2>2, <2>3, <2>4 DEF Follows, Contents
  <2> QED BY <1>7, <1>9, <2>1, <2>5
<1>12. \A i \in 1..keep : Said(g, i).turn <= t
  BY <1>5, <1>7
<1>13. Rest(g, t)
  BY <1>4, <1>6, <1>11, <1>12 DEF Rest
<1> QED BY <1>6, <1>7, <1>8, <1>10, <1>13 DEF g, n

(* A rollback outside the turn finds nothing of its epoch.                 *)
LEMMA RestRollback ==
  ASSUME NEW t \in Nat, NEW h, Rest(h, t)
  PROVE  Rollback(h, t + 1) = h
<1>0. Sound(h) /\ Talk(h) /\ Len(h.msgs) \in Nat
  BY SoundEntry DEF Rest, Fit
<1> DEFINE n == Len(h.msgs)
<1>1. SUFFICES ASSUME NEW keep \in 0..(n - 1),
                      \A j \in (keep + 1)..n : h.msgs[j].epoch = t + 1
               PROVE  FALSE
  BY <1>0, RollbackCut
<1>2. n \in (keep + 1)..n /\ n \in 1..n
  BY <1>0
<1>3. h.msgs[n].epoch = t + 1 /\ h.msgs[n].epoch = Said(h, n).turn /\ Said(h, n).turn <= t
  BY <1>0, <1>1, <1>2 DEF Rest, Talk
<1> QED BY <1>3

(* Whole exchanges stay whole exchanges when a later turn has started.     *)
LEMMA RestLater ==
  ASSUME NEW t \in Nat, NEW h, Rest(h, t)
  PROVE  Rest(h, t + 1)
<1>0. Sound(h)
  BY DEF Rest, Fit
<1>1. ASSUME NEW i \in 1..Len(h.msgs) PROVE Said(h, i).turn <= t + 1
  <2>1. Said(h, i).turn <= t /\ Said(h, i).turn \in 1..MAXTURNS
    BY <1>0, SaidContent DEF Rest
  <2> DEFINE x == Said(h, i).turn
  <2>2. x <= t /\ x \in Nat
    BY <2>1, Constants
  <2> HIDE DEF x
  <2>3. x <= t + 1
    BY <2>2
  <2> QED BY <2>3 DEF x
<1> QED BY <1>1 DEF Rest

(* The sentence of a new turn is remembered behind whole exchanges.        *)
LEMMA RestCommit ==
  ASSUME NEW t \in Nat, NEW h, Rest(h, t), t + 1 < EPOCHS, NEW len \in SIZES,
         NEW need \in Nat, HasRoom(h, need), len <= need,
         NEW content \in Contents, content.kind = "say", content.turn = t + 1
  PROVE  Live(Commit(h, t + 1, USER, content, len), t + 1, Asking(t + 1))
<1> DEFINE n == Len(h.msgs)
           g == Commit(h, t + 1, USER, content, len)
<1>0. Sound(h) /\ Fit(h) /\ Talk(h) /\ n \in Nat /\ Used(h) \in Nat /\ len \in Nat
  BY SoundEntry, Constants DEF Rest, Fit
<1>1. t + 1 \in 0..(EPOCHS - 1) /\ Used(h) + len <= HISTORY_BYTES
  BY <1>0, Constants DEF HasRoom
<1>2. USER = IF content.kind \in {"say", "res"} THEN USER ELSE ASSISTANT
  OBVIOUS
<1>3. Fit(g)
  BY <1>0, <1>1, <1>2, CommitFit
<1>4. ASSUME NEW i \in 1..n PROVE Said(h, i).turn <= t + 1
  BY RestLater DEF Rest
<1>5. ASSUME n > 0 PROVE Follows(Said(h, n), content)
  <2>1. n \in 1..n
    BY <1>0, <1>5
  <2>2. Said(h, n).kind = "fin" /\ Said(h, n).turn <= t /\ Said(h, n).turn \in 1..MAXTURNS
    BY <1>0, <1>5, <2>1, SaidContent DEF Rest
  <2> DEFINE x == Said(h, n).turn
  <2>3. x <= t /\ x \in Nat
    BY <2>2, Constants
  <2> HIDE DEF x
  <2>4. x < t + 1
    BY <2>3
  <2> QED BY <2>2, <2>4 DEF Follows, x
<1>6. /\ Talk(g) /\ Len(g.msgs) = n + 1 /\ Said(g, Len(g.msgs)) = content
  <2> DEFINE ep == t + 1
  <2>1. ep \in 0..(EPOCHS - 1) /\ content.turn = ep /\ \A i \in 1..n : Said(h, i).turn <= ep
    BY <1>1, <1>4
  <2> HIDE DEF ep
  <2>2. LET q == Commit(h, ep, USER, content, len)
        IN Talk(q) /\ Len(q.msgs) = n + 1 /\ Said(q, Len(q.msgs)) = content
    BY <1>0, <1>1, <1>2, <1>5, <2>1, CommitTalk, SMTT(30)
  <2> QED BY <2>2 DEF ep
<1>7. content \in Asking(t + 1)
  BY DEF Asking
<1> HIDE DEF g
<1>8. Live(g, t + 1, Asking(t + 1))
  BY <1>0, <1>3, <1>6, <1>7 DEF Live
<1> QED BY <1>8 DEF g

(* A message of the turn in flight is remembered behind the last one.      *)
LEMMA LiveCommit ==
  ASSUME NEW t \in Nat, NEW K, NEW h, Live(h, t, K), t < EPOCHS, NEW len \in SIZES,
         HasRoom(h, len), NEW content \in Contents, content.turn = t, NEW role,
         role = IF content.kind \in {"say", "res"} THEN USER ELSE ASSISTANT,
         Follows(Said(h, Len(h.msgs)), content)
  PROVE  /\ Live(Commit(h, t, role, content, len), t, {content})
         /\ content.kind = "fin" => Rest(Commit(h, t, role, content, len), t)
<1> DEFINE n == Len(h.msgs)
           g == Commit(h, t, role, content, len)
<1>0. /\ Sound(h) /\ Fit(h) /\ Talk(h) /\ n \in Nat /\ n > 0
      /\ Used(h) \in Nat /\ len \in Nat /\ len <= len
  BY SoundEntry, Constants DEF Live, Fit
<1>1. t \in 0..(EPOCHS - 1) /\ Used(h) + len <= HISTORY_BYTES
  BY <1>0, Constants DEF HasRoom
<1>2. Fit(g)
  BY <1>0, <1>1, CommitFit
<1>3. \A i \in 1..n : Said(h, i).turn <= t
  BY LiveTurns
<1>4. /\ Talk(g) /\ Len(g.msgs) = n + 1 /\ Said(g, Len(g.msgs)) = content
      /\ \A i \in 1..n : Said(g, i) = Said(h, i)
  BY <1>0, <1>1, <1>3, CommitTalk
<1> HIDE DEF g, n
<1>5. Live(g, t, {content})
  BY <1>0, <1>2, <1>4 DEF Live
<1>6. ASSUME content.kind = "fin" PROVE Rest(g, t)
  BY <1>2, <1>4, <1>5, <1>6, LiveTurns DEF Rest
<1> QED BY <1>5, <1>6 DEF g

-----------------------------------------------------------------------------
(* A turn and its conversation.                                            *)

Flight ==
  /\ epoch = turn
  /\ pc = "out" => Rest(hist, turn) /\ in_turn = FALSE
  /\ pc \in {"round", "sent"} => Live(hist, turn, Asking(turn))
  /\ pc = "run" => Live(hist, turn, {Content("use", rounds, reply.n)})

(* During a turn the counters fit the epoch.                               *)
LEMMA TurnFits ==
  ASSUME ChatState, MAXTURNS < EPOCHS
  PROVE  turn \in Nat /\ turn < EPOCHS
BY Constants DEF ChatState

(* chat_ask, up to the loop.                                               *)
LEMMA AskFlight ==
  ASSUME MAXTURNS < EPOCHS, ChatState, Flight, NEW len \in SIZES, Ask(len)
  PROVE  Flight'
<1> DEFINE ep == (epoch + 1) % EPOCHS
           h == Reserve(hist, ep, len + 1)
           said == [kind |-> "say", turn |-> turn + 1, round |-> 0, n |-> 0]
<1>1. /\ pc = "out" /\ turn < MAXTURNS /\ turn' = turn + 1 /\ epoch' = ep
  BY DEF Ask
<1>2. turn \in Nat /\ turn + 1 < EPOCHS /\ ep = turn + 1 /\ turn + 1 \in 1..MAXTURNS
      /\ len \in Nat /\ len + 1 \in Nat /\ len <= len + 1
  <2>1. turn \in Nat /\ len \in Nat
    BY Constants DEF ChatState
  <2>2. turn + 1 < EPOCHS /\ turn + 1 \in 1..MAXTURNS
    BY <1>1, <2>1, Constants
  <2>3. (turn + 1) % EPOCHS = turn + 1
    BY <2>1, <2>2, Constants
  <2> QED BY <2>1, <2>2, <2>3 DEF Flight
<1>3. Rest(hist, turn)
  BY <1>1 DEF Flight
<1>4. Rest(h, turn)
  BY <1>2, <1>3, RestReserve
<1>5. said \in Contents /\ said.kind = "say" /\ said.turn = turn + 1
  BY <1>2, Constants DEF Contents
<1>6. CASE End("ETRANSPORT") /\ UNCHANGED hist
  <2>1. Rest(hist, turn + 1)
    BY <1>2, <1>3, RestLater
  <2> QED BY <1>1, <1>2, <1>6, <2>1 DEF Flight, End
<1>7. CASE Abort(h, ep, "EHISTORY")
  <2>1. Rollback(h, turn + 1) = h
    BY <1>2, <1>4, RestRollback
  <2>2. Rest(h, turn + 1)
    BY <1>2, <1>4, RestLater
  <2>3. hist' = h /\ pc' = "out" /\ in_turn' = FALSE
    BY <1>2, <1>7, <2>1 DEF Abort, End
  <2> HIDE DEF h
  <2>4. Rest(hist', turn')
    BY <1>1, <2>2, <2>3
  <2> QED BY <1>1, <1>2, <2>3, <2>4 DEF Flight
<1>8. CASE /\ HasRoom(h, len + 1) /\ pc' = "round"
           /\ hist' = Commit(h, ep, USER, said, len)
  <2> HIDE DEF h, said
  <2>1. Live(Commit(h, turn + 1, USER, said, len), turn + 1, Asking(turn + 1))
    BY <1>2, <1>4, <1>5, <1>8, RestCommit
  <2>2. hist' = Commit(h, turn + 1, USER, said, len)
    BY <1>2, <1>8
  <2>3. Live(hist', turn', Asking(turn'))
    BY <1>1, <2>1, <2>2
  <2> QED BY <1>1, <1>2, <1>8, <2>3 DEF Flight
<1> QED BY <1>6, <1>7, <1>8 DEF Ask

(* A turn that fails is undone: whole exchanges are left.                  *)
LEMMA AbortFlight ==
  ASSUME MAXTURNS < EPOCHS, ChatState, NEW K, NEW h, Live(h, turn, K), NEW code,
         Abort(h, epoch, code), epoch = turn, UNCHANGED <<epoch, turn>>
  PROVE  Flight'
<1>1. turn \in Nat
  BY TurnFits
<1>2. Rest(Rollback(h, turn), turn)
  BY <1>1, LiveRollback
<1>3. hist' = Rollback(h, turn) /\ pc' = "out" /\ in_turn' = FALSE
  BY DEF Abort, End
<1>4. Rest(hist', turn')
  BY <1>2, <1>3
<1> QED BY <1>3, <1>4 DEF Flight

(* The round cap, a request that fails or is retried, a reply that cannot  *)
(* be used, and a refused chat_ask.                                        *)
LEMMA FailureFlight ==
  ASSUME MAXTURNS < EPOCHS, ChatState, Flight,
         \/ AskRefused
         \/ StopAtCap
         \/ \E b \in BOOLEAN : SendFails(b)
         \/ \E b, s \in BOOLEAN : HttpError(b, s)
         \/ \E c \in {"EPROTO", "ENOSPC"} : BadReply(c)
  PROVE  Flight'
<1>1. CASE AskRefused
  BY <1>1 DEF AskRefused, Flight, Content
<1>2. CASE /\ pc \in {"round", "sent"} /\ UNCHANGED <<epoch, turn>>
           /\ \E code : Abort(hist, epoch, code)
  <2>1. Live(hist, turn, Asking(turn)) /\ epoch = turn
    BY <1>2 DEF Flight
  <2> QED BY <1>2, <2>1, AbortFlight
<1>3. CASE pc = "sent" /\ pc' = "round" /\ UNCHANGED <<hist, epoch, turn>>
  BY <1>3 DEF Flight
<1>4. CASE StopAtCap
  <2>1. /\ pc \in {"round", "sent"} /\ UNCHANGED <<epoch, turn>>
        /\ Abort(hist, epoch, "ELIMIT")
    BY <1>4 DEF StopAtCap
  <2> QED BY <1>2, <2>1
<1>5. ASSUME NEW b \in BOOLEAN, SendFails(b) PROVE Flight'
  <2>1. /\ pc = "sent" /\ UNCHANGED <<epoch, turn>>
        /\ \/ pc' = "round" /\ UNCHANGED hist
           \/ Abort(hist, epoch, "ETRANSPORT")
    BY <1>5 DEF SendFails
  <2> QED BY <1>2, <1>3, <2>1
<1>6. ASSUME NEW b \in BOOLEAN, NEW s \in BOOLEAN, HttpError(b, s) PROVE Flight'
  <2>1. /\ pc = "sent" /\ UNCHANGED <<epoch, turn>>
        /\ \/ pc' = "round" /\ UNCHANGED hist
           \/ Abort(hist, epoch, "EHTTP")
    BY <1>6 DEF HttpError
  <2> QED BY <1>2, <1>3, <2>1
<1>7. ASSUME NEW c, BadReply(c) PROVE Flight'
  <2>1. pc = "sent" /\ UNCHANGED <<epoch, turn>> /\ Abort(hist, epoch, c)
    BY <1>7 DEF BadReply
  <2> QED BY <1>2, <2>1
<1> QED BY <1>1, <1>4, <1>5, <1>6, <1>7

(* build_request.                                                          *)
LEMMA BuildFlight ==
  ASSUME MAXTURNS < EPOCHS, ChatState, Flight, NEW room \in REQ_ROOMS, BuildRequest(room)
  PROVE  Flight'
<1> DEFINE h == Trim(hist, epoch, room)
<1>1. /\ pc = "round" /\ UNCHANGED <<epoch, turn>> /\ epoch = turn
      /\ Live(hist, turn, Asking(turn))
  BY DEF BuildRequest, Flight
<1>2. Live(h, turn, Asking(turn))
  <2>1. turn \in Nat
    BY TurnFits
  <2> QED BY <1>1, <2>1, LiveTrim
<1> HIDE DEF h
<1>3. CASE hist' = h /\ pc' = "sent"
  BY <1>1, <1>2, <1>3 DEF Flight
<1>4. ASSUME NEW c, Abort(h, epoch, c) PROVE Flight'
  BY <1>1, <1>2, <1>4, AbortFlight
<1> QED BY <1>3, <1>4 DEF BuildRequest, h

(* A reply with tool calls follows the sentence or the results before it.  *)
LEMMA ToolReplyFlight ==
  ASSUME MAXTURNS < EPOCHS, ChatState, Flight, NEW n \in ASKS, NEW len \in SIZES,
         NEW cut \in BOOLEAN, NEW prose \in BOOLEAN, ToolReply(n, len, cut, prose)
  PROVE  Flight'
<1> DEFINE h == Reserve(hist, epoch, len)
           said == Content("use", rounds + 1, n)
<1>1. /\ pc = "sent" /\ rounds' = rounds + 1 /\ UNCHANGED <<epoch, turn>>
      /\ epoch = turn /\ Live(hist, turn, Asking(turn))
  BY DEF ToolReply, Flight
<1>2. turn \in Nat /\ turn < EPOCHS
  BY TurnFits
<1>3. Live(h, turn, Asking(turn))
  <2>1. Closed(turn, Asking(turn))
    BY DEF Closed
  <2> QED BY <1>1, <1>2, <2>1, LiveReserve
<1>4. said \in Contents /\ said.kind = "use" /\ said.turn = turn
  <2>1. rounds + 1 \in 0..MAX_ROUNDS /\ n \in {0} \cup ASKS /\ pc # "out"
    BY <1>1, Constants DEF ChatState
  <2> QED BY <2>1, ContentOK
<1>5. ASSISTANT = IF said.kind \in {"say", "res"} THEN USER ELSE ASSISTANT
  BY <1>4
<1> HIDE DEF h, said
<1>6. Follows(Said(h, Len(h.msgs)), said)
  BY <1>3, <1>4 DEF Live, Asking, Follows
<1>7. CASE Abort(h, epoch, "EHISTORY")
  BY <1>1, <1>3, <1>7, AbortFlight
<1>8. CASE /\ HasRoom(h, len) /\ hist' = Commit(h, epoch, ASSISTANT, said, len)
           /\ pc' = "run" /\ reply' = [n |-> n, cut |-> cut, done |-> 0]
  <2>1. Live(Commit(h, turn, ASSISTANT, said, len), turn, {said})
    BY <1>2, <1>3, <1>4, <1>5, <1>6, <1>8, LiveCommit
  <2>2. Content("use", rounds, reply.n)' = said
    BY <1>1, <1>8 DEF said, Content
  <2>3. Live(hist', turn', {Content("use", rounds, reply.n)'})
    BY <1>1, <1>8, <2>1, <2>2
  <2> QED BY <1>1, <1>8, <2>3 DEF Flight
<1> QED BY <1>7, <1>8 DEF ToolReply, h, said

(* The final reply ends the turn: it is remembered behind what it answers, *)
(* or the turn is undone.                                                  *)
LEMMA FinalReplyFlight ==
  ASSUME MAXTURNS < EPOCHS, ChatState, Flight, NEW len \in SIZES,
         NEW prose \in BOOLEAN, FinalReply(len, prose)
  PROVE  Flight'
<1> DEFINE h == Reserve(hist, epoch, len)
           said == Content("fin", rounds + 1, 0)
<1>1. /\ pc = "sent" /\ pc' = "out" /\ in_turn' = FALSE /\ UNCHANGED <<epoch, turn>>
      /\ epoch = turn /\ Live(hist, turn, Asking(turn))
      /\ hist' = IF HasRoom(h, len) THEN Commit(h, epoch, ASSISTANT, said, len)
                 ELSE Rollback(h, epoch)
  BY DEF FinalReply, Flight, End
<1>2. turn \in Nat /\ turn < EPOCHS
  BY TurnFits
<1>3. Live(h, turn, Asking(turn))
  <2>1. Closed(turn, Asking(turn))
    BY DEF Closed
  <2> QED BY <1>1, <1>2, <2>1, LiveReserve
<1>4. said \in Contents /\ said.kind = "fin" /\ said.turn = turn
  <2>1. rounds + 1 \in 0..MAX_ROUNDS /\ 0 \in {0} \cup ASKS /\ pc # "out"
    BY <1>1, Constants DEF ChatState
  <2> QED BY <2>1, ContentOK
<1>5. ASSISTANT = IF said.kind \in {"say", "res"} THEN USER ELSE ASSISTANT
  BY <1>4
<1> HIDE DEF h, said
<1>6. Follows(Said(h, Len(h.msgs)), said)
  BY <1>3, <1>4 DEF Live, Asking, Follows
<1>7. Rest(hist', turn)
  <2>1. CASE HasRoom(h, len)
    <3>1. Rest(Commit(h, turn, ASSISTANT, said, len), turn)
      BY <1>2, <1>3, <1>4, <1>5, <1>6, <2>1, LiveCommit
    <3> QED BY <1>1, <2>1, <3>1
  <2>2. CASE ~HasRoom(h, len)
    <3>1. Rest(Rollback(h, turn), turn)
      BY <1>2, <1>3, LiveRollback
    <3> QED BY <1>1, <2>2, <3>1
  <2> QED BY <2>1, <2>2
<1> QED BY <1>1, <1>7 DEF Flight

(* The results of the tools follow the tool_use turn they answer.          *)
LEMMA ResultsFlight ==
  ASSUME MAXTURNS < EPOCHS, ChatState, Flight, NEW len \in SIZES, RecordResults(len)
  PROVE  Flight'
<1> DEFINE h == Reserve(hist, epoch, len)
           d == reply.done
           use == Content("use", rounds, d)
           said == Content("res", rounds, d)
<1>1. /\ pc = "run" /\ d = reply.n /\ UNCHANGED <<epoch, turn>>
      /\ epoch = turn /\ Live(hist, turn, {use})
  BY DEF RecordResults, Flight
<1>2. turn \in Nat /\ turn < EPOCHS
  BY TurnFits
<1>3. d \in {0} \cup ASKS /\ rounds \in 0..MAX_ROUNDS /\ pc # "out"
  BY <1>1 DEF ChatState, Replies
<1> HIDE DEF d
<1>4. /\ said \in Contents /\ said.kind = "res" /\ said.turn = turn
      /\ use.kind = "use" /\ said = [use EXCEPT !.kind = "res"]
  <2>1. said \in Contents /\ said.kind = "res" /\ said.turn = turn
    BY <1>3, ContentOK
  <2>2. use.kind = "use" /\ said = [use EXCEPT !.kind = "res"]
    BY DEF Content
  <2> QED BY <2>1, <2>2
<1>5. USER = IF said.kind \in {"say", "res"} THEN USER ELSE ASSISTANT
  BY <1>4
<1> HIDE DEF use, said
<1>6. Live(h, turn, {use})
  <2>1. Closed(turn, {use})
    BY <1>4 DEF Closed
  <2> QED BY <1>1, <1>2, <2>1, LiveReserve
<1> HIDE DEF h
<1>7. Follows(Said(h, Len(h.msgs)), said)
  BY <1>4, <1>6 DEF Live, Follows
<1>8. CASE Abort(h, epoch, "EHISTORY") \/ Abort(hist, epoch, "ENOSPC")
  BY <1>1, <1>6, <1>8, AbortFlight
<1>9. CASE /\ HasRoom(h, len) /\ hist' = Commit(h, epoch, USER, said, len)
           /\ pc' = "round"
  <2>1. Live(Commit(h, turn, USER, said, len), turn, {said})
    BY <1>2, <1>4, <1>5, <1>6, <1>7, <1>9, LiveCommit
  <2>2. said \in Asking(turn)
    BY <1>4 DEF Asking
  <2>3. Live(hist', turn', Asking(turn'))
    BY <1>1, <1>9, <2>1, <2>2 DEF Live
  <2> QED BY <1>1, <1>9, <2>3 DEF Flight
<1> QED BY <1>8, <1>9 DEF RecordResults, h, said, d

(* Answering a tool_use block leaves the history alone.                    *)
LEMMA AnsweredFlight ==
  ASSUME ChatState, Flight, RefuseTool \/ CutTool \/ DispatchTool
  PROVE  Flight'
<1>1. /\ pc = "run" /\ reply' = Answered
      /\ UNCHANGED <<hist, epoch, in_turn, rounds, pc, turn>>
  BY DEF RefuseTool, CutTool, DispatchTool, turnVars
<1>2. reply'.n = reply.n
  BY <1>1 DEF Answered, ChatState, Replies
<1>3. Content("use", rounds, reply.n)' = Content("use", rounds, reply.n)
  BY <1>1, <1>2 DEF Content
<1> QED BY <1>1, <1>3 DEF Flight

(* A conversation that does not end on a tool_use is one the API accepts.  *)
LEMMA TalkAcceptable ==
  ASSUME NEW h, Sound(h), Talk(h),
         Len(h.msgs) > 0 => Said(h, Len(h.msgs)).kind # "use"
  PROVE  /\ Acceptable(h)
         /\ \A i \in 1..(Len(h.msgs) - 1) :
              Said(h, i + 1).kind = "say" => Said(h, i).kind = "fin"
<1>0. Len(h.msgs) \in Nat
  BY SoundEntry
<1>1. ASSUME NEW i \in 1..(Len(h.msgs) - 1)
      PROVE  /\ h.msgs[i].role # h.msgs[i + 1].role
             /\ Said(h, i).kind = "use" \/ Said(h, i + 1).kind = "res" =>
                  Said(h, i + 1) = [Said(h, i) EXCEPT !.kind = "res"]
             /\ Said(h, i + 1).kind = "say" => Said(h, i).kind = "fin"
  <2> DEFINE a == Said(h, i)
             b == Said(h, i + 1)
  <2>1. i \in 1..Len(h.msgs) /\ i + 1 \in 1..Len(h.msgs)
    BY <1>0
  <2>2. /\ a \in Contents /\ b \in Contents /\ Follows(a, b)
        /\ h.msgs[i].role = IF a.kind \in {"say", "res"} THEN USER ELSE ASSISTANT
        /\ h.msgs[i + 1].role = IF b.kind \in {"say", "res"} THEN USER ELSE ASSISTANT
    BY <2>1, SaidContent DEF Talk
  <2> HIDE DEF a, b
  <2>3. a.kind \in {"say", "use", "res", "fin"} /\ [a EXCEPT !.kind = "res"].kind = "res"
    BY <2>2 DEF Contents
  <2>4. /\ (a.kind \in {"say", "res"}) # (b.kind \in {"say", "res"})
        /\ a.kind = "use" \/ b.kind = "res" => b = [a EXCEPT !.kind = "res"]
        /\ b.kind = "say" => a.kind = "fin"
    <3>1. CASE a.kind \in {"say", "res"} /\ b.kind \in {"use", "fin"}
      BY <3>1
    <3>2. CASE a.kind = "use" /\ b = [a EXCEPT !.kind = "res"]
      BY <2>3, <3>2
    <3>3. CASE a.kind = "fin" /\ b.kind = "say"
      BY <3>3
    <3> QED BY <2>2, <3>1, <3>2, <3>3 DEF Follows
  <2>5. h.msgs[i].role # h.msgs[i + 1].role
    BY <2>2, <2>4 DEF USER, ASSISTANT
  <2> QED BY <2>4, <2>5 DEF a, b
<1>2. Len(h.msgs) > 0 => Said(h, 1).kind = "say"
  BY DEF Talk
<1> QED BY <1>1, <1>2 DEF Acceptable

(* Every byte of the arena belongs to the entry that delimits it, so the   *)
(* turns the history remembers are the turns of its entries.               *)
LEMMA TurnsOfEntries ==
  ASSUME NEW h, Sound(h)
  PROVE  TurnsIn(h) = {Said(h, i).turn : i \in 1..Len(h.msgs)}
<1> DEFINE n == Len(h.msgs)
           E(i) == EndOf(h, i)
<1>0. /\ n \in Nat /\ Used(h) \in Nat /\ DOMAIN h.arena = 1..Used(h)
      /\ E(0) = 0 /\ E(n) = Used(h)
      /\ \A i \in 1..n : /\ h.msgs[i].off = E(i - 1)
                         /\ \A b \in (h.msgs[i].off + 1)..E(i) : h.arena[b] = Said(h, i)
  BY SoundEntry
<1>1. \A i, j \in 0..n : E(i) \in 0..Used(h) /\ (i < j => E(i) < E(j))
  BY EndsAscend
<1> HIDE DEF E, n
<1>2. ASSUME NEW b \in 1..Used(h)
      PROVE  \E i \in 1..n : h.arena[b] = Said(h, i)
  <2> DEFINE T == {i \in 1..n : b <= E(i)}
  <2>1. n # 0
    BY <1>0
  <2>2. n \in T
    BY <1>0, <2>1
  <2>3. PICK i \in T : \A j \in T : i <= j
    <3>1. T \subseteq Nat
      BY <1>0
    <3>2. T # {}
      BY <2>2
    <3> HIDE DEF T
    <3>3. T \in SUBSET Nat
      BY <3>1
    <3> QED BY <3>2, <3>3, LeastElement
  <2>4. i \in 1..n /\ b <= E(i) /\ i - 1 \in 0..n /\ i \in 0..n
    BY <1>0
  <2>5. E(i - 1) < b /\ E(i - 1) \in Nat /\ E(i) \in Nat
    <3>0. E(i - 1) \in Nat /\ E(i) \in Nat
      BY <1>0, <1>1, <2>4
    <3>1. CASE i = 1
      BY <1>0, <3>0, <3>1
    <3>2. CASE i # 1
      <4>1. i - 1 \in 1..n /\ ~(i <= i - 1)
        BY <1>0, <2>4, <3>2
      <4>2. i - 1 \notin T
        BY <2>3, <4>1
      <4> QED BY <3>0, <4>1, <4>2
    <3> QED BY <3>1, <3>2
  <2>6. h.msgs[i].off = E(i - 1)
    BY <1>0, <2>4
  <2>7. b \in (h.msgs[i].off + 1)..E(i)
    BY <2>4, <2>5, <2>6
  <2> QED BY <1>0, <2>4, <2>7
<1>3. ASSUME NEW i \in 1..n
      PROVE  \E b \in 1..Used(h) : h.arena[b] = Said(h, i)
  <2>1. i - 1 \in 0..n /\ i \in 0..n /\ i - 1 < i
    BY <1>0
  <2>2. E(i - 1) < E(i) /\ E(i - 1) \in 0..Used(h) /\ E(i) \in 0..Used(h)
    BY <1>1, <2>1
  <2>3. h.msgs[i].off = E(i - 1)
    BY <1>0
  <2>4. E(i - 1) + 1 \in 1..Used(h)
    BY <1>0, <2>2
  <2>5. Said(h, i) = h.arena[E(i - 1) + 1]
    BY <2>3 DEF Said
  <2> QED BY <2>4, <2>5
<1>4. TurnsIn(h) = {h.arena[b].turn : b \in 1..Used(h)}
  BY <1>0 DEF TurnsIn
<1>5. \A x : x \in TurnsIn(h) <=> x \in {Said(h, i).turn : i \in 1..n}
  BY <1>2, <1>3, <1>4
<1> QED BY <1>5 DEF n

(* Rolling the turn in flight back takes its messages and nothing else.    *)
LEMMA RollbackTurns ==
  ASSUME NEW t \in Nat, NEW K, NEW h, Live(h, t, K)
  PROVE  TurnsIn(Rollback(h, t)) = TurnsIn(h) \ {t}
<1> DEFINE n == Len(h.msgs)
           g == Rollback(h, t)
<1>1. PICK keep \in 0..(n - 1) :
        /\ Len(g.msgs) = keep
        /\ \A i \in 1..keep : Said(g, i) = Said(h, i) /\ Said(h, i).turn # t
        /\ \A i \in (keep + 1)..n : Said(h, i).turn = t
  BY LiveRollback
<1>2. Sound(h) /\ Sound(g) /\ n \in Nat
  <2>1. Rest(g, t)
    BY LiveRollback
  <2> QED BY <2>1, SoundEntry DEF Live, Rest, Fit
<1>3. /\ TurnsIn(h) = {Said(h, i).turn : i \in 1..n}
      /\ TurnsIn(g) = {Said(g, i).turn : i \in 1..keep}
  BY <1>1, <1>2, TurnsOfEntries
<1>4. \A i \in 1..n : i \in 1..keep \/ i \in (keep + 1)..n
  BY <1>2
<1>5. \A i \in 1..keep : i \in 1..n
  BY <1>2
<1> HIDE DEF g, n
<1>6. \A x : x \in TurnsIn(g) <=> x \in TurnsIn(h) \ {t}
  BY <1>1, <1>3, <1>4, <1>5
<1>7. TurnsIn(g) = TurnsIn(h) \ {t}
  BY <1>6
<1> QED BY <1>7 DEF g

-----------------------------------------------------------------------------
(* The journal.                                                            *)

Calls == [seq : Nat, turn : Nat, did : {"cut", "ran"}]

Journal ==
  /\ log \in Seq(Calls) /\ journal_total = Len(log)
  /\ DOMAIN journal = 0..(JOURNAL_ENTRIES - 1)
  /\ \A i \in 1..Len(log) : i > Len(log) - JOURNAL_ENTRIES =>
       journal[(i - 1) % JOURNAL_ENTRIES] = log[i]

(* journal_note writes the next slot and disturbs none of the latest.      *)
LEMMA RecordJournal ==
  ASSUME ChatState, Journal, NEW did \in {"cut", "ran"}, Record(did)
  PROVE  Journal'
<1> DEFINE e == [seq |-> journal_total + 1, turn |-> epoch, did |-> did]
           n == Len(log)
           R == JOURNAL_ENTRIES
           s == n % R
<1>1. n \in Nat /\ R \in Nat \ {0} /\ journal_total = n /\ log \in Seq(Calls)
  BY Constants, LenProperties DEF Journal
<1>2. e \in Calls
  BY <1>1, Constants DEF Calls, ChatState
<1>3. /\ journal_total' = n + 1 /\ log' = Append(log, e)
      /\ journal' = [journal EXCEPT ![s] = e]
  BY <1>1 DEF Record
<1> HIDE DEF e
<1>4. /\ log' \in Seq(Calls) /\ Len(log') = n + 1 /\ log'[n + 1] = e
      /\ \A i \in 1..n : log'[i] = log[i]
  BY <1>1, <1>2, <1>3, AppendProperties
<1>5. s \in 0..(R - 1)
  BY <1>1, SlotInRing
<1> HIDE DEF s
<1>6. DOMAIN journal' = 0..(R - 1) /\ journal'[s] = e
      /\ \A j \in 0..(R - 1) : j # s => journal'[j] = journal[j]
  BY <1>3, <1>5 DEF Journal
<1>7. \A i \in 1..(n + 1) : i > (n + 1) - R => journal'[(i - 1) % R] = log'[i]
  <2> TAKE i \in 1..(n + 1)
  <2>0. HAVE i > (n + 1) - R
  <2>1. CASE i = n + 1
    <3>1. i - 1 = n
      BY <1>1, <2>1
    <3> QED BY <1>4, <1>6, <2>1, <3>1 DEF s
  <2>2. CASE i # n + 1
    <3>1. i \in 1..n /\ i > n - R /\ i - 1 \in Nat /\ i - 1 < n /\ n < (i - 1) + R
      BY <1>1, <2>0, <2>2
    <3>2. journal[(i - 1) % R] = log[i]
      BY <3>1 DEF Journal
    <3>3. (i - 1) % R # s
      BY <1>1, <3>1, SlotsDistinct DEF s
    <3>4. (i - 1) % R \in 0..(R - 1)
      BY <1>1, <3>1, SlotInRing
    <3> QED BY <1>4, <1>6, <3>1, <3>2, <3>3, <3>4
  <2> QED BY <2>1, <2>2
<1> HIDE DEF n, R
<1>8. \A i \in 1..Len(log') : i > Len(log') - R => journal'[(i - 1) % R] = log'[i]
  <2> DEFINE m == Len(log')
  <2>1. m = n + 1
    BY <1>4
  <2> HIDE DEF m
  <2>2. \A i \in 1..m : i > m - R => journal'[(i - 1) % R] = log'[i]
    BY <1>7, <2>1, Zenon
  <2> QED BY <2>2 DEF m
<1> QED BY <1>3, <1>4, <1>6, <1>8 DEF Journal, R

(* What chat_action_at reads back.                                         *)
LEMMA JournalReads ==
  ASSUME Journal
  PROVE  JournalKeepsLatest
<1> DEFINE n == Len(log)
           R == JOURNAL_ENTRIES
<1>1. n \in Nat /\ R \in Nat \ {0} /\ journal_total = n
  BY Constants, LenProperties DEF Journal
<1>2. ASSUME NEW i \in 0..(ActionCount - 1)
      PROVE  ActionAt(i) = log[n - ActionCount + 1 + i]
  <2>1. CASE n <= R
    <3>1. ActionCount = n
      BY <1>1, <2>1 DEF ActionCount
    <3>2. i \in 0..(n - 1) /\ n - n + 1 + i = i + 1 /\ 0 + i = i /\ (i + 1) - 1 = i
          /\ i + 1 \in 1..n /\ i + 1 > n - R
      BY <1>1, <1>2, <2>1, <3>1
    <3>3. ActionAt(i) = journal[i % R]
      BY <1>1, <2>1, <3>2 DEF ActionAt
    <3>4. journal[((i + 1) - 1) % R] = log[i + 1]
      BY <3>2 DEF Journal
    <3> QED BY <3>1, <3>2, <3>3, <3>4
  <2>2. CASE n > R
    <3>1. ActionCount = R
      BY <1>1, <2>2 DEF ActionCount
    <3>2. i \in Nat /\ i < R
      BY <1>1, <3>1
    <3> DEFINE k == n - R + i + 1
    <3>3. k \in 1..n /\ k > n - R /\ k - 1 = n - R + i /\ n - R + 1 + i = k
      BY <1>1, <2>2, <3>2
    <3>4. ActionAt(i) = journal[((n % R) + i) % R]
      <4>1. ~(journal_total <= R)
        BY <1>1, <2>2
      <4> QED BY <1>1, <4>1, Zenon DEF ActionAt
    <3>5. ((n % R) + i) % R = (n - R + i) % R
      <4>1. R <= n
        BY <1>1, <2>2
      <4> HIDE DEF n, R
      <4> QED BY <1>1, <3>2, <4>1, SlotFromOldest
    <3> HIDE DEF k
    <3>6. journal[(k - 1) % R] = log[k]
      BY <3>3 DEF Journal
    <3> QED BY <3>1, <3>3, <3>4, <3>5, <3>6
  <2> QED BY <1>1, <2>1, <2>2
<1> QED BY <1>1, <1>2 DEF JournalKeepsLatest

-----------------------------------------------------------------------------
(* The theorems about the turn loop.                                       *)

(* Every step of the loop keeps the history sound and within the fixed     *)
(* buffers of chat.c, the counters in their ranges and the journal ring in *)
(* step with the calls made.                                               *)
THEOREM StateInvariance == Spec => [](ChatState /\ Journal)
<1>1. ASSUME Init PROVE ChatState /\ Journal
  <2>1. ChatState
    BY <1>1, InitState
  <2>2. log = <<>> /\ journal_total = 0 /\ DOMAIN journal = 0..(JOURNAL_ENTRIES - 1)
    BY <1>1 DEF Init
  <2>3. log \in Seq(Calls) /\ Len(log) = 0
    BY <2>2, EmptySeq
  <2> QED BY <2>1, <2>2, <2>3 DEF Journal
<1>2. ASSUME ChatState, Journal, [Next]_chatVars PROVE ChatState' /\ Journal'
  <2>1. CASE UNCHANGED chatVars
    BY <1>2, <2>1 DEF chatVars, ChatState, Journal
  <2>2. CASE \E l \in SIZES : Ask(l)
    <3>1. ChatState'
      BY <1>2, <2>2, AskState
    <3>2. UNCHANGED <<journal, journal_total, log>>
      BY <2>2 DEF Ask
    <3> QED BY <1>2, <3>1, <3>2 DEF Journal
  <2>3. CASE Wire \/ Loop \/ DispatchTool \/ NestedAsk
    <3>1. ChatState'
      BY <1>2, <2>3, TurnState DEF NestedAsk
    <3>2. \/ UNCHANGED <<journal, journal_total, log>>
          \/ Record("cut") \/ Record("ran")
      <4>1. CASE Wire
        BY <4>1 DEF Wire, SendFails, HttpError, BadReply, ToolReply, FinalReply
      <4>2. CASE Loop
        BY <4>2 DEF Loop, StopAtCap, BuildRequest, RefuseTool, CutTool, RecordResults
      <4>3. CASE DispatchTool \/ NestedAsk
        BY <4>3 DEF DispatchTool, NestedAsk, AskRefused
      <4> QED BY <2>3, <4>1, <4>2, <4>3
    <3>3. Journal'
      <4>1. CASE UNCHANGED <<journal, journal_total, log>>
        BY <1>2, <4>1 DEF Journal
      <4>2. CASE Record("cut") \/ Record("ran")
        BY <1>2, <4>2, RecordJournal
      <4> QED BY <3>2, <4>1, <4>2
    <3> QED BY <3>1, <3>3
  <2> QED BY <1>2, <2>1, <2>2, <2>3 DEF Next
<1> QED BY <1>1, <1>2, PTL DEF Spec

(* The entries tile the arena after any number of evictions and rollbacks, *)
(* for every size of the buffers and of the messages.                      *)
THEOREM EntriesTileAlways == Spec => []EntriesTileTheArena
<1>1. ChatState => EntriesTileTheArena
  BY DEF ChatState, Fit, Sound, EntriesTileTheArena
<1> QED BY <1>1, StateInvariance, PTL

(* chat_action_at shows the last calls really made, oldest first, however  *)
(* often the ring has wrapped.                                             *)
THEOREM JournalKeepsLatestAlways == Spec => []JournalKeepsLatest
<1> QED BY JournalReads, StateInvariance, PTL

(* As long as the epoch has not wrapped, the history is a conversation of  *)
(* whole exchanges, with the one in flight last.                           *)
THEOREM ConversationInvariance ==
  ASSUME MAXTURNS < EPOCHS
  PROVE  Spec => [](ChatState /\ Flight)
<1>1. ASSUME Init PROVE Flight
  <2>1. hist = Empty /\ pc = "out" /\ in_turn = FALSE /\ epoch = 0 /\ turn = 0
    BY <1>1 DEF Init
  <2>2. Len(Empty.msgs) = 0
    BY EmptySeq DEF Empty
  <2>3. ~(0 > 0) /\ (\A i : i \notin 1..0) /\ (\A i : i \notin 1..(0 - 1))
    OBVIOUS
  <2>4. Rest(Empty, 0)
    BY <2>2, <2>3, EmptyFit DEF Rest, Talk
  <2> QED BY <2>1, <2>4 DEF Flight
<1>2. ASSUME ChatState, Flight, [Next]_chatVars PROVE Flight'
  <2>1. CASE UNCHANGED chatVars
    BY <1>2, <2>1 DEF chatVars, Flight, Content
  <2>2. CASE \E l \in SIZES : Ask(l)
    BY <1>2, <2>2, AskFlight
  <2>3. CASE Wire
    BY <1>2, <2>3, FailureFlight, ToolReplyFlight, FinalReplyFlight DEF Wire
  <2>4. CASE Loop
    BY <1>2, <2>4, FailureFlight, BuildFlight, AnsweredFlight, ResultsFlight DEF Loop
  <2>5. CASE DispatchTool
    BY <1>2, <2>5, AnsweredFlight
  <2>6. CASE NestedAsk
    BY <1>2, <2>6, FailureFlight DEF NestedAsk
  <2> QED BY <1>2, <2>1, <2>2, <2>3, <2>4, <2>5, <2>6 DEF Next
<1> QED BY <1>1, <1>2, StateInvariance, PTL DEF Spec

(* Every request is built from a conversation the API accepts and that     *)
(* ends on a user message, whatever hist_reserve and build_request evicted *)
(* to make room.                                                           *)
THEOREM RequestsAcceptable ==
  ASSUME MAXTURNS < EPOCHS
  PROVE  Spec => []EveryRequestAcceptable
<1>1. ASSUME ChatState, Flight PROVE EveryRequestAcceptable
  <2>1. SUFFICES ASSUME pc = "sent"
                 PROVE  Acceptable(hist) /\ hist.msgs[Len(hist.msgs)].role = USER
    BY DEF EveryRequestAcceptable
  <2>2. Live(hist, turn, Asking(turn))
    BY <1>1, <2>1 DEF Flight
  <2>3. Sound(hist) /\ Talk(hist) /\ Len(hist.msgs) \in Nat /\ Len(hist.msgs) > 0
        /\ Said(hist, Len(hist.msgs)).kind \in {"say", "res"}
    BY <2>2, SoundEntry DEF Live, Fit, Asking
  <2>4. Acceptable(hist)
    BY <2>3, TalkAcceptable
  <2>5. Len(hist.msgs) \in 1..Len(hist.msgs)
    BY <2>3
  <2> QED BY <2>3, <2>4, <2>5, SaidContent
<1> QED BY <1>1, ConversationInvariance, PTL

(* Between turns the history holds whole, finished exchanges only (rule 3  *)
(* of chat.h): a turn that failed at any point has left nothing.           *)
THEOREM FinishedTurnsOnly ==
  ASSUME MAXTURNS < EPOCHS
  PROVE  Spec => []OnlyFinishedTurnsRemembered
<1>1. ASSUME ChatState, Flight PROVE OnlyFinishedTurnsRemembered
  <2>1. SUFFICES ASSUME pc = "out"
                 PROVE  /\ Acceptable(hist)
                        /\ \A i \in DOMAIN hist.msgs :
                             i = Len(hist.msgs) \/ Said(hist, i + 1).kind = "say" =>
                               Said(hist, i).kind = "fin"
    BY DEF OnlyFinishedTurnsRemembered
  <2>2. Rest(hist, turn)
    BY <1>1, <2>1 DEF Flight
  <2>3. /\ Sound(hist) /\ Talk(hist) /\ Len(hist.msgs) \in Nat
        /\ DOMAIN hist.msgs = 1..Len(hist.msgs)
        /\ Len(hist.msgs) > 0 => Said(hist, Len(hist.msgs)).kind = "fin"
    BY <2>2, SoundEntry DEF Rest, Fit
  <2>4. /\ Acceptable(hist)
        /\ \A i \in 1..(Len(hist.msgs) - 1) :
             Said(hist, i + 1).kind = "say" => Said(hist, i).kind = "fin"
    BY <2>3, TalkAcceptable
  <2>5. ASSUME NEW i \in 1..Len(hist.msgs)
        PROVE  i = Len(hist.msgs) \/ i \in 1..(Len(hist.msgs) - 1)
    BY <2>3
  <2>6. ASSUME NEW i \in 1..Len(hist.msgs) PROVE Len(hist.msgs) > 0
    BY <2>3
  <2> QED BY <2>3, <2>4, <2>5, <2>6
<1> QED BY <1>1, ConversationInvariance, PTL

(* Nothing runs for a reply the history could not take: a journalled call  *)
(* answers a tool_use of the last message, of this turn.                   *)
THEOREM RunsRemembered ==
  ASSUME MAXTURNS < EPOCHS
  PROVE  Spec => RunsOnlyWhatIsRemembered
<1> DEFINE s == Said(hist, Len(hist.msgs))
           Good == hist.msgs # <<>> /\ s.kind = "use" /\ s.turn = turn /\ s.n > reply.done
<1>1. ASSUME ChatState, Flight, [Next]_chatVars, log' # log
      PROVE  Good
  <2>1. CutTool \/ DispatchTool
    <3>1. CASE UNCHANGED chatVars
      BY <1>1, <3>1 DEF chatVars
    <3>2. CASE \E l \in SIZES : Ask(l)
      BY <1>1, <3>2 DEF Ask
    <3>3. CASE Wire
      BY <1>1, <3>3 DEF Wire, SendFails, HttpError, BadReply, ToolReply, FinalReply
    <3>4. CASE Loop
      BY <1>1, <3>4 DEF Loop, StopAtCap, BuildRequest, RefuseTool, RecordResults
    <3>5. CASE NestedAsk
      BY <1>1, <3>5 DEF NestedAsk, AskRefused
    <3> QED BY <1>1, <3>1, <3>2, <3>3, <3>4, <3>5 DEF Next
  <2>2. pc = "run" /\ reply.done < reply.n
    BY <2>1 DEF CutTool, DispatchTool
  <2>3. Live(hist, turn, {Content("use", rounds, reply.n)})
    BY <1>1, <2>2 DEF Flight
  <2>4. s = [kind |-> "use", turn |-> turn, round |-> rounds, n |-> reply.n]
        /\ Len(hist.msgs) > 0
    BY <2>3 DEF Live, Content
  <2>5. hist.msgs # <<>>
    BY <2>4, EmptySeq
  <2>6. reply.n \in Nat /\ reply.done \in Nat
    BY <1>1, <2>2, Constants DEF ChatState, Replies
  <2> HIDE DEF s
  <2> QED BY <2>2, <2>4, <2>5, <2>6
<1>2. ASSUME ChatState, Flight, [Next]_chatVars
      PROVE  [log' # log /\ journal_total' # 0 =>
                /\ hist.msgs # <<>>
                /\ LET q == Said(hist, Len(hist.msgs))
                   IN q.kind = "use" /\ q.turn = turn /\ q.n > reply.done]_chatVars
  BY <1>1, <1>2
<1> QED BY <1>2, ConversationInvariance, PTL DEF Spec, RunsOnlyWhatIsRemembered

(* A turn that fails without needing room takes back what it appended and  *)
(* nothing else (hist_rollback_epoch).                                     *)
THEOREM FailureUndoes ==
  ASSUME MAXTURNS < EPOCHS
  PROVE  Spec => FailureUndoesItselfOnly
<1>1. ASSUME ChatState, Flight, [Next]_chatVars, pc = "sent", pc' = "out",
             rc' \in {"ETRANSPORT", "EHTTP", "EPROTO"}
      PROVE  TurnsIn(hist') = TurnsIn(hist) \ {turn}
  <2>1. Live(hist, turn, Asking(turn)) /\ epoch = turn /\ turn \in Nat
    BY <1>1, Constants DEF Flight, ChatState
  <2>2. hist' = Rollback(hist, turn)
    <3>1. CASE UNCHANGED chatVars
      BY <1>1, <3>1 DEF chatVars
    <3>2. CASE \E l \in SIZES : Ask(l)
      BY <1>1, <3>2 DEF Ask
    <3>3. ASSUME NEW b \in BOOLEAN, SendFails(b) PROVE hist' = Rollback(hist, turn)
      BY <1>1, <2>1, <3>3 DEF SendFails, Abort
    <3>4. ASSUME NEW b \in BOOLEAN, NEW q \in BOOLEAN, HttpError(b, q)
          PROVE  hist' = Rollback(hist, turn)
      BY <1>1, <2>1, <3>4 DEF HttpError, Abort
    <3>5. ASSUME NEW c, BadReply(c) PROVE hist' = Rollback(hist, turn)
      BY <1>1, <2>1, <3>5 DEF BadReply, Abort
    <3>6. ASSUME NEW n \in ASKS, NEW l \in SIZES, NEW c \in BOOLEAN, NEW p \in BOOLEAN,
                 ToolReply(n, l, c, p)
          PROVE  FALSE
      BY <1>1, <3>6 DEF ToolReply, Abort, End
    <3>7. ASSUME NEW l \in SIZES, NEW p \in BOOLEAN, FinalReply(l, p) PROVE FALSE
      BY <1>1, <3>7 DEF FinalReply, End
    <3>8. CASE Wire
      BY <3>3, <3>4, <3>5, <3>6, <3>7, <3>8 DEF Wire
    <3>9. CASE Loop
      BY <1>1, <3>9 DEF Loop, StopAtCap, BuildRequest, RefuseTool, CutTool, RecordResults
    <3>10. CASE DispatchTool \/ NestedAsk
      BY <1>1, <3>10 DEF DispatchTool, NestedAsk
    <3> QED BY <1>1, <3>1, <3>2, <3>8, <3>9, <3>10 DEF Next
  <2> QED BY <2>1, <2>2, RollbackTurns
<1>2. ASSUME ChatState, Flight, [Next]_chatVars
      PROVE  [pc = "sent" /\ pc' = "out" /\ rc' \in {"ETRANSPORT", "EHTTP", "EPROTO"}
                => TurnsIn(hist') = TurnsIn(hist) \ {turn}]_chatVars
  BY <1>1, <1>2
<1> QED BY <1>2, ConversationInvariance, PTL DEF Spec, FailureUndoesItselfOnly

-----------------------------------------------------------------------------
(* The main loop (module MainLoop).                                        *)

Phases == {"boot", "idle", "tick", "poll", "line", "asked", "replied"}

(* The loop's own variables, and whose chat_ask may be on the stack where. *)
Places ==
  /\ phase \in Phases /\ caller \in {"none", "agenda", "loop"}
  /\ (caller = "none") = (pc = "out")
  /\ phase \in {"idle", "tick", "line", "replied"} => caller = "none"
  /\ phase \in {"boot", "poll"} => caller # "loop"
  /\ phase = "asked" => caller # "agenda"
  /\ active \in {0} \cup CHATS
  /\ line \in [from : {0} \cup CHATS, truncated : BOOLEAN]
  /\ escapes \in 0..ESCAPES
  /\ grabbed \in {0} \cup CHATS
  /\ mine \in 0..MAXTURNS
  /\ out \in [to : {0} \cup CHATS, text : 0..MAXTURNS]
  /\ phase = "asked" => out = NoOut
  /\ journal_total \in Nat

(* Whom a sentence is answered to, if anybody: the chat it came from or,   *)
(* for the console, the one whose sentence a text field took.              *)
Asker == IF line.from # 0 THEN line.from ELSE grabbed

(* The active chat is the asker's or none, and certainly the asker's with  *)
(* a Telegram sentence in hand.  Between sentences a text field may have   *)
(* left one active.                                                        *)
Paired ==
  /\ phase \in {"line", "asked"} =>
       /\ active \in {0, Asker}
       /\ line.from # 0 => active = line.from
  /\ phase \notin {"line", "asked"} => active \in {0, grabbed}
  /\ phase = "replied" => active = 0
  /\ phase = "replied" /\ out # NoOut => out.to = Asker

(* What the sentence started, unless a fault struck on this pass.          *)
Unstruck ==
  ~struck =>
    /\ pc = "out" => in_turn = FALSE
    /\ phase \in {"asked", "replied"} => mine = turn /\ text \in {0, turn}
    /\ phase = "asked" /\ caller = "none" => rc # "EREENTER"
    /\ phase = "replied" /\ out # NoOut => out.text \in {0, turn}

LoopInv == ChatState /\ Places /\ Paired /\ Unstruck

(* What a step of a turn does to what the main loop reads afterwards.      *)
LEMMA TurnEffect ==
  ASSUME ChatState, Wire \/ Loop \/ DispatchTool
  PROVE  /\ pc # "out" /\ turn' = turn /\ text' \in {text, turn}
         /\ pc' = "out" => in_turn' = FALSE /\ rc' # "EREENTER"
         /\ journal_total' \in {journal_total, journal_total + 1}
         /\ DispatchTool => pc' # "out"
<1> DEFINE Goal == /\ pc # "out" /\ turn' = turn /\ text' \in {text, turn}
                   /\ pc' = "out" => in_turn' = FALSE /\ rc' # "EREENTER"
                   /\ journal_total' \in {journal_total, journal_total + 1}
<1>1. ASSUME NEW b \in BOOLEAN, SendFails(b) PROVE Goal
  BY <1>1 DEF SendFails, Abort, End
<1>2. ASSUME NEW b \in BOOLEAN, NEW s \in BOOLEAN, HttpError(b, s) PROVE Goal
  BY <1>2 DEF HttpError, Abort, End
<1>3. ASSUME NEW c \in {"EPROTO", "ENOSPC"}, BadReply(c) PROVE Goal
  BY <1>3 DEF BadReply, Abort, End
<1>4. ASSUME NEW n \in ASKS, NEW l \in SIZES, NEW c \in BOOLEAN, NEW p \in BOOLEAN,
             ToolReply(n, l, c, p)
      PROVE  Goal
  BY <1>4 DEF ToolReply, Abort, End
<1>5. ASSUME NEW l \in SIZES, NEW p \in BOOLEAN, FinalReply(l, p) PROVE Goal
  BY <1>5 DEF FinalReply, End
<1>6. ASSUME StopAtCap PROVE Goal
  BY <1>6 DEF StopAtCap, Abort, End
<1>7. ASSUME NEW r \in REQ_ROOMS, BuildRequest(r) PROVE Goal
  BY <1>7 DEF BuildRequest, Abort, End
<1>8. ASSUME NEW l \in SIZES, RecordResults(l) PROVE Goal
  BY <1>8 DEF RecordResults, Abort, End
<1>9. ASSUME RefuseTool \/ CutTool \/ DispatchTool PROVE Goal /\ pc' # "out"
  BY <1>9 DEF RefuseTool, CutTool, DispatchTool, Record, turnVars
<1> HIDE DEF Goal
<1>10. Goal
  BY <1>1, <1>2, <1>3, <1>4, <1>5, <1>6, <1>7, <1>8, <1>9 DEF Wire, Loop
<1> QED BY <1>9, <1>10 DEF Goal

(* What chat_ask does to what the main loop reads afterwards.              *)
LEMMA AskEffect ==
  ASSUME ChatState, NEW l \in SIZES, Ask(l)
  PROVE  /\ turn' = turn + 1 /\ text' = 0 /\ journal_total' = journal_total
         /\ pc' = "out" => in_turn' = FALSE /\ rc' # "EREENTER"
BY DEF Ask, Abort, End

(* A sentence put to the turn loop.                                        *)
LEMMA AskedInv ==
  ASSUME LoopInv, BootAsk \/ TickAsk \/ LoopAsk
  PROVE  LoopInv'
<1>1. /\ pc = "out" /\ caller = "none"
      /\ UNCHANGED <<active, sent, line, escapes, struck, grabbed>>
  BY DEF LoopInv, Places, BootAsk, TickAsk, LoopAsk
<1>2. turn \in 0..MAXTURNS /\ journal_total \in Nat
  BY DEF LoopInv, ChatState, Places
<1>3. CASE \E l \in SIZES : Ask(l)
  <2>1. PICK l \in SIZES : Ask(l)
    BY <1>3
  <2>2. ChatState'
    BY <2>1, AskState DEF LoopInv
  <2>3. /\ turn' = turn + 1 /\ text' = 0 /\ journal_total' = journal_total
        /\ pc' = "out" => in_turn' = FALSE /\ rc' # "EREENTER"
    BY <2>1, AskEffect DEF LoopInv
  <2>4. turn' \in 0..MAXTURNS /\ turn' # turn
    BY <1>2, <2>2, <2>3, Constants DEF ChatState
  <2>5. CASE BootAsk
    <3>1. /\ phase = "boot" /\ caller' = (IF pc' = "out" THEN "none" ELSE "agenda")
          /\ UNCHANGED <<phase, active, sent, line, escapes, struck, grabbed, mine, out>>
      BY <2>5 DEF BootAsk
    <3>2. Places'
      BY <2>3, <3>1 DEF LoopInv, Places
    <3>3. Paired' /\ Unstruck'
      BY <2>3, <3>1 DEF LoopInv, Paired, Asker, Unstruck
    <3> QED BY <2>2, <3>2, <3>3 DEF LoopInv
  <2>6. CASE TickAsk
    <3>1. /\ phase = "tick" /\ phase' = "poll"
          /\ caller' = (IF pc' = "out" THEN "none" ELSE "agenda")
          /\ UNCHANGED <<active, sent, line, escapes, struck, grabbed, mine, out>>
      BY <2>6 DEF TickAsk
    <3>2. Places'
      BY <2>3, <3>1 DEF LoopInv, Places, Phases
    <3>3. Paired' /\ Unstruck'
      BY <2>3, <3>1 DEF LoopInv, Paired, Asker, Unstruck
    <3> QED BY <2>2, <3>2, <3>3 DEF LoopInv
  <2>7. CASE LoopAsk
    <3>1. /\ phase = "line" /\ phase' = "asked" /\ out' = NoOut
          /\ caller' = (IF pc' = "out" THEN "none" ELSE "loop")
          /\ mine' = turn'
          /\ UNCHANGED <<active, sent, line, escapes, struck, grabbed>>
      BY <2>4, <2>7 DEF LoopAsk
    <3>2. out' \in [to : {0} \cup CHATS, text : 0..MAXTURNS]
      BY <3>1, Constants DEF NoOut
    <3>3. Places'
      BY <2>3, <2>4, <3>1, <3>2 DEF LoopInv, Places, Phases
    <3>4. Paired' /\ Unstruck'
      BY <2>3, <3>1 DEF LoopInv, Paired, Asker, Unstruck
    <3> QED BY <2>2, <3>3, <3>4 DEF LoopInv
  <2> QED BY <2>5, <2>6, <2>7
<1>4. CASE AskRefused
  <2>1. ChatState'
    BY <1>4, TurnState DEF LoopInv
  <2>2. /\ in_turn /\ rc' = "EREENTER"
        /\ UNCHANGED <<in_turn, journal_total, text, pc, turn>>
    BY <1>4 DEF AskRefused
  <2>3. struck
    BY <1>1, <2>2 DEF LoopInv, Unstruck
  <2>4. Unstruck'
    BY <1>1, <2>3 DEF Unstruck
  <2>5. CASE BootAsk
    <3>1. /\ phase = "boot" /\ caller' = "none"
          /\ UNCHANGED <<phase, active, sent, line, escapes, struck, grabbed, mine, out>>
      BY <1>1, <2>2, <2>5 DEF BootAsk
    <3>2. Places' /\ Paired'
      BY <1>1, <2>2, <3>1 DEF LoopInv, Places, Paired, Asker
    <3> QED BY <2>1, <2>4, <3>2 DEF LoopInv
  <2>6. CASE LoopAsk
    <3>1. /\ phase = "line" /\ phase' = "asked" /\ out' = NoOut
          /\ caller' = "none" /\ mine' = 0
          /\ UNCHANGED <<active, sent, line, escapes, struck, grabbed>>
      BY <1>1, <2>2, <2>6 DEF LoopAsk
    <3>2. out' \in [to : {0} \cup CHATS, text : 0..MAXTURNS] /\ mine' \in 0..MAXTURNS
      BY <3>1, Constants DEF NoOut
    <3>3. Places'
      BY <1>1, <2>2, <3>1, <3>2 DEF LoopInv, Places, Phases
    <3>4. Paired'
      BY <3>1 DEF LoopInv, Paired, Asker
    <3> QED BY <2>1, <2>4, <3>3, <3>4 DEF LoopInv
  <2>7. CASE TickAsk
    <3>1. \E l \in SIZES : Ask(l)
      BY <2>7 DEF TickAsk
    <3> QED BY <1>3, <3>1
  <2> QED BY <2>5, <2>6, <2>7
<1> QED BY <1>3, <1>4 DEF BootAsk, TickAsk, LoopAsk

(* A step of the turn in progress.                                         *)
LEMMA StepInv ==
  ASSUME LoopInv, TurnStep \/ \E b \in BOOLEAN : ToolStep(b)
  PROVE  LoopInv'
<1>1. /\ Wire \/ Loop \/ DispatchTool
      /\ caller # "none"
      /\ UNCHANGED <<phase, active, line, escapes, struck, grabbed, mine, out>>
  BY DEF TurnStep, ToolStep
<1>2. ChatState'
  BY <1>1, TurnState DEF LoopInv
<1>3. /\ pc # "out" /\ turn' = turn /\ text' \in {text, turn}
      /\ pc' = "out" => in_turn' = FALSE /\ rc' # "EREENTER"
      /\ journal_total' \in {journal_total, journal_total + 1}
      /\ DispatchTool => pc' # "out"
  BY <1>1, TurnEffect DEF LoopInv
<1>4. caller' = IF pc' = "out" THEN "none" ELSE caller
  BY <1>3 DEF TurnStep, ToolStep, Back
<1>5. Places'
  BY <1>1, <1>3, <1>4 DEF LoopInv, Places
<1>6. Paired'
  BY <1>1 DEF LoopInv, Paired, Asker
<1>7. Unstruck'
  BY <1>1, <1>3, <1>4 DEF LoopInv, Unstruck, Places
<1> QED BY <1>2, <1>5, <1>6, <1>7 DEF LoopInv

(* Escape, the idle pass and a late connection: the turn loop's variables  *)
(* change from outside it.                                                 *)
LEMMA OutsideInv ==
  ASSUME LoopInv, Escape \/ IdleWork \/ Reconnect
  PROVE  LoopInv'
<1>1. CASE Escape
  <2>1. /\ pc' = "out" /\ caller' = "none" /\ reply' = NoReply /\ struck' = TRUE
        /\ escapes < ESCAPES /\ escapes' = escapes + 1
        /\ UNCHANGED <<transport, hist, epoch, in_turn, rounds, retries,
                       journal_total, text, rc, turn, phase, active, line, grabbed, mine, out>>
    BY <1>1 DEF Escape
  <2>2. ChatState'
    BY <2>1 DEF LoopInv, ChatState
  <2>3. escapes' \in 0..ESCAPES
    BY <2>1, LoopConstants DEF LoopInv, Places
  <2>4. Places' /\ Paired' /\ Unstruck'
    BY <2>1, <2>3 DEF LoopInv, Places, Paired, Asker, Unstruck
  <2> QED BY <2>2, <2>4 DEF LoopInv
<1>2. CASE IdleWork
  <2>1. /\ phase = "idle" /\ in_turn' = FALSE /\ phase' = "tick" /\ struck' = FALSE
        /\ UNCHANGED <<transport, hist, epoch, rounds, retries, journal_total, text,
                       pc, reply, rc, turn, caller, active, line, escapes, grabbed, mine, out>>
    BY <1>2 DEF IdleWork
  <2>2. pc = "out"
    BY <2>1 DEF LoopInv, Places
  <2>3. ChatState'
    BY <2>1, <2>2 DEF LoopInv, ChatState
  <2>4. Places' /\ Paired' /\ Unstruck'
    BY <2>1 DEF LoopInv, Places, Paired, Asker, Unstruck, Phases
  <2> QED BY <2>3, <2>4 DEF LoopInv
<1>3. CASE Reconnect
  <2>1. /\ phase = "line" /\ transport' = TRUE /\ hist' = Empty /\ epoch' = 0
        /\ in_turn' = FALSE /\ rounds' = 0 /\ retries' = 0 /\ journal_total' = 0
        /\ UNCHANGED <<text, pc, reply, rc, turn, phase, caller, active, line,
                       escapes, struck, grabbed, mine, out>>
    BY <1>3 DEF Reconnect, ChatInit, loopVars
  <2>2. pc = "out"
    BY <2>1 DEF LoopInv, Places
  <2>3. /\ Fit(hist') /\ epoch' \in 0..(EPOCHS - 1) /\ rounds' \in 0..MAX_ROUNDS
        /\ retries' \in 0..SEND_RETRIES
    BY <2>1, EmptyFit, Constants
  <2>4. ChatState'
    BY <2>1, <2>2, <2>3 DEF LoopInv, ChatState
  <2>5. Places' /\ Paired' /\ Unstruck'
    BY <2>1 DEF LoopInv, Places, Paired, Asker, Unstruck
  <2> QED BY <2>4, <2>5 DEF LoopInv
<1> QED BY <1>1, <1>2, <1>3

(* What the loop does between turns, with the line it has or has not got.  *)
LEMMA BetweenInv ==
  ASSUME LoopInv, UNCHANGED <<chatVars, escapes, struck>>,
         \/ Ready \/ NothingDue \/ NoLineYet \/ RefuseTruncated \/ AutoReply
         \/ NextSentence \/ TelegramTooLong \/ TakenByField \/ BareEnter
         \/ \E c \in {0} \cup CHATS : TelegramLine(c)
         \/ \E b \in BOOLEAN : ConsoleLine(b)
  PROVE  LoopInv'
<1>0. ChatState' /\ UNCHANGED <<pc, in_turn, text, turn, rc, journal_total>>
  BY DEF LoopInv, ChatState, chatVars
<1>1. CASE Ready \/ NothingDue \/ NoLineYet
  <2>1. /\ caller = "none" /\ phase \in {"boot", "tick", "poll"} /\ phase' \in {"idle", "poll"}
        /\ UNCHANGED <<caller, active, line, grabbed, mine, out>>
    BY <1>1 DEF Ready, NothingDue, NoLineYet, LoopInv, Places
  <2>2. Places'
    BY <1>0, <2>1 DEF LoopInv, Places, Phases
  <2>3. Paired' /\ Unstruck'
    BY <1>0, <2>1 DEF LoopInv, Paired, Asker, Unstruck
  <2> QED BY <1>0, <2>2, <2>3 DEF LoopInv
<1>2. ASSUME NEW c \in {0} \cup CHATS
      PROVE  /\ [line EXCEPT !.from = c] \in [from : {0} \cup CHATS, truncated : BOOLEAN]
             /\ [line EXCEPT !.from = c].from = c
  BY DEF LoopInv, Places
<1>3. CASE RefuseTruncated \/ TakenByField
  <2>1. /\ phase = "line" /\ phase' = "idle" /\ line' = [line EXCEPT !.from = 0]
        /\ UNCHANGED <<caller, active, mine, out>>
        /\ grabbed' \in {0} \cup CHATS /\ active \in {0, grabbed'}
    BY <1>3 DEF RefuseTruncated, TakenByField, Dismiss, LoopInv, Places, Paired, Asker
  <2>2. Places'
    BY <1>0, <1>2, <2>1 DEF LoopInv, Places, Phases
  <2>3. Paired' /\ Unstruck'
    BY <1>0, <2>1 DEF LoopInv, Paired, Asker, Unstruck
  <2> QED BY <1>0, <2>2, <2>3 DEF LoopInv
<1>4. CASE TelegramTooLong
  <2>1. /\ phase = "poll" /\ active' = 0 /\ grabbed' = 0
        /\ UNCHANGED <<phase, caller, line, mine, out>>
    BY <1>4 DEF TelegramTooLong
  <2>2. Places' /\ Paired' /\ Unstruck'
    BY <1>0, <2>1 DEF LoopInv, Places, Paired, Asker, Unstruck
  <2> QED BY <1>0, <2>2 DEF LoopInv
<1>5. CASE NextSentence
  <2>1. /\ phase = "replied" /\ phase' = "idle" /\ line' = [line EXCEPT !.from = 0]
        /\ mine' = 0 /\ grabbed' = 0 /\ out' = NoOut /\ UNCHANGED <<caller, active>>
    BY <1>5 DEF NextSentence, Dismiss
  <2>2. out' \in [to : {0} \cup CHATS, text : 0..MAXTURNS] /\ mine' \in 0..MAXTURNS
    BY <2>1, Constants DEF NoOut
  <2>3. Places'
    BY <1>0, <1>2, <2>1, <2>2 DEF LoopInv, Places, Phases
  <2>4. Paired' /\ Unstruck'
    BY <1>0, <2>1 DEF LoopInv, Paired, Asker, Unstruck
  <2> QED BY <1>0, <2>3, <2>4 DEF LoopInv
<1>6. ASSUME NEW c \in {0} \cup CHATS, TelegramLine(c) PROVE LoopInv'
  <2>1. /\ phase = "poll" /\ caller = "none" /\ active' = c /\ phase' = "line"
        /\ line' = [line EXCEPT !.from = c] /\ grabbed' = 0
        /\ UNCHANGED <<caller, mine, out>>
    BY <1>6 DEF TelegramLine
  <2>2. line' \in [from : {0} \cup CHATS, truncated : BOOLEAN] /\ line'.from = c
    BY <1>2, <2>1
  <2>3. Places'
    BY <1>0, <2>1, <2>2 DEF LoopInv, Places, Phases
  <2>4. Paired' /\ Unstruck'
    BY <1>0, <2>1, <2>2 DEF LoopInv, Paired, Asker, Unstruck
  <2> QED BY <1>0, <2>3, <2>4 DEF LoopInv
<1>7. ASSUME NEW b \in BOOLEAN, ConsoleLine(b) PROVE LoopInv'
  <2>1. /\ phase = "poll" /\ caller = "none" /\ phase' = "line"
        /\ line' = [from |-> 0, truncated |-> b]
        /\ UNCHANGED <<caller, active, grabbed, mine, out>>
    BY <1>7 DEF ConsoleLine
  <2>2. line' \in [from : {0} \cup CHATS, truncated : BOOLEAN] /\ line'.from = 0
    BY <2>1
  <2>3. Places'
    BY <1>0, <2>1, <2>2 DEF LoopInv, Places, Phases
  <2>4. Paired' /\ Unstruck'
    BY <1>0, <2>1, <2>2 DEF LoopInv, Paired, Asker, Unstruck
  <2> QED BY <1>0, <2>3, <2>4 DEF LoopInv
<1>8. CASE AutoReply
  <2>1. /\ phase = "asked" /\ caller = "none" /\ phase' = "replied"
        /\ UNCHANGED <<caller, line, grabbed, mine>>
        /\ \/ active = 0 /\ UNCHANGED <<active, out>>
           \/ active # 0 /\ active' = 0 /\ out' \in {NoOut, [to |-> active, text |-> text]}
    BY <1>8 DEF AutoReply
  <2>2. active \in {0, Asker} /\ out = NoOut
    BY <2>1 DEF LoopInv, Paired, Asker, Places
  <2>3. out' = NoOut \/ (active = Asker /\ out' = [to |-> active, text |-> text])
    BY <2>1, <2>2
  <2>4. out' \in [to : {0} \cup CHATS, text : 0..MAXTURNS] /\ active' = 0
    BY <2>1, <2>3, Constants DEF NoOut, LoopInv, Places, ChatState
  <2>5. Places'
    BY <1>0, <2>1, <2>4 DEF LoopInv, Places, Phases
  <2>6. Paired'
    BY <2>1, <2>2, <2>3, <2>4 DEF Paired, Asker
  <2>7. Unstruck'
    <3>1. ~struck => text \in {0, turn} /\ mine = turn
      BY <2>1 DEF LoopInv, Unstruck
    <3>2. ~struck /\ out' # NoOut => out'.text \in {0, turn}
      BY <2>3, <3>1
    <3> QED BY <1>0, <2>1, <3>1, <3>2 DEF LoopInv, Unstruck
  <2> QED BY <1>0, <2>5, <2>6, <2>7 DEF LoopInv
<1>9. CASE BareEnter
  <2>1. /\ phase = "poll" /\ phase' = "idle" /\ caller = "none"
        /\ line' = [line EXCEPT !.truncated = FALSE]
        /\ UNCHANGED <<caller, active, grabbed, mine, out>>
    BY <1>9 DEF BareEnter
  <2>2. line' \in [from : {0} \cup CHATS, truncated : BOOLEAN]
    <3>1. line \in [from : {0} \cup CHATS, truncated : BOOLEAN]
      BY DEF LoopInv, Places
    <3> QED BY <2>1, <3>1
  <2>3. Places'
    BY <1>0, <2>1, <2>2 DEF LoopInv, Places, Phases
  <2>4. Paired' /\ Unstruck'
    BY <1>0, <2>1 DEF LoopInv, Paired, Asker, Unstruck
  <2> QED BY <1>0, <2>3, <2>4 DEF LoopInv
<1> QED BY <1>1, <1>3, <1>4, <1>5, <1>6, <1>7, <1>8, <1>9

(* The invariant of the main loop, for any number of chats and any number  *)
(* of faults.                                                              *)
THEOREM LoopInvariance == LoopSpec => []LoopInv
<1>1. ASSUME LoopInit PROVE LoopInv
  <2>1. ChatState
    BY <1>1, InitState DEF LoopInit
  <2>2. NoLine \in [from : {0} \cup CHATS, truncated : BOOLEAN]
        /\ NoOut \in [to : {0} \cup CHATS, text : 0..MAXTURNS]
    BY Constants DEF NoLine, NoOut
  <2>3. /\ phase = "boot" /\ caller = "none" /\ active = 0 /\ line = NoLine /\ escapes = 0
        /\ grabbed = 0 /\ mine = 0 /\ out = NoOut /\ pc = "out" /\ in_turn = FALSE /\ journal_total = 0
    BY <1>1 DEF LoopInit, Init
  <2>4. escapes \in 0..ESCAPES /\ mine \in 0..MAXTURNS
    BY <2>3, LoopConstants, Constants
  <2>5. Places /\ Paired /\ Unstruck
    BY <2>2, <2>3, <2>4 DEF Places, Paired, Asker, Unstruck, Phases
  <2> QED BY <2>1, <2>5 DEF LoopInv
<1>2. ASSUME LoopInv, [LoopNext]_vars PROVE LoopInv'
  <2>1. CASE UNCHANGED vars
    <3>1. UNCHANGED <<chatVars, loopVars>>
      BY <2>1 DEF vars
    <3>2. ChatState'
      BY <1>2, <3>1 DEF LoopInv, ChatState, chatVars
    <3>3. Places' /\ Paired' /\ Unstruck'
      BY <1>2, <3>1 DEF LoopInv, Places, Paired, Asker, Unstruck, chatVars, loopVars
    <3> QED BY <3>2, <3>3 DEF LoopInv
  <2>2. CASE BootAsk \/ TickAsk \/ LoopAsk
    BY <1>2, <2>2, AskedInv
  <2>3. CASE TurnStep \/ \E b \in BOOLEAN : ToolStep(b)
    BY <1>2, <2>3, StepInv
  <2>4. CASE Escape \/ IdleWork \/ Reconnect
    BY <1>2, <2>4, OutsideInv
  <2>5. CASE \/ Ready \/ NothingDue \/ NoLineYet \/ RefuseTruncated \/ AutoReply
             \/ NextSentence \/ TelegramTooLong \/ TakenByField \/ BareEnter
             \/ \E c \in {0} \cup CHATS : TelegramLine(c)
             \/ \E b \in BOOLEAN : ConsoleLine(b)
    <3>1. UNCHANGED <<chatVars, escapes, struck>>
      BY <2>5 DEF Ready, NothingDue, NoLineYet, RefuseTruncated, AutoReply, NextSentence,
                  TelegramTooLong, TakenByField, BareEnter, TelegramLine, ConsoleLine
    <3> QED BY <1>2, <2>5, <3>1, BetweenInv
  <2> QED BY <1>2, <2>1, <2>2, <2>3, <2>4, <2>5 DEF LoopNext, Idle
<1> QED BY <1>1, <1>2, PTL DEF LoopSpec

(* The auto-reply goes to the chat whose sentence was answered and carries *)
(* what that sentence's turn said, through faults, sentences that do not   *)
(* fit and lines a text field takes, Telegram's included; a console        *)
(* sentence is answered to a chat only if a field took that chat's last    *)
(* sentence (the loop of kernel/main.c).                                   *)
THEOREM RepliesGoToAsker == LoopSpec => []ReplyGoesToAsker
<1>1. ASSUME LoopInv PROVE ReplyGoesToAsker
  <2>1. TypeOK
    <3>1. /\ Sound(hist) /\ Len(hist.msgs) <= HISTORY_MSGS /\ Used(hist) <= HISTORY_BYTES
          /\ DOMAIN hist.msgs = 1..Len(hist.msgs) /\ DOMAIN hist.arena = 1..Used(hist)
          /\ hist \in Hists
      BY <1>1, SoundEntry DEF LoopInv, ChatState, Fit, Sound
    <3>2. \A i \in DOMAIN hist.msgs : hist.msgs[i] \in Entry
      BY <3>1, EntryFacts
    <3>3. \A i \in DOMAIN hist.arena : hist.arena[i] \in Contents
      BY <3>1, ArenaByte
    <3>4. reply.done <= reply.n
      <4>1. CASE pc = "run"
        BY <1>1, <4>1 DEF LoopInv, ChatState
      <4>2. CASE pc # "run"
        <5>1. reply = NoReply
          BY <1>1, <4>2 DEF LoopInv, ChatState
        <5> QED BY <5>1 DEF NoReply
      <4> QED BY <4>1, <4>2
    <3> QED BY <1>1, <3>1, <3>2, <3>3, <3>4 DEF LoopInv, ChatState, Places, TypeOK
  <2>2. LoopTypeOK
    BY <1>1, <2>1 DEF LoopInv, Places, LoopTypeOK, Phases
  <2>3. phase = "replied" /\ out # NoOut =>
          /\ out.to = IF line.from # 0 THEN line.from ELSE grabbed
          /\ ~struck => out.text \in {0, mine}
    BY <1>1 DEF LoopInv, Paired, Asker, Unstruck
  <2> QED BY <2>2, <2>3 DEF ReplyGoesToAsker
<1> QED BY <1>1, LoopInvariance, PTL

(* The operator is not refused between turns, however many turns have      *)
(* faulted before this pass of the loop (chat_turn_ended in idle_work).    *)
THEOREM OperatorHeard == LoopSpec => []OperatorNotRefused
<1>1. LoopInv => OperatorNotRefused
  BY DEF LoopInv, Unstruck, OperatorNotRefused
<1> QED BY <1>1, LoopInvariance, PTL
=============================================================================
