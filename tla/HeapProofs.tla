----------------------------- MODULE HeapProofs -----------------------------
(***************************************************************************)
(* The kernel heap for an arena, a header and an alignment of any size and *)
(* any sequence of calls: the headers tile the arena, the statistics count *)
(* it and every owner has the memory it asked for.  What each helper of    *)
(* mm/heap.c does to the list is a lemma; the operations compose them.     *)
(***************************************************************************)
EXTENDS Heap, LoopLemmas, FiniteSetTheorems

Whole(x) == x \in Nat /\ x % ALIGN = 0

Header == [magic : BOOLEAN, free : BOOLEAN, size : 0..ARENA,
           prev : Addr \cup {NULL}, next : Addr \cup {NULL}]

Heaps == [hdr : [Addr -> Header], in_use : Int, peak : Int, used : Int, free : Int]

Tile(H) == H \in Heaps /\ Tiled(H)

-----------------------------------------------------------------------------
(* Multiples of the alignment.                                             *)

(* Multiples of ALIGN are what a whole number of units makes.              *)
LEMMA WholeUnits ==
  ASSUME NEW x \in Nat
  PROVE  Whole(x) <=> \E k \in Nat : x = ALIGN * k
<1>0. ALIGN \in Nat \ {0}
  BY HeapConstants
<1>1. ASSUME Whole(x) PROVE \E k \in Nat : x = ALIGN * k
  <2> DEFINE k == x \div ALIGN
  <2>1. k \in Int /\ x = ALIGN * k + (x % ALIGN)
    BY <1>0, RingsAndSlot
  <2>2. x % ALIGN = 0
    BY <1>1 DEF Whole
  <2> HIDE DEF k
  <2>3. x = ALIGN * k
    BY <1>0, <2>1, <2>2
  <2>4. k < 0 => ALIGN * k < 0
    BY <1>0, <2>1
  <2>5. k \in Nat
    BY <2>1, <2>3, <2>4
  <2> QED BY <2>3, <2>5
<1>2. ASSUME NEW k \in Nat, x = ALIGN * k PROVE Whole(x)
  <2>1. (0 + ALIGN * k) % ALIGN = 0 % ALIGN
    BY <1>0, SlotShift
  <2>2. 0 % ALIGN = 0
    BY <1>0
  <2>3. 0 + ALIGN * k = x
    BY <1>0, <1>2
  <2> QED BY <2>1, <2>2, <2>3 DEF Whole
<1> QED BY <1>1, <1>2

(* Sums and differences of multiples of ALIGN are multiples of it, and two *)
(* different ones are at least ALIGN apart.                                *)
LEMMA WholeSums ==
  ASSUME NEW x, Whole(x), NEW y, Whole(y)
  PROVE  /\ Whole(x + y)
         /\ y <= x => Whole(x - y)
         /\ x < y => x + ALIGN <= y
<1>0. ALIGN \in Nat \ {0} /\ x \in Nat /\ y \in Nat
  BY HeapConstants DEF Whole
<1>1. PICK j \in Nat : x = ALIGN * j
  BY <1>0, WholeUnits
<1>2. PICK k \in Nat : y = ALIGN * k
  BY <1>0, WholeUnits
<1>3. x + y = ALIGN * (j + k) /\ j + k \in Nat /\ x + y \in Nat
  BY <1>0, <1>1, <1>2
<1>4. Whole(x + y)
  BY <1>3, WholeUnits
<1>5. k <= j \/ j < k
  OBVIOUS
<1>6. ASSUME y <= x PROVE Whole(x - y)
  <2>1. CASE k <= j
    <3>1. x - y = ALIGN * (j - k) /\ j - k \in Nat /\ x - y \in Nat
      BY <1>0, <1>1, <1>2, <1>6, <2>1
    <3> QED BY <3>1, WholeUnits
  <2>2. CASE j < k
    <3>1. ALIGN * j < ALIGN * k
      BY <1>0, <2>2
    <3> QED BY <1>0, <1>1, <1>2, <1>6, <3>1
  <2> QED BY <1>5, <2>1, <2>2
<1>7. ASSUME x < y PROVE x + ALIGN <= y
  <2>1. CASE k <= j
    <3>1. ALIGN * k <= ALIGN * j
      BY <1>0, <2>1
    <3> QED BY <1>0, <1>1, <1>2, <1>7, <3>1
  <2>2. CASE j < k
    <3>1. j + 1 <= k
      BY <2>2
    <3>2. ALIGN * (j + 1) <= ALIGN * k
      BY <1>0, <3>1
    <3>3. ALIGN * (j + 1) = ALIGN * j + ALIGN
      BY <1>0
    <3> QED BY <1>0, <1>1, <1>2, <3>2, <3>3
  <2> QED BY <1>5, <2>1, <2>2
<1> QED BY <1>4, <1>6, <1>7

(* The sizes of the arena and of a header.                                 *)
LEMMA Sizes ==
  /\ ALIGN \in Nat \ {0} /\ HDR \in Nat \ {0} /\ MIN_PAYLOAD \in Nat \ {0}
  /\ ARENA \in Nat \ {0} /\ SIZE_T \in Nat \ {0} /\ BASE \in Nat
  /\ Whole(BASE) /\ Whole(HDR) /\ Whole(ARENA) /\ Whole(SIZE_T) /\ Whole(BASE + ARENA)
  /\ ARENA > HDR + MIN_PAYLOAD /\ BASE + ARENA < SIZE_T
  /\ BASE + ARENA + ALIGN <= SIZE_T
<1>1. /\ ALIGN \in Nat \ {0} /\ HDR \in Nat \ {0} /\ MIN_PAYLOAD \in Nat \ {0}
      /\ ARENA \in Nat \ {0} /\ SIZE_T \in Nat \ {0} /\ BASE \in Nat
      /\ ARENA > HDR + MIN_PAYLOAD /\ SIZE_T > BASE + ARENA
  BY HeapConstants
<1>2. Whole(BASE) /\ Whole(HDR) /\ Whole(ARENA) /\ Whole(SIZE_T)
  BY <1>1, HeapConstants DEF Whole
<1>3. Whole(BASE + ARENA)
  BY <1>2, WholeSums
<1>4. BASE + ARENA < SIZE_T
  BY <1>1
<1>5. BASE + ARENA + ALIGN <= SIZE_T
  BY <1>2, <1>3, <1>4, WholeSums
<1> QED BY <1>1, <1>2, <1>3, <1>4, <1>5

(* Where a header may be.                                                  *)
LEMMA AddrFacts ==
  /\ \A a : a \in Addr <=> Whole(a) /\ BASE <= a /\ a < BASE + ARENA
  /\ NULL \notin Addr /\ BASE \in Addr
<1>1. ASSUME NEW a PROVE a \in Addr <=> Whole(a) /\ BASE <= a /\ a < BASE + ARENA
  BY Sizes DEF Addr, Whole
<1>2. NULL \notin Addr
  BY Sizes DEF Addr, NULL
<1>3. BASE \in Addr
  BY <1>1, Sizes
<1> QED BY <1>1, <1>2, <1>3

-----------------------------------------------------------------------------
(* The list.                                                               *)

(* A header of the list: its fields, its end and its successor.            *)
LEMMA BlockFacts ==
  ASSUME NEW H, Tile(H), NEW b \in Blocks(H)
  PROVE  /\ b \in Addr /\ b \in Nat /\ Whole(b) /\ H.hdr[b] \in Header /\ H.hdr[b].magic = TRUE
         /\ H.hdr[b].size \in 0..ARENA /\ Whole(H.hdr[b].size)
         /\ EndOf(H, b) \in Nat /\ EndOf(H, b) = b + HDR + H.hdr[b].size
         /\ EndOf(H, b) <= BASE + ARENA /\ Whole(EndOf(H, b))
         /\ H.hdr[b].next = NULL <=> EndOf(H, b) = BASE + ARENA
         /\ H.hdr[b].next # NULL =>
              /\ H.hdr[b].next = EndOf(H, b) /\ H.hdr[b].next \in Blocks(H)
              /\ H.hdr[H.hdr[b].next].prev = b
         /\ \A c \in Blocks(H) : c > b => c >= EndOf(H, b)
<1> DEFINE s == H.hdr[b].size
           e == EndOf(H, b)
           n == H.hdr[b].next
<1>1. b \in Addr /\ H.hdr[b] \in Header /\ H.hdr[b].magic
  BY DEF Tile, Heaps, Blocks
<1>2. Whole(b) /\ b \in Nat /\ s \in 0..ARENA /\ H.hdr[b].magic = TRUE
  BY <1>1, AddrFacts DEF Whole, Header
<1>3. /\ n = IF e = BASE + ARENA THEN NULL ELSE e
      /\ n # NULL => n \in Blocks(H) /\ H.hdr[n].prev = b
      /\ \A c \in Blocks(H) : c > b => c >= e
  BY DEF Tile, Tiled
<1>4. e \in Nat /\ e = b + HDR + s
  BY <1>2, Sizes DEF EndOf, PayloadOf
<1> HIDE DEF s, e, n
<1>5. e # BASE + ARENA => e \in Addr
  <2>1. SUFFICES ASSUME e # BASE + ARENA PROVE e \in Addr
    OBVIOUS
  <2>2. n = e /\ n # NULL
    BY <1>3, <1>4, <2>1 DEF NULL
  <2> QED BY <1>3, <2>2 DEF Blocks
<1>6. e <= BASE + ARENA /\ Whole(e)
  <2>1. CASE e = BASE + ARENA
    BY <2>1, Sizes
  <2>2. CASE e # BASE + ARENA
    <3>1. e \in Addr
      BY <1>5, <2>2
    <3> QED BY <3>1, <1>4, Sizes, AddrFacts
  <2> QED BY <2>1, <2>2
<1>7. Whole(s)
  <2>1. Whole(b + HDR)
    BY <1>2, Sizes, WholeSums
  <2>2. b + HDR <= e /\ e - (b + HDR) = s
    BY <1>2, <1>4, Sizes
  <2> QED BY <1>6, <2>1, <2>2, WholeSums
<1>8. n = NULL <=> e = BASE + ARENA
  BY <1>3, <1>4 DEF NULL
<1>9. n # NULL => n = e
  BY <1>3
<1> QED BY <1>1, <1>2, <1>3, <1>4, <1>6, <1>7, <1>8, <1>9 DEF s, e, n

(* Every header but the first is the successor of the one its prev link    *)
(* names.                                                                  *)
LEMMA PrevFacts ==
  ASSUME NEW H, Tile(H), NEW c \in Blocks(H)
  PROVE  /\ c = BASE => H.hdr[c].prev = NULL
         /\ c # BASE => /\ H.hdr[c].prev \in Blocks(H) /\ H.hdr[c].prev < c
                        /\ H.hdr[c].prev # NULL /\ H.hdr[H.hdr[c].prev].next = c
<1>1. c = BASE => H.hdr[c].prev = NULL
  BY DEF Tile, Tiled
<1>2. SUFFICES ASSUME c # BASE
               PROVE  /\ H.hdr[c].prev \in Blocks(H) /\ H.hdr[c].prev < c
                      /\ H.hdr[c].prev # NULL /\ H.hdr[H.hdr[c].prev].next = c
  BY <1>1
<1> DEFINE T == {b \in Blocks(H) : b < c}
<1>3. BASE \in Blocks(H) /\ BASE \in Nat /\ c \in Nat /\ BASE < c
  <2>1. BASE \in Blocks(H)
    BY DEF Tile, Tiled
  <2>2. c \in Addr /\ c \in Nat
    BY BlockFacts
  <2> QED BY <1>2, <2>1, <2>2, AddrFacts, Sizes
<1>4. T \subseteq 0..c /\ T # {}
  <2>1. ASSUME NEW b \in T PROVE b \in 0..c
    <3>1. b \in Blocks(H) /\ b < c
      OBVIOUS
    <3>2. b \in Nat
      BY <3>1, BlockFacts
    <3> QED BY <1>3, <3>1, <3>2
  <2>2. BASE \in T
    BY <1>3
  <2> QED BY <2>1, <2>2
<1>5. PICK p \in T : \A q \in T : q <= p
  <2> HIDE DEF T
  <2>1. T \in SUBSET (0..c)
    BY <1>4
  <2> QED BY <1>3, <1>4, <2>1, GreatestElement
<1>6. p \in Blocks(H) /\ p < c /\ p \in Nat
  BY <1>4, <1>5
<1> DEFINE e == EndOf(H, p)
<1>7. /\ e \in Nat /\ e = p + HDR + H.hdr[p].size /\ H.hdr[p].size \in Nat
      /\ c >= e /\ (H.hdr[p].next = NULL <=> e = BASE + ARENA)
      /\ H.hdr[p].next # NULL =>
           /\ H.hdr[p].next = e /\ H.hdr[p].next \in Blocks(H)
           /\ H.hdr[H.hdr[p].next].prev = p
  <2>1. H.hdr[p].size \in 0..ARENA
    BY <1>6, BlockFacts
  <2>2. H.hdr[p].size \in Nat
    BY <2>1, Sizes
  <2> QED BY <1>6, <2>2, BlockFacts
<1> HIDE DEF e, T
<1>8. c < BASE + ARENA /\ p < e
  <2>1. c \in Addr
    BY BlockFacts
  <2> QED BY <1>6, <1>7, <2>1, AddrFacts, Sizes
<1>9. H.hdr[p].next = e /\ e \in Blocks(H) /\ H.hdr[e].prev = p
  <2>1. e # BASE + ARENA
    BY <1>3, <1>7, <1>8, Sizes
  <2> QED BY <1>7, <2>1
<1>10. e = c
  <2>1. SUFFICES ASSUME e # c PROVE FALSE
    OBVIOUS
  <2>2. e < c
    BY <1>3, <1>7, <2>1
  <2>3. e \in T
    BY <1>9, <2>2 DEF T
  <2>4. e <= p
    BY <1>5, <2>3
  <2> QED BY <1>6, <1>7, <1>8, <2>4
<1> QED BY <1>6, <1>9, <1>10 DEF NULL

-----------------------------------------------------------------------------
(* Records of the arena.                                                   *)

(* An arena with other headers and another count of free blocks.           *)
Reheaded(H, f, m) == [H EXCEPT !.hdr = f, !.free = m]

(* Changing the headers and the count of free blocks leaves the rest.      *)
LEMMA NewHeaders ==
  ASSUME NEW H, H \in Heaps, NEW f, f \in [Addr -> Header], NEW m, m \in Int
  PROVE  /\ Reheaded(H, f, m) \in Heaps /\ Reheaded(H, f, m).hdr = f
         /\ Reheaded(H, f, m).in_use = H.in_use /\ Reheaded(H, f, m).peak = H.peak
         /\ Reheaded(H, f, m).used = H.used /\ Reheaded(H, f, m).free = m
<1> DEFINE S == [Addr -> Header]
           R == [hdr : S, in_use : Int, peak : Int, used : Int, free : Int]
<1>1. H \in R /\ f \in S
  BY DEF Heaps
<1> HIDE DEF S
<1>4. /\ Reheaded(H, f, m).hdr = f
      /\ Reheaded(H, f, m).in_use = H.in_use /\ Reheaded(H, f, m).peak = H.peak
      /\ Reheaded(H, f, m).used = H.used /\ Reheaded(H, f, m).free = m
  BY <1>1 DEF Reheaded
<1>5. Reheaded(H, f, m) \in R
  BY <1>1 DEF Reheaded
<1> QED BY <1>4, <1>5 DEF S, Heaps

-----------------------------------------------------------------------------
(* Cutting a block.                                                        *)

(* What CutAt(H, b, need) leaves at each address, r being the new header.  *)
IsCutAt(G, H, b, r, need) ==
  /\ G \in Heaps /\ r \in Addr /\ r \notin Blocks(H) /\ b # r
  /\ G.hdr[b].magic = TRUE /\ G.hdr[b].free = H.hdr[b].free
  /\ G.hdr[b].size = need /\ G.hdr[b].next = r /\ G.hdr[b].prev = H.hdr[b].prev
  /\ G.hdr[r].magic = TRUE /\ G.hdr[r].free = TRUE
  /\ G.hdr[r].size = H.hdr[b].size - need - HDR
  /\ G.hdr[r].prev = b /\ G.hdr[r].next = H.hdr[b].next
  /\ \A a \in Addr \ {b, r} :
       /\ G.hdr[a].magic = H.hdr[a].magic /\ G.hdr[a].free = H.hdr[a].free
       /\ G.hdr[a].size = H.hdr[a].size /\ G.hdr[a].next = H.hdr[a].next
       /\ G.hdr[a].prev = IF a = H.hdr[b].next THEN r ELSE H.hdr[a].prev
  /\ G.in_use = H.in_use /\ G.peak = H.peak /\ G.used = H.used /\ G.free = H.free + 1

(* The cut of split and of kmemalign, field by field.                      *)
LEMMA CutFields ==
  ASSUME NEW H, Tile(H), NEW b \in Blocks(H), NEW need, Whole(need),
         need + HDR <= H.hdr[b].size
  PROVE  /\ IsCutAt(CutAt(H, b, need), H, b, b + HDR + need, need)
         /\ Whole(b + HDR + need) /\ b + HDR + need < EndOf(H, b)
<1> DEFINE r == b + HDR + need
           old == H.hdr[b]
           n == old.next
           one == [old EXCEPT !.size = need, !.next = r]
           two == [magic |-> TRUE, free |-> TRUE, size |-> old.size - need - HDR,
                   prev |-> b, next |-> old.next]
           cut == [H.hdr EXCEPT ![b] = one, ![r] = two]
           hdr == Relink(cut, n, r)
           G == CutAt(H, b, need)
<1>1. /\ b \in Addr /\ b \in Nat /\ Whole(b) /\ old \in Header /\ old.magic = TRUE
      /\ old.size \in 0..ARENA /\ EndOf(H, b) \in Nat
      /\ EndOf(H, b) = b + HDR + old.size /\ EndOf(H, b) <= BASE + ARENA
      /\ n # NULL => n = EndOf(H, b) /\ n \in Blocks(H)
      /\ \A c \in Blocks(H) : c > b => c >= EndOf(H, b)
  BY BlockFacts
<1>2. need \in Nat /\ HDR \in Nat \ {0} /\ BASE \in Nat /\ ARENA \in Nat
  BY Sizes DEF Whole
<1>3. Whole(r) /\ b < r /\ r < EndOf(H, b) /\ r \in Nat
  <2>1. Whole(b + HDR)
    BY <1>1, Sizes, WholeSums
  <2>2. Whole(b + HDR + need)
    BY <2>1, WholeSums
  <2> QED BY <1>1, <1>2, <2>2
<1>4. r \in Addr /\ r \notin Blocks(H) /\ b # r
  <2>1. BASE <= b
    BY <1>1, AddrFacts
  <2>2. BASE <= r /\ r < BASE + ARENA
    BY <1>1, <1>2, <1>3, <2>1
  <2>3. r \notin Blocks(H)
    BY <1>1, <1>3
  <2> QED BY <1>3, <2>2, <2>3, AddrFacts
<1>5. H.hdr \in [Addr -> Header] /\ H \in Heaps
  BY DEF Tile, Heaps
<1>6. old.size - need - HDR \in 0..ARENA /\ need \in 0..ARENA
  BY <1>1, <1>2
<1>7. n \in Addr \cup {NULL} /\ n # r /\ n # b
  <2>1. n \in Addr \cup {NULL}
    BY <1>1 DEF Header
  <2>2. CASE n = NULL
    BY <1>1, <1>4, <2>1, <2>2, AddrFacts
  <2>3. CASE n # NULL
    BY <1>1, <1>3, <2>1, <2>3
  <2> QED BY <2>2, <2>3
<1> HIDE DEF r
<1>8. one \in Header /\ two \in Header
  BY <1>1, <1>4, <1>6 DEF Header
<1>9. /\ one.magic = TRUE /\ one.free = old.free /\ one.size = need /\ one.next = r
      /\ one.prev = old.prev
  BY <1>1 DEF Header
<1>10. /\ two.magic = TRUE /\ two.free = TRUE /\ two.size = old.size - need - HDR
       /\ two.prev = b /\ two.next = n
  OBVIOUS
<1> HIDE DEF one, two
<1>11. /\ cut \in [Addr -> Header] /\ cut[b] = one /\ cut[r] = two
       /\ \A a \in Addr \ {b, r} : cut[a] = H.hdr[a]
  BY <1>1, <1>4, <1>5, <1>8
<1> HIDE DEF cut, n
<1>12. /\ hdr \in [Addr -> Header] /\ hdr[b] = one /\ hdr[r] = two
       /\ \A a \in Addr \ {b, r} :
            /\ hdr[a].magic = H.hdr[a].magic /\ hdr[a].free = H.hdr[a].free
            /\ hdr[a].size = H.hdr[a].size /\ hdr[a].next = H.hdr[a].next
            /\ hdr[a].prev = IF a = n THEN r ELSE H.hdr[a].prev
  <2>1. CASE n = NULL
    <3>1. hdr = cut /\ \A a \in Addr : a # n
      BY <2>1, AddrFacts DEF Relink
    <3> QED BY <1>11, <3>1
  <2>2. CASE n # NULL
    <3>1. n \in Addr
      BY <1>7, <2>2
    <3>2. hdr = [cut EXCEPT ![n].prev = r]
      BY <2>2 DEF Relink
    <3>3. cut[n] \in Header
      BY <1>11, <3>1
    <3>4. hdr = [cut EXCEPT ![n] = [cut[n] EXCEPT !.prev = r]]
      BY <3>2
    <3> DEFINE x == [cut[n] EXCEPT !.prev = r]
    <3>5. /\ x \in Header /\ x.magic = cut[n].magic /\ x.free = cut[n].free
          /\ x.size = cut[n].size /\ x.next = cut[n].next /\ x.prev = r
      BY <1>4, <3>3 DEF Header
    <3> HIDE DEF x
    <3>6. hdr = [cut EXCEPT ![n] = x]
      BY <3>4 DEF x
    <3> HIDE DEF hdr
    <3>7. /\ hdr \in [Addr -> Header] /\ hdr[n] = x /\ DOMAIN hdr = Addr
          /\ \A a \in Addr : a # n => hdr[a] = cut[a]
      BY <1>11, <3>1, <3>5, <3>6
    <3> QED BY <1>1, <1>4, <1>7, <1>11, <3>1, <3>5, <3>7
  <2> QED BY <2>1, <2>2
<1> HIDE DEF hdr
<1>13. G = [H EXCEPT !.hdr = hdr, !.free = @ + 1]
  BY DEF CutAt, PayloadOf, hdr, cut, one, two, n, r
<1> HIDE DEF G
<1>14. /\ G \in Heaps /\ G.hdr = hdr /\ G.in_use = H.in_use /\ G.peak = H.peak
       /\ G.used = H.used /\ G.free = H.free + 1
  <2>1. hdr \in [Addr -> Header]
    BY <1>12
  <2>2. H.free + 1 \in Int /\ G = Reheaded(H, hdr, H.free + 1)
    BY <1>5, <1>13 DEF Reheaded, Heaps
  <2> QED BY <1>5, <2>1, <2>2, NewHeaders
<1>15. IsCutAt(G, H, b, r, need)
  BY <1>4, <1>9, <1>10, <1>12, <1>14 DEF IsCutAt, n
<1> QED BY <1>3, <1>15 DEF G, r

(* What a cut means for the list: one more block, free, and the rest of    *)
(* the list as it was.                                                     *)
IsCut(G, H, b, r, need) ==
  /\ Tile(G) /\ Blocks(G) = Blocks(H) \cup {r} /\ r \notin Blocks(H)
  /\ Whole(need) /\ r = b + HDR + need
  /\ G.hdr[b].size = need /\ G.hdr[b].free = H.hdr[b].free
  /\ G.hdr[r].size = H.hdr[b].size - need - HDR /\ G.hdr[r].free = TRUE
  /\ \A a \in Blocks(H) \ {b} :
       G.hdr[a].size = H.hdr[a].size /\ G.hdr[a].free = H.hdr[a].free
  /\ G.in_use = H.in_use /\ G.peak = H.peak /\ G.used = H.used /\ G.free = H.free + 1

(* A cut leaves a sound list: both links, the order and the ends.          *)
LEMMA CutTiles ==
  ASSUME NEW H, Tile(H), NEW b \in Blocks(H), NEW r, NEW need, NEW G,
         IsCutAt(G, H, b, r, need), Whole(need), r = b + HDR + need, r < EndOf(H, b)
  PROVE  IsCut(G, H, b, r, need)
<1> DEFINE n == H.hdr[b].next
           e == EndOf(H, b)
<1>1. /\ b \in Addr /\ b \in Nat /\ H.hdr[b].size \in 0..ARENA /\ e \in Nat
      /\ e = b + HDR + H.hdr[b].size /\ e <= BASE + ARENA
      /\ n = NULL <=> e = BASE + ARENA
      /\ n # NULL => n = e /\ n \in Blocks(H) /\ H.hdr[n].prev = b
      /\ \A c \in Blocks(H) : c > b => c >= e
  BY BlockFacts
<1>2. /\ need \in Nat /\ HDR \in Nat \ {0} /\ BASE \in Nat /\ ARENA \in Nat
      /\ r \in Nat /\ b < r /\ r < e
  BY <1>1, Sizes DEF Whole
<1>3. /\ G \in Heaps /\ r \in Addr /\ r \notin Blocks(H) /\ b # r
      /\ G.hdr[b].magic = TRUE /\ G.hdr[b].free = H.hdr[b].free
      /\ G.hdr[b].size = need /\ G.hdr[b].next = r /\ G.hdr[b].prev = H.hdr[b].prev
      /\ G.hdr[r].magic = TRUE /\ G.hdr[r].free = TRUE
      /\ G.hdr[r].size = H.hdr[b].size - need - HDR
      /\ G.hdr[r].prev = b /\ G.hdr[r].next = n
      /\ G.in_use = H.in_use /\ G.peak = H.peak /\ G.used = H.used /\ G.free = H.free + 1
  BY DEF IsCutAt
<1>4. \A a \in Addr \ {b, r} :
        /\ G.hdr[a].magic = H.hdr[a].magic /\ G.hdr[a].free = H.hdr[a].free
        /\ G.hdr[a].size = H.hdr[a].size /\ G.hdr[a].next = H.hdr[a].next
        /\ G.hdr[a].prev = IF a = n THEN r ELSE H.hdr[a].prev
  BY DEF IsCutAt
<1>5. Blocks(G) = Blocks(H) \cup {r}
  BY <1>1, <1>3, <1>4 DEF Blocks
<1>6. /\ EndOf(G, b) = r /\ EndOf(G, r) = e
      /\ \A a \in Blocks(H) \ {b} : EndOf(G, a) = EndOf(H, a)
  <2>1. EndOf(G, b) = r
    BY <1>1, <1>2, <1>3 DEF EndOf, PayloadOf
  <2>2. EndOf(G, r) = e
    BY <1>1, <1>2, <1>3 DEF EndOf, PayloadOf
  <2>3. ASSUME NEW a \in Blocks(H) \ {b} PROVE EndOf(G, a) = EndOf(H, a)
    BY <1>3, <1>4, <2>3 DEF EndOf, Blocks
  <2> QED BY <2>1, <2>2, <2>3
<1>7. \A a \in Blocks(H) \ {b} :
        G.hdr[a].size = H.hdr[a].size /\ G.hdr[a].free = H.hdr[a].free
  BY <1>3, <1>4 DEF Blocks
<1> HIDE DEF n, e
<1>8. BASE \in Blocks(G) /\ G.hdr[BASE].prev = NULL
  <2>1. BASE \in Blocks(H) /\ H.hdr[BASE].prev = NULL
    BY DEF Tile, Tiled
  <2>2. CASE BASE = b
    BY <1>3, <1>5, <2>1, <2>2
  <2>3. CASE BASE # b
    <3>1. BASE \in Addr \ {b, r}
      BY <1>3, <2>1, <2>3 DEF Blocks
    <3>2. BASE # n
      BY <1>1, <1>2, <2>1 DEF NULL
    <3> QED BY <1>4, <1>5, <2>1, <3>1, <3>2
  <2> QED BY <2>2, <2>3
<1>9. ASSUME NEW c \in Blocks(G)
      PROVE  /\ G.hdr[c].next = IF EndOf(G, c) = BASE + ARENA THEN NULL ELSE EndOf(G, c)
             /\ G.hdr[c].next # NULL =>
                  G.hdr[c].next \in Blocks(G) /\ G.hdr[G.hdr[c].next].prev = c
             /\ \A d \in Blocks(G) : d > c => d >= EndOf(G, c)
  <2>1. CASE c = b
    <3>1. r # BASE + ARENA
      BY <1>1, <1>2
    <3>2. ASSUME NEW d \in Blocks(G), d > b PROVE d >= r
      <4>1. d = r \/ d \in Blocks(H)
        BY <1>5
      <4>2. d \in Blocks(H) => d \in Nat
        BY BlockFacts
      <4> QED BY <1>1, <1>2, <3>2, <4>1, <4>2
    <3> QED BY <1>3, <1>5, <1>6, <2>1, <3>1, <3>2
  <2>2. CASE c = r
    <3>1. n # NULL => n \in Blocks(G) /\ G.hdr[n].prev = r
      <4>1. SUFFICES ASSUME n # NULL PROVE n \in Blocks(G) /\ G.hdr[n].prev = r
        OBVIOUS
      <4>2. n \in Blocks(H) /\ n = e
        BY <1>1, <4>1
      <4>3. n \in Addr \ {b, r}
        BY <1>1, <1>2, <4>2 DEF Blocks
      <4> QED BY <1>4, <1>5, <4>2, <4>3
    <3>2. ASSUME NEW d \in Blocks(G), d > r PROVE d >= e
      <4>1. d = r \/ d \in Blocks(H)
        BY <1>5
      <4>2. d \in Blocks(H) => d \in Nat
        BY BlockFacts
      <4> QED BY <1>1, <1>2, <3>2, <4>1, <4>2
    <3>3. n = IF e = BASE + ARENA THEN NULL ELSE e
      BY <1>1
    <3> QED BY <1>3, <1>6, <2>2, <3>1, <3>2, <3>3
  <2>3. CASE c # b /\ c # r
    <3> DEFINE m == H.hdr[c].next
               f == EndOf(H, c)
    <3>1. c \in Blocks(H) /\ c \in Addr \ {b, r}
      BY <1>5, <2>3 DEF Blocks
    <3>2. EndOf(G, c) = f /\ G.hdr[c].next = m
      BY <1>4, <1>6, <2>3, <3>1
    <3>3. /\ m = IF f = BASE + ARENA THEN NULL ELSE f
          /\ m # NULL => m \in Blocks(H) /\ H.hdr[m].prev = c
          /\ \A d \in Blocks(H) : d > c => d >= f
      BY <3>1 DEF Tile, Tiled
    <3>4. f \in Nat /\ c \in Nat
      BY <3>1, BlockFacts
    <3> HIDE DEF m, f
    <3>5. m # NULL => m \in Blocks(G) /\ G.hdr[m].prev = c
      <4>1. SUFFICES ASSUME m # NULL PROVE m \in Blocks(G) /\ G.hdr[m].prev = c
        OBVIOUS
      <4>2. m \in Blocks(H) /\ H.hdr[m].prev = c
        BY <3>3, <4>1
      <4>3. CASE m = b
        BY <1>3, <1>5, <4>2, <4>3
      <4>4. CASE m # b
        <5>1. m # n
          BY <1>1, <2>3, <4>1, <4>2
        <5>2. m \in Addr \ {b, r}
          BY <1>3, <4>2, <4>4 DEF Blocks
        <5> QED BY <1>4, <1>5, <4>2, <5>1, <5>2
      <4> QED BY <4>3, <4>4
    <3>6. ASSUME NEW d \in Blocks(G), d > c PROVE d >= f
      <4>1. CASE d \in Blocks(H)
        BY <3>3, <3>6, <4>1
      <4>2. CASE d = r
        <5>1. CASE c > b
          BY <1>1, <1>2, <3>1, <3>4, <3>6, <4>2, <5>1
        <5>2. CASE c < b
          <6>1. b >= f
            BY <3>3, <5>2
          <6> QED BY <1>1, <1>2, <3>4, <4>2, <6>1
        <5> QED BY <1>1, <2>3, <3>4, <5>1, <5>2
      <4> QED BY <1>5, <4>1, <4>2
    <3> QED BY <3>2, <3>3, <3>5, <3>6
  <2> QED BY <2>1, <2>2, <2>3
<1>10. Tile(G)
  BY <1>3, <1>8, <1>9 DEF Tile, Tiled
<1> QED BY <1>3, <1>5, <1>7, <1>10 DEF IsCut

-----------------------------------------------------------------------------
(* Joining a block with its successor.                                     *)

(* What coalesce_next(H, b) leaves at each address, n being absorbed.      *)
IsJoinAt(G, H, b, n) ==
  /\ G \in Heaps
  /\ G.hdr[b].magic = TRUE /\ G.hdr[b].free = H.hdr[b].free
  /\ G.hdr[b].size = H.hdr[b].size + HDR + H.hdr[n].size
  /\ G.hdr[b].next = H.hdr[n].next /\ G.hdr[b].prev = H.hdr[b].prev
  /\ G.hdr[n].magic = FALSE
  /\ \A a \in Addr \ {b, n} :
       /\ G.hdr[a].magic = H.hdr[a].magic /\ G.hdr[a].free = H.hdr[a].free
       /\ G.hdr[a].size = H.hdr[a].size /\ G.hdr[a].next = H.hdr[a].next
       /\ G.hdr[a].prev = IF a = H.hdr[n].next THEN b ELSE H.hdr[a].prev
  /\ G.in_use = H.in_use /\ G.peak = H.peak /\ G.used = H.used /\ G.free = H.free - 1

(* What a join means for the list: the absorbed header is gone.            *)
IsJoin(G, H, b, n) ==
  /\ Tile(G) /\ Blocks(G) = Blocks(H) \ {n} /\ n \in Blocks(H) /\ n # b
  /\ G.hdr[b].size = H.hdr[b].size + HDR + H.hdr[n].size
  /\ G.hdr[b].free = H.hdr[b].free
  /\ \A a \in Blocks(H) \ {b, n} :
       G.hdr[a].size = H.hdr[a].size /\ G.hdr[a].free = H.hdr[a].free
  /\ G.in_use = H.in_use /\ G.peak = H.peak /\ G.used = H.used /\ G.free = H.free - 1

(* The successor of a block and the one after it.                          *)
LEMMA NextFacts ==
  ASSUME NEW H, Tile(H), NEW b \in Blocks(H), NEW n, n = H.hdr[b].next, n # NULL
  PROVE  /\ n \in Blocks(H) /\ n = EndOf(H, b) /\ b < n /\ H.hdr[n].prev = b
         /\ EndOf(H, n) = b + HDR + (H.hdr[b].size + HDR + H.hdr[n].size)
         /\ H.hdr[b].size + HDR + H.hdr[n].size \in 0..ARENA
         /\ H.hdr[n].next # NULL => H.hdr[n].next > n
<1>1. /\ n \in Blocks(H) /\ n = EndOf(H, b) /\ H.hdr[n].prev = b /\ b \in Addr
      /\ H.hdr[b].size \in 0..ARENA /\ EndOf(H, b) = b + HDR + H.hdr[b].size
  BY BlockFacts
<1>2. /\ n \in Nat /\ H.hdr[n].size \in 0..ARENA
      /\ EndOf(H, n) = n + HDR + H.hdr[n].size /\ EndOf(H, n) <= BASE + ARENA
      /\ H.hdr[n].next # NULL => H.hdr[n].next = EndOf(H, n)
  BY <1>1, BlockFacts
<1>3. b \in Nat /\ BASE <= b
  BY <1>1, AddrFacts DEF Whole
<1> DEFINE s == H.hdr[b].size
           t == H.hdr[n].size
<1>4. /\ s \in 0..ARENA /\ t \in 0..ARENA /\ n = b + HDR + s /\ n + HDR + t <= BASE + ARENA
      /\ EndOf(H, n) = n + HDR + t
  BY <1>1, <1>2
<1> HIDE DEF s, t
<1>5. HDR \in Nat \ {0} /\ BASE \in Nat /\ ARENA \in Nat
  BY Sizes
<1>6. b < n /\ n + HDR + t = b + HDR + (s + HDR + t) /\ s + HDR + t \in 0..ARENA
  BY <1>2, <1>3, <1>4, <1>5
<1>7. H.hdr[n].next # NULL => H.hdr[n].next > n
  BY <1>2, <1>4, <1>5
<1> QED BY <1>1, <1>4, <1>6, <1>7 DEF s, t

(* A join, field by field.                                                 *)
LEMMA JoinFields ==
  ASSUME NEW H, Tile(H), NEW b \in Blocks(H), NEW n, n = H.hdr[b].next, n # NULL,
         H.hdr[n].free = TRUE
  PROVE  IsJoinAt(coalesce_next(H, b), H, b, n)
<1> DEFINE old == H.hdr[b]
           gone == H.hdr[n]
           k == gone.next
           size == old.size + HDR + gone.size
           one == [old EXCEPT !.size = size, !.next = k]
           cut == [H.hdr EXCEPT ![b] = one, ![n] = NoHeader]
           hdr == Relink(cut, k, b)
           G == coalesce_next(H, b)
<1>1. /\ n \in Blocks(H) /\ b < n /\ size \in 0..ARENA
      /\ k # NULL => k > n
  BY NextFacts
<1>2. /\ b \in Addr /\ b \in Nat /\ old \in Header /\ old.magic = TRUE
  BY BlockFacts
<1>3. n \in Addr /\ n \in Nat /\ gone \in Header /\ n # b
  <2>1. n \in Addr /\ n \in Nat /\ gone \in Header
    BY <1>1, BlockFacts
  <2> QED BY <1>1, <1>2, <2>1
<1>4. H.hdr \in [Addr -> Header] /\ H \in Heaps
  BY DEF Tile, Heaps
<1>5. k \in Addr \cup {NULL} /\ k # n /\ k # b
  <2>1. k \in Addr \cup {NULL}
    BY <1>3 DEF Header
  <2>2. CASE k = NULL
    BY <1>2, <1>3, <2>1, <2>2, AddrFacts
  <2>3. CASE k # NULL
    <3>1. k \in Addr /\ k > n
      BY <1>1, <2>1, <2>3
    <3>2. k \in Nat
      BY <3>1, AddrFacts DEF Whole
    <3> QED BY <1>1, <1>2, <1>3, <3>1, <3>2
  <2> QED BY <2>2, <2>3
<1> HIDE DEF k, size
<1>6. one \in Header /\ NoHeader \in Header /\ NoHeader.magic = FALSE
  <2>1. NoHeader \in Header /\ NoHeader.magic = FALSE
    <3>1. 0 \in 0..ARENA
      BY Sizes
    <3> QED BY <3>1 DEF Header, NoHeader
  <2>2. one \in Header
    BY <1>1, <1>2, <1>5 DEF Header
  <2> QED BY <2>1, <2>2
<1>7. /\ one.magic = TRUE /\ one.free = old.free /\ one.size = size /\ one.next = k
      /\ one.prev = old.prev
  BY <1>2 DEF Header
<1> HIDE DEF one
<1>8. /\ cut \in [Addr -> Header] /\ cut[b] = one /\ cut[n] = NoHeader
      /\ \A a \in Addr \ {b, n} : cut[a] = H.hdr[a]
  BY <1>2, <1>3, <1>4, <1>6
<1> HIDE DEF cut
<1>9. /\ hdr \in [Addr -> Header] /\ hdr[b] = one /\ hdr[n].magic = FALSE
      /\ \A a \in Addr \ {b, n} :
            /\ hdr[a].magic = H.hdr[a].magic /\ hdr[a].free = H.hdr[a].free
            /\ hdr[a].size = H.hdr[a].size /\ hdr[a].next = H.hdr[a].next
            /\ hdr[a].prev = IF a = k THEN b ELSE H.hdr[a].prev
  <2>1. CASE k = NULL
    <3>1. hdr = cut /\ \A a \in Addr : a # k
      BY <2>1, AddrFacts DEF Relink
    <3> QED BY <1>6, <1>8, <3>1
  <2>2. CASE k # NULL
    <3>1. k \in Addr
      BY <1>5, <2>2
    <3>2. hdr = [cut EXCEPT ![k].prev = b]
      BY <2>2 DEF Relink
    <3>3. cut[k] \in Header
      BY <1>8, <3>1
    <3>4. hdr = [cut EXCEPT ![k] = [cut[k] EXCEPT !.prev = b]]
      BY <3>2
    <3> DEFINE x == [cut[k] EXCEPT !.prev = b]
    <3>5. /\ x \in Header /\ x.magic = cut[k].magic /\ x.free = cut[k].free
          /\ x.size = cut[k].size /\ x.next = cut[k].next /\ x.prev = b
      BY <1>2, <3>3 DEF Header
    <3> HIDE DEF x
    <3>6. hdr = [cut EXCEPT ![k] = x]
      BY <3>4 DEF x
    <3> HIDE DEF hdr
    <3>7. /\ hdr \in [Addr -> Header] /\ hdr[k] = x /\ DOMAIN hdr = Addr
          /\ \A a \in Addr : a # k => hdr[a] = cut[a]
      BY <1>8, <3>1, <3>5, <3>6
    <3> QED BY <1>2, <1>3, <1>5, <1>6, <1>8, <3>1, <3>5, <3>7
  <2> QED BY <2>1, <2>2
<1> HIDE DEF hdr
<1>10. G = Reheaded(H, hdr, H.free - 1)
  <2>1. G = [H EXCEPT !.hdr = hdr, !.free = @ - 1]
    BY DEF coalesce_next, hdr, cut, one, size, k
  <2> QED BY <1>4, <2>1 DEF Reheaded, Heaps
<1> HIDE DEF G
<1>11. /\ G \in Heaps /\ G.hdr = hdr /\ G.in_use = H.in_use /\ G.peak = H.peak
       /\ G.used = H.used /\ G.free = H.free - 1
  <2>1. hdr \in [Addr -> Header]
    BY <1>9
  <2>2. H.free - 1 \in Int
    BY <1>4 DEF Heaps
  <2> QED BY <1>4, <1>10, <2>1, <2>2, NewHeaders
<1>12. IsJoinAt(G, H, b, n)
  BY <1>7, <1>9, <1>11 DEF IsJoinAt, k, size
<1> QED BY <1>12 DEF G

(* A join leaves a sound list.                                             *)
LEMMA JoinTiles ==
  ASSUME NEW H, Tile(H), NEW b \in Blocks(H), NEW n, n = H.hdr[b].next, n # NULL,
         NEW G, IsJoinAt(G, H, b, n)
  PROVE  IsJoin(G, H, b, n)
<1> DEFINE k == H.hdr[n].next
           e == EndOf(H, n)
           size == H.hdr[b].size + HDR + H.hdr[n].size
<1>1. /\ n \in Blocks(H) /\ n = EndOf(H, b) /\ b < n /\ H.hdr[n].prev = b
      /\ e = b + HDR + size /\ size \in 0..ARENA
      /\ k # NULL => k > n
  BY NextFacts
<1>2. b \in Addr /\ b \in Nat /\ \A c \in Blocks(H) : c > b => c >= n
  <2>1. b \in Addr /\ b \in Nat /\ \A c \in Blocks(H) : c > b => c >= EndOf(H, b)
    BY BlockFacts
  <2> QED BY <1>1, <2>1
<1>3. /\ n \in Addr /\ n \in Nat /\ e \in Nat
      /\ k = NULL <=> e = BASE + ARENA
      /\ k # NULL => k = e /\ k \in Blocks(H) /\ H.hdr[k].prev = n
      /\ \A c \in Blocks(H) : c > n => c >= e
  BY <1>1, BlockFacts
<1>4. /\ G \in Heaps
      /\ G.hdr[b].magic = TRUE /\ G.hdr[b].free = H.hdr[b].free
      /\ G.hdr[b].size = size /\ G.hdr[b].next = k /\ G.hdr[b].prev = H.hdr[b].prev
      /\ G.hdr[n].magic = FALSE
      /\ G.in_use = H.in_use /\ G.peak = H.peak /\ G.used = H.used /\ G.free = H.free - 1
  BY DEF IsJoinAt
<1>5. \A a \in Addr \ {b, n} :
        /\ G.hdr[a].magic = H.hdr[a].magic /\ G.hdr[a].free = H.hdr[a].free
        /\ G.hdr[a].size = H.hdr[a].size /\ G.hdr[a].next = H.hdr[a].next
        /\ G.hdr[a].prev = IF a = k THEN b ELSE H.hdr[a].prev
  BY DEF IsJoinAt
<1>6. HDR \in Nat \ {0} /\ BASE \in Nat /\ ARENA \in Nat
  BY Sizes
<1>7. Blocks(G) = Blocks(H) \ {n} /\ n # b
  BY <1>1, <1>2, <1>3, <1>4, <1>5 DEF Blocks
<1>8. EndOf(G, b) = e /\ \A a \in Blocks(H) \ {b, n} : EndOf(G, a) = EndOf(H, a)
  <2>1. EndOf(G, b) = e
    BY <1>1, <1>4 DEF EndOf, PayloadOf
  <2>2. ASSUME NEW a \in Blocks(H) \ {b, n} PROVE EndOf(G, a) = EndOf(H, a)
    BY <1>5, <2>2 DEF EndOf, Blocks
  <2> QED BY <2>1, <2>2
<1>9. \A a \in Blocks(H) \ {b, n} :
        G.hdr[a].size = H.hdr[a].size /\ G.hdr[a].free = H.hdr[a].free
  BY <1>5 DEF Blocks
<1> HIDE DEF k, e, size
<1>10. BASE \in Blocks(G) /\ G.hdr[BASE].prev = NULL
  <2>1. BASE \in Blocks(H) /\ H.hdr[BASE].prev = NULL
    BY DEF Tile, Tiled
  <2>2. BASE # n
    BY <1>1, <1>2, <2>1 DEF NULL
  <2>3. CASE BASE = b
    BY <1>4, <1>7, <2>1, <2>3
  <2>4. CASE BASE # b
    <3>1. BASE \in Addr \ {b, n}
      BY <2>1, <2>2, <2>4 DEF Blocks
    <3>2. BASE # k
      BY <1>3, <1>6, <2>1 DEF NULL
    <3> QED BY <1>5, <1>7, <2>1, <3>1, <3>2
  <2> QED BY <2>3, <2>4
<1>11. ASSUME NEW c \in Blocks(G)
       PROVE  /\ G.hdr[c].next = IF EndOf(G, c) = BASE + ARENA THEN NULL ELSE EndOf(G, c)
              /\ G.hdr[c].next # NULL =>
                   G.hdr[c].next \in Blocks(G) /\ G.hdr[G.hdr[c].next].prev = c
              /\ \A d \in Blocks(G) : d > c => d >= EndOf(G, c)
  <2>0. c \in Blocks(H) /\ c # n
    BY <1>7
  <2>1. CASE c = b
    <3>1. k = IF e = BASE + ARENA THEN NULL ELSE e
      BY <1>3
    <3>2. k # NULL => k \in Blocks(G) /\ G.hdr[k].prev = b
      <4>1. SUFFICES ASSUME k # NULL PROVE k \in Blocks(G) /\ G.hdr[k].prev = b
        OBVIOUS
      <4>2. k \in Blocks(H) /\ k # n /\ k # b
        BY <1>1, <1>2, <1>3, <4>1
      <4>3. k \in Addr \ {b, n}
        BY <4>2 DEF Blocks
      <4> QED BY <1>5, <1>7, <4>2, <4>3
    <3>3. ASSUME NEW d \in Blocks(G), d > b PROVE d >= e
      <4>1. d \in Blocks(H) /\ d # n /\ d >= n
        BY <1>2, <1>7, <3>3
      <4>2. d \in Nat
        BY <4>1, BlockFacts
      <4> QED BY <1>3, <4>1, <4>2
    <3> QED BY <1>4, <1>8, <2>1, <3>1, <3>2, <3>3
  <2>2. CASE c # b
    <3> DEFINE m == H.hdr[c].next
               f == EndOf(H, c)
    <3>1. c \in Addr \ {b, n}
      BY <2>0, <2>2 DEF Blocks
    <3>2. EndOf(G, c) = f /\ G.hdr[c].next = m
      BY <1>5, <1>8, <2>0, <2>2, <3>1
    <3>3. /\ m = IF f = BASE + ARENA THEN NULL ELSE f
          /\ m # NULL => m \in Blocks(H) /\ H.hdr[m].prev = c
          /\ \A d \in Blocks(H) : d > c => d >= f
      BY <2>0 DEF Tile, Tiled
    <3> HIDE DEF m, f
    <3>4. m # NULL => m \in Blocks(G) /\ G.hdr[m].prev = c
      <4>1. SUFFICES ASSUME m # NULL PROVE m \in Blocks(G) /\ G.hdr[m].prev = c
        OBVIOUS
      <4>2. m \in Blocks(H) /\ H.hdr[m].prev = c /\ m # n
        BY <1>1, <2>2, <3>3, <4>1
      <4>3. CASE m = b
        BY <1>4, <1>7, <4>2, <4>3
      <4>4. CASE m # b
        <5>1. m # k
          BY <1>3, <2>0, <4>1, <4>2
        <5>2. m \in Addr \ {b, n}
          BY <4>2, <4>4 DEF Blocks
        <5> QED BY <1>5, <1>7, <4>2, <5>1, <5>2
      <4> QED BY <4>3, <4>4
    <3>5. \A d \in Blocks(G) : d > c => d >= f
      BY <1>7, <3>3
    <3> QED BY <3>2, <3>3, <3>4, <3>5
  <2> QED BY <2>1, <2>2
<1>12. Tile(G)
  BY <1>4, <1>10, <1>11 DEF Tile, Tiled
<1> QED BY <1>1, <1>4, <1>7, <1>9, <1>12 DEF IsJoin, size

-----------------------------------------------------------------------------
(* Marking a block and the statistics.                                     *)

Marked(H, b, v, i, k, u, f) ==
  [H EXCEPT !.hdr = [H.hdr EXCEPT ![b] = [H.hdr[b] EXCEPT !.free = v]],
            !.in_use = i, !.peak = k, !.used = u, !.free = f]

(* The same list with block b marked free or in use.                       *)
IsMark(G, H, b, v) ==
  /\ Tile(G) /\ Blocks(G) = Blocks(H) /\ b \in Blocks(H) /\ G.hdr[b].free = v
  /\ \A a \in Blocks(H) : G.hdr[a].size = H.hdr[a].size
  /\ \A a \in Blocks(H) \ {b} : G.hdr[a].free = H.hdr[a].free

(* Marking a block changes neither its place nor its links.                *)
LEMMA MarkTiles ==
  ASSUME NEW H, Tile(H), NEW b \in Blocks(H), NEW v \in BOOLEAN,
         NEW i \in Int, NEW k \in Int, NEW u \in Int, NEW f \in Int,
         NEW G, G = Marked(H, b, v, i, k, u, f)
  PROVE  /\ IsMark(G, H, b, v)
         /\ G.in_use = i /\ G.peak = k /\ G.used = u /\ G.free = f
<1> DEFINE S == [Addr -> Header]
           R == [hdr : S, in_use : Int, peak : Int, used : Int, free : Int]
           x == [H.hdr[b] EXCEPT !.free = v]
           hdr == [H.hdr EXCEPT ![b] = x]
<1>1. H \in R /\ H.hdr \in S
  BY DEF Heaps, Tile
<1>2. b \in Addr /\ H.hdr[b] \in Header
  BY BlockFacts
<1>3. /\ x \in Header /\ x.magic = H.hdr[b].magic /\ x.size = H.hdr[b].size
      /\ x.prev = H.hdr[b].prev /\ x.next = H.hdr[b].next /\ x.free = v
  BY <1>2 DEF Header
<1>4. G = [H EXCEPT !.hdr = hdr, !.in_use = i, !.peak = k, !.used = u, !.free = f]
  BY DEF Marked
<1> HIDE DEF x
<1>5. hdr \in S /\ hdr[b] = x /\ \A a \in Addr : a # b => hdr[a] = H.hdr[a]
  BY <1>1, <1>2, <1>3
<1> HIDE DEF S, hdr
<1>6. /\ G.hdr = hdr /\ G.in_use = i /\ G.peak = k /\ G.used = u /\ G.free = f
  BY <1>1, <1>4, <1>5
<1>7. G \in R
  BY <1>1, <1>4, <1>5
<1>8. G \in Heaps
  BY <1>7 DEF Heaps, S
<1>9. \A a \in Addr :
        /\ G.hdr[a].magic = H.hdr[a].magic /\ G.hdr[a].size = H.hdr[a].size
        /\ G.hdr[a].prev = H.hdr[a].prev /\ G.hdr[a].next = H.hdr[a].next
  BY <1>3, <1>5, <1>6
<1>10. Blocks(G) = Blocks(H)
  BY <1>9 DEF Blocks
<1>11. \A a \in Addr : EndOf(G, a) = EndOf(H, a)
  BY <1>9 DEF EndOf
<1>12. Blocks(H) \subseteq Addr
  BY DEF Blocks
<1>13. Tiled(G)
  <2>0. BASE \in Blocks(H) /\ H.hdr[BASE].prev = NULL
    BY DEF Tile, Tiled
  <2>1. BASE \in Blocks(G) /\ G.hdr[BASE].prev = NULL
    BY <1>9, <1>10, <1>12, <2>0
  <2>2. ASSUME NEW c \in Blocks(G)
        PROVE  /\ G.hdr[c].next = IF EndOf(G, c) = BASE + ARENA THEN NULL ELSE EndOf(G, c)
               /\ G.hdr[c].next # NULL =>
                    G.hdr[c].next \in Blocks(G) /\ G.hdr[G.hdr[c].next].prev = c
               /\ \A d \in Blocks(G) : d > c => d >= EndOf(G, c)
    <3> DEFINE m == H.hdr[c].next
    <3>1. c \in Blocks(H) /\ c \in Addr
      BY <1>10, <1>12
    <3>2. /\ m = IF EndOf(H, c) = BASE + ARENA THEN NULL ELSE EndOf(H, c)
          /\ m # NULL => m \in Blocks(H) /\ H.hdr[m].prev = c
          /\ \A d \in Blocks(H) : d > c => d >= EndOf(H, c)
      BY <3>1 DEF Tile, Tiled
    <3>3. EndOf(G, c) = EndOf(H, c) /\ G.hdr[c].next = m
      BY <1>9, <1>11, <3>1
    <3> HIDE DEF m
    <3>4. m # NULL => m \in Blocks(G) /\ G.hdr[m].prev = c
      BY <1>9, <1>10, <1>12, <3>2
    <3> QED BY <1>10, <3>2, <3>3, <3>4
  <2> QED BY <2>1, <2>2 DEF Tiled
<1>14. Tile(G)
  BY <1>8, <1>13 DEF Tile
<1>15. \A a \in Blocks(H) \ {b} : G.hdr[a].free = H.hdr[a].free
  BY <1>5, <1>6, <1>12
<1>16. G.hdr[b].free = v
  BY <1>3, <1>5, <1>6
<1> QED BY <1>6, <1>9, <1>10, <1>12, <1>14, <1>15, <1>16 DEF IsMark

(* The larger of two numbers.                                              *)
LEMMA MaxOfTwo ==
  ASSUME NEW x \in Int, NEW y \in Int
  PROVE  Max({x, y}) \in {x, y} /\ Max({x, y}) >= x /\ Max({x, y}) >= y
<1> DEFINE P(m) == m \in {x, y} /\ \A z \in {x, y} : m >= z
<1>1. \E m : P(m)
  <2>1. CASE x >= y
    <3>1. P(x)
      BY <2>1
    <3> QED BY <3>1
  <2>2. CASE ~(x >= y)
    <3>1. P(y)
      BY <2>2
    <3> QED BY <3>1
  <2> QED BY <2>1, <2>2
<1>2. Max({x, y}) = CHOOSE m : P(m)
  BY Zenon DEF Max
<1> HIDE DEF P
<1>3. P(Max({x, y}))
  BY <1>1, <1>2, Zenon
<1> QED BY <1>3 DEF P

(* The least of a set of blocks is one of them.                            *)
LEMMA MinOfBlocks ==
  ASSUME NEW S, S \subseteq Addr, S # {}
  PROVE  Min(S) \in S
<1>1. S \subseteq 0..(BASE + ARENA)
  <2>1. ASSUME NEW a \in S PROVE a \in 0..(BASE + ARENA)
    <3>1. Whole(a) /\ a < BASE + ARENA
      BY AddrFacts
    <3> QED BY <3>1, Sizes DEF Whole
  <2> QED BY <2>1
<1>2. \E m \in S : \A z \in S : m <= z
  <2>1. BASE + ARENA \in Nat
    BY Sizes
  <2> QED BY <1>1, <2>1, LeastElement
<1> QED BY <1>2, Zenon DEF Min

-----------------------------------------------------------------------------
(* Counting blocks.                                                        *)

Idle(H) == Blocks(H) \ Used(H)

Counted(H) == H.used = Cardinality(Used(H)) /\ H.free = Cardinality(Idle(H))

(* The blocks are finitely many.                                           *)
LEMMA BlocksFinite ==
  ASSUME NEW H
  PROVE  /\ IsFiniteSet(Blocks(H)) /\ IsFiniteSet(Used(H)) /\ IsFiniteSet(Idle(H))
         /\ Cardinality(Used(H)) \in Nat /\ Cardinality(Idle(H)) \in Nat
<1>1. IsFiniteSet(BASE..(BASE + ARENA - 1))
  BY Sizes, FS_Interval
<1>2. /\ Blocks(H) \in SUBSET (BASE..(BASE + ARENA - 1))
      /\ Used(H) \in SUBSET Blocks(H) /\ Idle(H) \in SUBSET Blocks(H)
  BY DEF Blocks, Addr, Used, Idle
<1>3. IsFiniteSet(Blocks(H))
  BY <1>1, <1>2, FS_Subset
<1>4. IsFiniteSet(Used(H)) /\ IsFiniteSet(Idle(H))
  BY <1>2, <1>3, FS_Subset
<1> QED BY <1>3, <1>4, FS_CardinalityType

(* A free flag is a truth value.                                           *)
LEMMA FreeFlag ==
  ASSUME NEW H, Tile(H), NEW b \in Blocks(H)
  PROVE  H.hdr[b].free \in BOOLEAN
<1>1. H.hdr[b] \in Header
  BY BlockFacts
<1> QED BY <1>1 DEF Header

(* A cut adds a free block to the count and no block in use.               *)
LEMMA CutCounts ==
  ASSUME NEW H, Tile(H), Counted(H), NEW b \in Blocks(H), NEW r, NEW need, NEW G,
         IsCut(G, H, b, r, need)
  PROVE  Counted(G) /\ Used(G) = Used(H)
<1>1. \A a \in Blocks(H) : G.hdr[a].free = H.hdr[a].free
  BY DEF IsCut
<1>2. Blocks(G) = Blocks(H) \cup {r} /\ r \notin Blocks(H) /\ G.hdr[r].free = TRUE
  BY DEF IsCut
<1>3. Used(G) = Used(H)
  BY <1>1, <1>2 DEF Used
<1>4. Idle(G) = Idle(H) \cup {r} /\ r \notin Idle(H)
  BY <1>2, <1>3 DEF Idle, Used
<1>5. Cardinality(Idle(G)) = Cardinality(Idle(H)) + 1
  BY <1>4, BlocksFinite, FS_AddElement
<1>6. G.used = H.used /\ G.free = H.free + 1
  BY DEF IsCut
<1> QED BY <1>3, <1>5, <1>6 DEF Counted

(* A join takes a free block out of the count and no block in use.         *)
LEMMA JoinCounts ==
  ASSUME NEW H, Tile(H), Counted(H), NEW b \in Blocks(H), NEW n, NEW G,
         IsJoin(G, H, b, n), H.hdr[n].free = TRUE
  PROVE  Counted(G) /\ Used(G) = Used(H)
<1>1. /\ Blocks(G) = Blocks(H) \ {n} /\ n \in Blocks(H)
      /\ \A a \in Blocks(G) : G.hdr[a].free = H.hdr[a].free
  BY DEF IsJoin
<1>2. Used(G) = Used(H)
  BY <1>1 DEF Used
<1>3. Idle(G) = Idle(H) \ {n} /\ n \in Idle(H)
  BY <1>1, <1>2 DEF Idle, Used
<1>4. Cardinality(Idle(G)) = Cardinality(Idle(H)) - 1
  BY <1>3, BlocksFinite, FS_RemoveElement
<1>5. G.used = H.used /\ G.free = H.free - 1
  BY DEF IsJoin
<1> QED BY <1>2, <1>4, <1>5 DEF Counted

(* Taking a free block into use moves it from one count to the other.      *)
LEMMA TakeCounts ==
  ASSUME NEW H, Tile(H), Counted(H), NEW b, NEW G, IsMark(G, H, b, FALSE),
         H.hdr[b].free = TRUE, G.used = H.used + 1, G.free = H.free - 1
  PROVE  Counted(G) /\ Used(G) = Used(H) \cup {b} /\ b \notin Used(H)
<1>1. /\ Blocks(G) = Blocks(H) /\ b \in Blocks(H) /\ G.hdr[b].free = FALSE
      /\ \A a \in Blocks(H) \ {b} : G.hdr[a].free = H.hdr[a].free
  BY DEF IsMark
<1>2. Used(G) = Used(H) \cup {b} /\ b \notin Used(H)
  BY <1>1 DEF Used
<1>3. Idle(G) = Idle(H) \ {b} /\ b \in Idle(H)
  BY <1>1, <1>2 DEF Idle
<1>4. Cardinality(Used(G)) = Cardinality(Used(H)) + 1
  <2>1. IsFiniteSet(Used(H))
    BY BlocksFinite
  <2> QED BY <1>2, <2>1, FS_AddElement
<1>5. Cardinality(Idle(G)) = Cardinality(Idle(H)) - 1
  BY <1>3, BlocksFinite, FS_RemoveElement
<1> QED BY <1>2, <1>4, <1>5 DEF Counted

(* Freeing a block moves it back.                                          *)
LEMMA FreeCounts ==
  ASSUME NEW H, Tile(H), Counted(H), NEW b, NEW G, IsMark(G, H, b, TRUE),
         b \in Used(H), G.used = H.used - 1, G.free = H.free + 1
  PROVE  Counted(G) /\ Used(G) = Used(H) \ {b}
<1>1. /\ Blocks(G) = Blocks(H) /\ b \in Blocks(H) /\ G.hdr[b].free = TRUE
      /\ \A a \in Blocks(H) \ {b} : G.hdr[a].free = H.hdr[a].free
  BY DEF IsMark
<1>2. Used(G) = Used(H) \ {b}
  BY <1>1 DEF Used
<1>3. Idle(G) = Idle(H) \cup {b} /\ b \notin Idle(H)
  BY <1>1, <1>2 DEF Idle, Used
<1>4. Cardinality(Used(G)) = Cardinality(Used(H)) - 1
  BY <1>2, BlocksFinite, FS_RemoveElement
<1>5. Cardinality(Idle(G)) = Cardinality(Idle(H)) + 1
  <2>1. IsFiniteSet(Idle(H))
    BY BlocksFinite
  <2> QED BY <1>3, <2>1, FS_AddElement
<1> QED BY <1>2, <1>4, <1>5 DEF Counted

-----------------------------------------------------------------------------
(* Counting bytes.                                                         *)

Span(H, b) == PayloadOf(b)..(EndOf(H, b) - 1)

BytesBut(H, t) == UNION {Span(H, b) : b \in Used(H) \ {t}}

InUse(H) == Cardinality(BytesInUse(H))

(* The payload of a block, apart from the payloads of the other blocks.    *)
LEMMA SpanFacts ==
  ASSUME NEW H, Tile(H), NEW b \in Blocks(H)
  PROVE  /\ IsFiniteSet(Span(H, b)) /\ Cardinality(Span(H, b)) = H.hdr[b].size
         /\ Span(H, b) \subseteq BASE..(BASE + ARENA - 1)
         /\ \A c \in Blocks(H) \ {b} : Span(H, b) \cap Span(H, c) = {}
<1> DEFINE s == H.hdr[b].size
           e == EndOf(H, b)
<1>1. /\ b \in Addr /\ b \in Nat /\ s \in 0..ARENA /\ e \in Nat /\ e = b + HDR + s
      /\ e <= BASE + ARENA /\ \A c \in Blocks(H) : c > b => c >= e
  BY BlockFacts
<1>2. BASE <= b
  BY <1>1, AddrFacts
<1>3. HDR \in Nat \ {0} /\ BASE \in Nat /\ ARENA \in Nat
  BY Sizes
<1>4. Span(H, b) = (b + HDR)..(e - 1)
  BY DEF Span, PayloadOf
<1> HIDE DEF s, e
<1>5. IsFiniteSet(Span(H, b)) /\ Cardinality(Span(H, b)) = s
  <2>1. b + HDR \in Int /\ e - 1 \in Int
    BY <1>1, <1>3
  <2>2. /\ IsFiniteSet((b + HDR)..(e - 1))
        /\ Cardinality((b + HDR)..(e - 1)) =
             IF b + HDR > e - 1 THEN 0 ELSE (e - 1) - (b + HDR) + 1
    BY <2>1, FS_Interval
  <2> QED BY <1>1, <1>3, <1>4, <2>2
<1>6. Span(H, b) \subseteq BASE..(BASE + ARENA - 1)
  BY <1>1, <1>2, <1>3, <1>4
<1>7. ASSUME NEW c \in Blocks(H) \ {b} PROVE Span(H, b) \cap Span(H, c) = {}
  <2> DEFINE f == EndOf(H, c)
  <2>1. c \in Nat /\ f \in Nat /\ \A d \in Blocks(H) : d > c => d >= f
    BY BlockFacts
  <2>2. Span(H, c) = (c + HDR)..(f - 1)
    BY DEF Span, PayloadOf
  <2> HIDE DEF f
  <2>3. c >= e \/ b >= f
    BY <1>1, <1>7, <2>1
  <2> QED BY <1>1, <1>3, <1>4, <2>1, <2>2, <2>3
<1> QED BY <1>5, <1>6, <1>7 DEF s

(* The bytes in use are the payload of any one block in use and the rest.  *)
LEMMA BytesSplit ==
  ASSUME NEW H, Tile(H), NEW t
  PROVE  /\ IsFiniteSet(BytesBut(H, t)) /\ Cardinality(BytesBut(H, t)) \in Nat
         /\ InUse(H) = Cardinality(BytesBut(H, t))
                       + (IF t \in Used(H) THEN H.hdr[t].size ELSE 0)
         /\ InUse(H) \in 0..ARENA
<1>0. /\ IsFiniteSet(BASE..(BASE + ARENA - 1))
      /\ Cardinality(BASE..(BASE + ARENA - 1)) = ARENA
  <2>1. BASE \in Int /\ BASE + ARENA - 1 \in Int
    BY Sizes
  <2>2. /\ IsFiniteSet(BASE..(BASE + ARENA - 1))
        /\ Cardinality(BASE..(BASE + ARENA - 1)) =
             IF BASE > BASE + ARENA - 1 THEN 0 ELSE (BASE + ARENA - 1) - BASE + 1
    BY <2>1, FS_Interval
  <2> QED BY <2>2, Sizes
<1>1. Used(H) \subseteq Blocks(H)
  BY DEF Used
<1>2. \A b \in Used(H) : Span(H, b) \subseteq BASE..(BASE + ARENA - 1)
  BY <1>1, SpanFacts
<1>3. BytesInUse(H) = UNION {Span(H, b) : b \in Used(H)}
  BY DEF BytesInUse, Span
<1>4. /\ BytesInUse(H) \in SUBSET (BASE..(BASE + ARENA - 1))
      /\ BytesBut(H, t) \in SUBSET (BASE..(BASE + ARENA - 1))
  BY <1>2, <1>3 DEF BytesBut
<1>5. IsFiniteSet(BytesInUse(H)) /\ IsFiniteSet(BytesBut(H, t)) /\ InUse(H) <= ARENA
  <2> DEFINE A == BASE..(BASE + ARENA - 1)
  <2>1. IsFiniteSet(A) /\ Cardinality(A) = ARENA /\ BytesInUse(H) \in SUBSET A
        /\ BytesBut(H, t) \in SUBSET A
    BY <1>0, <1>4
  <2> HIDE DEF A
  <2>2. IsFiniteSet(BytesInUse(H)) /\ Cardinality(BytesInUse(H)) <= Cardinality(A)
    BY <2>1, FS_Subset
  <2>3. IsFiniteSet(BytesBut(H, t))
    BY <2>1, FS_Subset
  <2> QED BY <2>1, <2>2, <2>3 DEF InUse
<1>6. InUse(H) \in Nat /\ Cardinality(BytesBut(H, t)) \in Nat
  BY <1>5, FS_CardinalityType DEF InUse
<1>7. CASE t \in Used(H)
  <2>1. BytesInUse(H) = BytesBut(H, t) \cup Span(H, t)
    BY <1>3, <1>7 DEF BytesBut
  <2>2. BytesBut(H, t) \cap Span(H, t) = {}
    <3>1. ASSUME NEW b \in Used(H) \ {t} PROVE Span(H, b) \cap Span(H, t) = {}
      <4>1. b \in Blocks(H) /\ t \in Blocks(H) \ {b}
        BY <1>1, <1>7
      <4> QED BY <4>1, SpanFacts
    <3> QED BY <3>1 DEF BytesBut
  <2>3. IsFiniteSet(Span(H, t)) /\ Cardinality(Span(H, t)) = H.hdr[t].size
    BY <1>1, <1>7, SpanFacts
  <2>4. H.hdr[t].size \in 0..ARENA
    BY <1>1, <1>7, BlockFacts
  <2>5. InUse(H) = Cardinality(BytesBut(H, t)) + H.hdr[t].size - Cardinality({})
    BY <1>5, <2>1, <2>2, <2>3, FS_Union DEF InUse
  <2>6. Cardinality({}) = 0
    BY FS_EmptySet
  <2>7. H.hdr[t].size \in Nat
    BY <2>4, Sizes
  <2> QED BY <1>5, <1>6, <1>7, <2>5, <2>6, <2>7, Sizes
<1>8. CASE t \notin Used(H)
  <2>1. BytesInUse(H) = BytesBut(H, t)
    BY <1>3, <1>8 DEF BytesBut
  <2> QED BY <1>5, <1>6, <1>8, <2>1, Sizes DEF InUse
<1> QED BY <1>7, <1>8

(* When one block changes hands or size, the bytes in use change by it.    *)
LEMMA BytesChange ==
  ASSUME NEW H, Tile(H), NEW G, Tile(G), NEW t,
         Used(G) \ {t} = Used(H) \ {t},
         \A b \in Used(H) \ {t} : G.hdr[b].size = H.hdr[b].size
  PROVE  /\ InUse(G) - (IF t \in Used(G) THEN G.hdr[t].size ELSE 0)
            = InUse(H) - (IF t \in Used(H) THEN H.hdr[t].size ELSE 0)
         /\ InUse(G) \in 0..ARENA /\ InUse(H) \in 0..ARENA
<1>1. \A b \in Used(H) \ {t} : Span(G, b) = Span(H, b)
  BY DEF Span, EndOf
<1>2. BytesBut(G, t) = BytesBut(H, t)
  BY <1>1 DEF BytesBut
<1> DEFINE x == IF t \in Used(G) THEN G.hdr[t].size ELSE 0
           y == IF t \in Used(H) THEN H.hdr[t].size ELSE 0
<1>3. x \in Int /\ y \in Int
  <2>1. t \in Used(G) => G.hdr[t].size \in 0..ARENA
    BY BlockFacts DEF Used
  <2>2. t \in Used(H) => H.hdr[t].size \in 0..ARENA
    BY BlockFacts DEF Used
  <2> QED BY <2>1, <2>2
<1>4. /\ InUse(G) = Cardinality(BytesBut(G, t)) + x /\ InUse(G) \in 0..ARENA
      /\ InUse(H) = Cardinality(BytesBut(H, t)) + y /\ InUse(H) \in 0..ARENA
      /\ Cardinality(BytesBut(G, t)) \in Nat
  BY BytesSplit
<1> HIDE DEF x, y
<1>5. InUse(G) - x = InUse(H) - y
  BY <1>2, <1>3, <1>4, Sizes
<1> QED BY <1>4, <1>5 DEF x, y

-----------------------------------------------------------------------------
(* Free neighbours.                                                        *)

FreePair(H, b, c) ==
  /\ b \in Blocks(H) /\ c \in Blocks(H) /\ c = EndOf(H, b)
  /\ H.hdr[b].free = TRUE /\ H.hdr[c].free = TRUE

(* The next link is the end of the block, so Coalesced speaks of blocks    *)
(* that touch.                                                             *)
LEMMA CoalescedMeans ==
  ASSUME NEW H, Tile(H)
  PROVE  Coalesced(H) <=> \A b, c : ~FreePair(H, b, c)
<1>1. ASSUME Coalesced(H), NEW b, NEW c, FreePair(H, b, c) PROVE FALSE
  <2>1. b \in Blocks(H) /\ c \in Blocks(H) /\ c = EndOf(H, b)
    BY <1>1 DEF FreePair
  <2>2. c \in Addr
    BY <2>1, BlockFacts
  <2>3. c # BASE + ARENA
    <3>1. c \in Nat /\ c < BASE + ARENA
      BY <2>2, AddrFacts DEF Whole
    <3> QED BY <3>1, Sizes
  <2>4. H.hdr[b].next # NULL /\ H.hdr[b].next = c
    BY <2>1, <2>3, BlockFacts
  <2> QED BY <1>1, <2>1, <2>4 DEF Coalesced, FreePair
<1>2. ASSUME \A b, c : ~FreePair(H, b, c) PROVE Coalesced(H)
  <2>1. SUFFICES ASSUME NEW b \in Blocks(H), H.hdr[b].next # NULL,
                        H.hdr[b].free, H.hdr[H.hdr[b].next].free
                 PROVE  FALSE
    BY DEF Coalesced
  <2> DEFINE n == H.hdr[b].next
  <2>2. n \in Blocks(H) /\ n = EndOf(H, b)
    BY <2>1, BlockFacts
  <2>3. H.hdr[b].free = TRUE /\ H.hdr[n].free = TRUE
    BY <2>1, <2>2, FreeFlag
  <2>4. FreePair(H, b, n)
    BY <2>2, <2>3 DEF FreePair
  <2> QED BY <1>2, <2>4
<1> QED BY <1>1, <1>2

(* A block ends after it begins, inside the arena.                         *)
LEMMA EndAfter ==
  ASSUME NEW H, Tile(H), NEW b \in Blocks(H)
  PROVE  /\ b \in Nat /\ EndOf(H, b) \in Nat /\ b < EndOf(H, b)
         /\ \A c \in Blocks(H) : c > b => c >= EndOf(H, b)
<1>1. /\ b \in Nat /\ EndOf(H, b) \in Nat /\ H.hdr[b].size \in 0..ARENA
      /\ EndOf(H, b) = b + HDR + H.hdr[b].size
      /\ \A c \in Blocks(H) : c > b => c >= EndOf(H, b)
  BY BlockFacts
<1> QED BY <1>1, Sizes

(* The pairs after a cut of t at q: the two halves, the new block with the *)
(* successor of t, or a pair there was.                                    *)
CutPair(H, t, q, b, c) ==
  \/ b = t /\ c = q /\ H.hdr[t].free = TRUE
  \/ b = q /\ c \in Blocks(H) /\ c = EndOf(H, t) /\ H.hdr[c].free = TRUE
  \/ b # t /\ b # q /\ c # q /\ FreePair(H, b, c)

(* The free neighbours a cut can make.                                     *)
LEMMA CutPairs ==
  ASSUME NEW H, Tile(H), NEW t \in Blocks(H), NEW r, NEW q, NEW G,
         IsCut(G, H, t, q, r),
         NEW b, NEW c, FreePair(G, b, c)
  PROVE  CutPair(H, t, q, b, c)
<1>1. /\ Tile(G) /\ Blocks(G) = Blocks(H) \cup {q} /\ q \notin Blocks(H)
      /\ Whole(r) /\ q = t + HDR + r
      /\ G.hdr[t].size = r /\ G.hdr[q].size = H.hdr[t].size - r - HDR
      /\ \A a \in Blocks(H) : G.hdr[a].free = H.hdr[a].free
      /\ \A a \in Blocks(H) \ {t} : G.hdr[a].size = H.hdr[a].size
  BY DEF IsCut
<1>2. /\ b \in Blocks(G) /\ c \in Blocks(G) /\ c = EndOf(G, b)
      /\ G.hdr[b].free = TRUE /\ G.hdr[c].free = TRUE
  BY DEF FreePair
<1>3. /\ t \in Nat /\ H.hdr[t].size \in 0..ARENA /\ EndOf(H, t) = t + HDR + H.hdr[t].size
  BY BlockFacts
<1>4. HDR \in Nat \ {0} /\ r \in Nat /\ q \in Nat /\ t < q
  BY <1>1, <1>3, Sizes DEF Whole
<1>5. EndOf(G, t) = q /\ EndOf(G, q) = EndOf(H, t)
  BY <1>1, <1>3, <1>4, Sizes DEF EndOf, PayloadOf
<1>6. CASE b = t
  BY <1>1, <1>2, <1>5, <1>6 DEF CutPair
<1>7. CASE b = q
  <2>1. c = EndOf(H, t)
    BY <1>2, <1>5, <1>7
  <2>2. q < EndOf(G, q)
    BY <1>1, EndAfter
  <2>3. c # q
    BY <1>4, <1>5, <2>1, <2>2
  <2>4. c \in Blocks(H)
    BY <1>1, <1>2, <2>3
  <2> QED BY <1>1, <1>2, <1>7, <2>1, <2>4 DEF CutPair
<1>8. CASE b # t /\ b # q
  <2>1. b \in Blocks(H)
    BY <1>1, <1>2, <1>8
  <2>2. EndOf(G, b) = EndOf(H, b)
    BY <1>1, <1>8, <2>1 DEF EndOf
  <2>3. c # q
    <3>1. SUFFICES ASSUME c = q PROVE FALSE
      OBVIOUS
    <3>2. /\ b \in Nat /\ EndOf(H, b) \in Nat /\ b < EndOf(H, b)
          /\ (t > b => t >= EndOf(H, b))
      BY <2>1, EndAfter
    <3>3. t \in Blocks(G) /\ (b > t => b >= EndOf(G, t))
      BY <1>1, <1>2, EndAfter
    <3> QED BY <1>2, <1>3, <1>4, <1>5, <1>8, <2>2, <3>1, <3>2, <3>3
  <2>4. c \in Blocks(H)
    BY <1>1, <1>2, <2>3
  <2>5. FreePair(H, b, c)
    BY <1>1, <1>2, <2>1, <2>2, <2>4 DEF FreePair
  <2> QED BY <1>8, <2>3, <2>5 DEF CutPair
<1> QED BY <1>6, <1>7, <1>8

(* The pairs after t absorbed n: those of n are now those of t.            *)
JoinPair(H, t, n, b, c) ==
  /\ c # n /\ b # n
  /\ \/ b = t /\ H.hdr[t].free = TRUE /\ FreePair(H, n, c)
     \/ b # t /\ FreePair(H, b, c)

(* The free neighbours a join can make.                                    *)
LEMMA JoinPairs ==
  ASSUME NEW H, Tile(H), NEW t \in Blocks(H), NEW n, n = EndOf(H, t), H.hdr[n].free = TRUE,
         NEW G, IsJoin(G, H, t, n), NEW b, NEW c, FreePair(G, b, c)
  PROVE  JoinPair(H, t, n, b, c)
<1>1. /\ Tile(G) /\ Blocks(G) = Blocks(H) \ {n} /\ n \in Blocks(H) /\ n # t
      /\ G.hdr[t].size = H.hdr[t].size + HDR + H.hdr[n].size
      /\ \A a \in Blocks(G) : G.hdr[a].free = H.hdr[a].free
      /\ \A a \in Blocks(H) \ {t, n} : G.hdr[a].size = H.hdr[a].size
  BY DEF IsJoin
<1>2. /\ b \in Blocks(G) /\ c \in Blocks(G) /\ c = EndOf(G, b)
      /\ G.hdr[b].free = TRUE /\ G.hdr[c].free = TRUE
  BY DEF FreePair
<1>3. t \in Nat /\ H.hdr[t].size \in 0..ARENA /\ EndOf(H, t) = t + HDR + H.hdr[t].size
  BY BlockFacts
<1>4. H.hdr[n].size \in 0..ARENA /\ EndOf(H, n) = n + HDR + H.hdr[n].size
  BY <1>1, BlockFacts
<1>5. EndOf(G, t) = EndOf(H, n)
  BY <1>1, <1>3, <1>4, Sizes DEF EndOf, PayloadOf
<1>6. CASE b = t
  BY <1>1, <1>2, <1>5, <1>6 DEF JoinPair, FreePair
<1>7. CASE b # t
  <2>1. EndOf(G, b) = EndOf(H, b)
    BY <1>1, <1>2, <1>7 DEF EndOf
  <2> QED BY <1>1, <1>2, <1>7, <2>1 DEF JoinPair, FreePair
<1> QED BY <1>6, <1>7

(* Marking a block concerns its own pairs only.                            *)
LEMMA MarkPairs ==
  ASSUME NEW H, NEW t, NEW v, NEW G, IsMark(G, H, t, v),
         NEW b, NEW c, FreePair(G, b, c)
  PROVE  /\ G.hdr[t].free = FALSE => FreePair(H, b, c) /\ b # t /\ c # t
         /\ FreePair(H, b, c) \/ b = t \/ c = t
<1>1. /\ Blocks(G) = Blocks(H) /\ G.hdr[t].free = v
      /\ \A a \in Blocks(H) : G.hdr[a].size = H.hdr[a].size
      /\ \A a \in Blocks(H) \ {t} : G.hdr[a].free = H.hdr[a].free
  BY DEF IsMark
<1>2. /\ b \in Blocks(G) /\ c \in Blocks(G) /\ c = EndOf(G, b)
      /\ G.hdr[b].free = TRUE /\ G.hdr[c].free = TRUE
  BY DEF FreePair
<1>3. EndOf(G, b) = EndOf(H, b)
  BY <1>1, <1>2 DEF EndOf
<1>4. b # t /\ c # t => FreePair(H, b, c)
  BY <1>1, <1>2, <1>3 DEF FreePair
<1>5. G.hdr[t].free = FALSE => b # t /\ c # t
  BY <1>1, <1>2
<1> QED BY <1>4, <1>5

-----------------------------------------------------------------------------
(* split and coalesce_next.                                                *)

(* split cuts a block or leaves the heap as it is.                         *)
LEMMA SplitCases ==
  ASSUME NEW H, Tile(H), NEW t \in Blocks(H), NEW r, Whole(r), r <= H.hdr[t].size
  PROVE  \/ split(H, t, r) = H
         \/ IsCut(split(H, t, r), H, t, t + HDR + r, r)
<1>1. CASE H.hdr[t].size < r + HDR + MIN_PAYLOAD
  BY <1>1 DEF split
<1>2. CASE ~(H.hdr[t].size < r + HDR + MIN_PAYLOAD)
  <2>1. split(H, t, r) = CutAt(H, t, r)
    BY <1>2 DEF split
  <2>2. H.hdr[t].size \in 0..ARENA
    BY BlockFacts
  <2>3. r + HDR <= H.hdr[t].size
    BY <1>2, <2>2, Sizes DEF Whole
  <2>4. /\ IsCutAt(CutAt(H, t, r), H, t, t + HDR + r, r)
        /\ t + HDR + r < EndOf(H, t)
    BY <2>3, CutFields
  <2>5. IsCut(CutAt(H, t, r), H, t, t + HDR + r, r)
    BY <2>4, CutTiles
  <2> QED BY <2>1, <2>5
<1> QED BY <1>1, <1>2

(* coalesce_next absorbs the successor if there is one and it is free.     *)
LEMMA CoalesceCases ==
  ASSUME NEW H, Tile(H), NEW b \in Blocks(H), NEW n, n = H.hdr[b].next
  PROVE  \/ (n = NULL \/ H.hdr[n].free = FALSE) /\ coalesce_next(H, b) = H
         \/ /\ n # NULL /\ n = EndOf(H, b) /\ H.hdr[n].free = TRUE
            /\ IsJoin(coalesce_next(H, b), H, b, n)
<1>1. CASE n = NULL
  BY <1>1 DEF coalesce_next
<1>2. CASE n # NULL
  <2>1. n \in Blocks(H) /\ n = EndOf(H, b)
    BY <1>2, BlockFacts
  <2>2. H.hdr[n].free \in BOOLEAN
    BY <2>1, FreeFlag
  <2>3. CASE H.hdr[n].free = FALSE
    BY <1>2, <2>3 DEF coalesce_next
  <2>4. CASE H.hdr[n].free = TRUE
    <3>1. IsJoinAt(coalesce_next(H, b), H, b, n)
      BY <1>2, <2>4, JoinFields
    <3>2. IsJoin(coalesce_next(H, b), H, b, n)
      BY <1>2, <3>1, JoinTiles
    <3> QED BY <1>2, <2>1, <2>4, <3>2
  <2> QED BY <2>2, <2>3, <2>4
<1> QED BY <1>1, <1>2

-----------------------------------------------------------------------------
(* The operations on the arena.                                            *)

Figures(H) == H.in_use = InUse(H) /\ H.peak \in 0..ARENA /\ H.peak >= H.in_use

Sound(H) == Tile(H) /\ Coalesced(H) /\ Counted(H) /\ Figures(H)

(* The blocks in use other than t keep their sizes.                        *)
Undisturbed(G, H, t) == \A b \in Used(H) \ {t} : G.hdr[b].size = H.hdr[b].size

(* A number of bytes in use raises the peak or leaves it.                  *)
LEMMA PeakFits ==
  ASSUME NEW k \in 0..ARENA, NEW u \in 0..ARENA
  PROVE  Max({k, u}) \in 0..ARENA /\ Max({k, u}) >= u
<1>1. k \in Int /\ u \in Int
  OBVIOUS
<1>2. Max({k, u}) \in {k, u} /\ Max({k, u}) >= u
  BY <1>1, MaxOfTwo
<1> QED BY <1>2

(* split and Take on a free block t, which may have a free block in front  *)
(* of it and nowhere else: t is in use with what was asked for, the rest   *)
(* of it is free, and no two neighbours are free.                          *)
LEMMA Carve ==
  ASSUME NEW H, Tile(H), Counted(H), Figures(H), NEW t \in Blocks(H),
         H.hdr[t].free = TRUE, NEW r, Whole(r), r <= H.hdr[t].size,
         \A b, c : FreePair(H, b, c) => c = t
  PROVE  LET G == Take(split(H, t, r), t)
         IN /\ Sound(G) /\ Used(G) = Used(H) \cup {t} /\ t \notin Used(H)
            /\ Undisturbed(G, H, t) /\ r <= G.hdr[t].size
<1> DEFINE S == split(H, t, r)
           q == t + HDR + r
           G == Take(S, t)
<1>0. /\ t \in Nat /\ r \in Nat /\ H.hdr[t].size \in 0..ARENA /\ EndOf(H, t) \in Nat
      /\ t < EndOf(H, t)
  BY BlockFacts, EndAfter DEF Whole
<1>1. /\ Tile(S) /\ Counted(S) /\ Used(S) = Used(H) /\ t \in Blocks(S)
      /\ S.hdr[t].free = TRUE /\ r <= S.hdr[t].size
      /\ \A b \in Used(H) \ {t} : S.hdr[b].size = H.hdr[b].size
      /\ S.in_use = H.in_use /\ S.peak = H.peak
      /\ \A b, c : FreePair(S, b, c) => b = t \/ c = t
  <2>1. CASE S = H
    BY <2>1
  <2>2. CASE IsCut(S, H, t, q, r)
    <3> HIDE DEF S, q
    <3>1. /\ Tile(S) /\ t \in Blocks(S) /\ S.hdr[t].free = TRUE /\ S.hdr[t].size = r
          /\ \A b \in Blocks(H) \ {t} : S.hdr[b].size = H.hdr[b].size
          /\ S.in_use = H.in_use /\ S.peak = H.peak
      BY <2>2 DEF IsCut
    <3>2. Counted(S) /\ Used(S) = Used(H)
      BY <2>2, CutCounts
    <3>3. ASSUME NEW b, NEW c, FreePair(S, b, c) PROVE b = t \/ c = t
      <4>1. CutPair(H, t, q, b, c)
        BY <2>2, <3>3, CutPairs
      <4>2. CASE b = q /\ c \in Blocks(H) /\ c = EndOf(H, t) /\ H.hdr[c].free = TRUE
        <5>1. FreePair(H, t, c)
          BY <4>2 DEF FreePair
        <5> QED BY <5>1
      <4> QED BY <4>1, <4>2 DEF CutPair
    <3>4. r <= S.hdr[t].size
      BY <1>0, <3>1
    <3> QED BY <3>1, <3>2, <3>3, <3>4 DEF Used
  <2>3. S = H \/ IsCut(S, H, t, q, r)
    BY SplitCases
  <2> QED BY <2>1, <2>2, <2>3
<1> HIDE DEF S
<1> DEFINE s == S.hdr[t].size
           u == S.in_use + s
           k == Max({S.peak, u})
<1>2. s \in 0..ARENA /\ S \in Heaps
  BY <1>1, BlockFacts DEF Tile
<1>3. S.in_use \in Int /\ S.peak \in Int /\ S.used + 1 \in Int /\ S.free - 1 \in Int
  BY <1>2 DEF Heaps
<1>4. G = Marked(S, t, FALSE, u, k, S.used + 1, S.free - 1)
  <2>1. G = [S EXCEPT !.hdr[t].free = FALSE, !.free = @ - 1, !.used = @ + 1,
                      !.in_use = u, !.peak = Max({@, u})]
    BY DEF Take
  <2> HIDE DEF G, u
  <2>2. S.hdr \in [Addr -> Header]
    BY <1>2 DEF Heaps
  <2> QED BY <1>2, <2>1, <2>2 DEF Marked, Heaps
<1>5. u \in Int /\ k \in Int
  <2>1. u \in Int
    BY <1>2, <1>3
  <2> HIDE DEF u
  <2>2. k \in {S.peak, u}
    BY <1>3, <2>1, MaxOfTwo
  <2> QED BY <1>3, <2>1, <2>2
<1> HIDE DEF G
<1>6. /\ IsMark(G, S, t, FALSE) /\ G.in_use = u /\ G.peak = k
      /\ G.used = S.used + 1 /\ G.free = S.free - 1
  <2> DEFINE x == S.used + 1
             y == S.free - 1
             v == FALSE
  <2>1. x \in Int /\ y \in Int /\ u \in Int /\ k \in Int /\ v \in BOOLEAN
    BY <1>3, <1>5
  <2>2. G = Marked(S, t, v, u, k, x, y)
    BY <1>4
  <2>3. Tile(S) /\ t \in Blocks(S)
    BY <1>1
  <2> HIDE DEF u, k, x, y, v
  <2>4. IsMark(G, S, t, v) /\ G.in_use = u /\ G.peak = k /\ G.used = x /\ G.free = y
    BY <2>1, <2>2, <2>3, MarkTiles
  <2> QED BY <2>4 DEF x, y, v
<1>7. Counted(G) /\ Used(G) = Used(H) \cup {t} /\ t \notin Used(H)
  <2>1. /\ Tile(S) /\ Counted(S) /\ S.hdr[t].free = TRUE /\ Used(S) = Used(H)
        /\ IsMark(G, S, t, FALSE) /\ G.used = S.used + 1 /\ G.free = S.free - 1
    BY <1>1, <1>6
  <2>2. Counted(G) /\ Used(G) = Used(S) \cup {t} /\ t \notin Used(S)
    BY <2>1, TakeCounts, Zenon
  <2> QED BY <2>1, <2>2
<1>8. Tile(G) /\ G.hdr[t].size = s /\ \A b \in Used(H) \ {t} : G.hdr[b].size = H.hdr[b].size
  BY <1>1, <1>6 DEF IsMark, Used
<1>9. Coalesced(G)
  <2>1. ASSUME NEW b, NEW c, FreePair(G, b, c) PROVE FALSE
    <3>0. IsMark(G, S, t, FALSE) /\ G.hdr[t].free = FALSE
      BY <1>6 DEF IsMark
    <3>1. FreePair(S, b, c) /\ b # t /\ c # t
      BY <2>1, <3>0, MarkPairs
    <3> QED BY <1>1, <3>1
  <2> QED BY <1>8, <2>1, CoalescedMeans
<1>10. InUse(G) = u /\ u \in 0..ARENA
  <2>1. /\ InUse(G) - (IF t \in Used(G) THEN G.hdr[t].size ELSE 0)
           = InUse(H) - (IF t \in Used(H) THEN H.hdr[t].size ELSE 0)
        /\ InUse(G) \in 0..ARENA /\ InUse(H) \in 0..ARENA
    <3>1. Used(G) \ {t} = Used(H) \ {t}
      BY <1>7
    <3> QED BY <1>8, <3>1, BytesChange
  <2>2. InUse(G) - s = InUse(H)
    BY <1>7, <1>8, <2>1
  <2>3. H.in_use = InUse(H) /\ S.in_use = H.in_use
    BY <1>1 DEF Figures
  <2> HIDE DEF s
  <2> QED BY <1>2, <2>1, <2>2, <2>3
<1>11. Figures(G)
  <2>1. S.peak \in 0..ARENA
    BY <1>1 DEF Figures
  <2> HIDE DEF u
  <2>2. k \in 0..ARENA /\ k >= u
    BY <1>10, <2>1, PeakFits
  <2> QED BY <1>6, <1>10, <2>2 DEF Figures
<1> QED BY <1>1, <1>7, <1>8, <1>9, <1>11 DEF Sound, Undisturbed, G, S

(* A number at most the arena, rounded, is at least itself.                *)
LEMMA AlignUp ==
  ASSUME NEW v \in Nat, NEW a \in Nat \ {0}
  PROVE  /\ align_up(v, a) \in Nat /\ align_up(v, a) % a = 0
         /\ \E m \in Nat : align_up(v, a) = a * m
         /\ v + a <= SIZE_T => v <= align_up(v, a)
<1> DEFINE x == (v + a - 1) % SIZE_T
           m == x \div a
<1>1. SIZE_T \in Nat \ {0}
  BY Sizes
<1>2. x \in Nat /\ v + a - 1 \in Nat
  BY <1>1
<1>3. v + a <= SIZE_T => x = v + a - 1
  BY <1>1, <1>2
<1> HIDE DEF x
<1>4. m \in Int /\ x = a * m + (x % a) /\ x % a \in 0..(a - 1)
  BY <1>2, RingsAndSlot
<1> HIDE DEF m
<1>5. m \in Nat
  <2>1. m < 0 => a * m <= -a
    BY <1>4
  <2> QED BY <1>2, <1>4, <2>1
<1>6. align_up(v, a) = a * m
  BY <1>5 DEF align_up, x, m
<1>7. a * m \in Nat /\ (0 + a * m) % a = 0 % a /\ 0 % a = 0
  BY <1>5, SlotShift
<1>8. v + a <= SIZE_T => v <= a * m
  BY <1>2, <1>3, <1>4, <1>7
<1>9. (a * m) % a = 0
  <2>1. 0 + a * m = a * m
    BY <1>7
  <2> QED BY <1>7, <2>1
<1> QED BY <1>5, <1>6, <1>7, <1>8, <1>9

(* round_request never rounds down what the arena could hold.              *)
LEMMA RoundsUp ==
  ASSUME NEW n \in Nat
  PROVE  Whole(Rounded(n)) /\ (~Impossible(n) => n <= Rounded(n))
<1> DEFINE v == IF n = 0 THEN 1 ELSE n
<1>1. v \in Nat /\ n <= v
  OBVIOUS
<1>2. /\ align_up(v, ALIGN) \in Nat /\ align_up(v, ALIGN) % ALIGN = 0
      /\ v + ALIGN <= SIZE_T => v <= align_up(v, ALIGN)
  BY <1>1, Sizes, AlignUp
<1>3. Rounded(n) = align_up(v, ALIGN)
  BY DEF Rounded
<1>4. ~Impossible(n) => v + ALIGN <= SIZE_T
  BY Sizes DEF Impossible
<1> HIDE DEF v
<1> QED BY <1>1, <1>2, <1>3, <1>4 DEF Whole

(* kmalloc on the arena.                                                   *)
LEMMA AllocateSound ==
  ASSUME NEW H, Sound(H), NEW n \in Nat, ~CannotAllocate(H, n)
  PROVE  LET a == Allocate(H, n)
         IN /\ Sound(a.heap) /\ a.block \in Blocks(H)
            /\ Used(a.heap) = Used(H) \cup {a.block} /\ a.block \notin Used(H)
            /\ Undisturbed(a.heap, H, a.block) /\ n <= a.heap.hdr[a.block].size
<1> DEFINE r == Rounded(n)
           b == Min(Fits(H, r))
           G == Take(split(H, b, r), b)
<1>1. Whole(r) /\ n <= r
  BY RoundsUp DEF CannotAllocate
<1>2. Fits(H, r) # {} /\ Fits(H, r) \subseteq Addr
  BY DEF CannotAllocate, Fits, Blocks
<1> HIDE DEF r
<1>3. b \in Fits(H, r)
  BY <1>2, MinOfBlocks
<1> HIDE DEF b
<1>4. b \in Blocks(H) /\ H.hdr[b].free /\ H.hdr[b].size >= r
  BY <1>3 DEF Fits
<1>5. Tile(H) /\ Counted(H) /\ Figures(H) /\ Coalesced(H)
  BY DEF Sound
<1>6. H.hdr[b].free = TRUE /\ H.hdr[b].size \in 0..ARENA
  BY <1>4, <1>5, FreeFlag, BlockFacts
<1>7. r <= H.hdr[b].size
  BY <1>1, <1>4, <1>6 DEF Whole
<1>8. \A x, y : FreePair(H, x, y) => y = b
  BY <1>5, CoalescedMeans
<1>9. /\ Sound(G) /\ Used(G) = Used(H) \cup {b} /\ b \notin Used(H)
      /\ Undisturbed(G, H, b) /\ r <= G.hdr[b].size
  BY <1>1, <1>4, <1>5, <1>6, <1>7, <1>8, Carve
<1>10. Allocate(H, n).block = b /\ Allocate(H, n).heap = G
  BY DEF Allocate, b, r
<1> HIDE DEF G
<1>11. b \in Blocks(G) /\ Tile(G)
  BY <1>9 DEF Used, Sound
<1>12. G.hdr[b].size \in 0..ARENA
  BY <1>11, BlockFacts
<1>13. n <= G.hdr[b].size
  BY <1>1, <1>9, <1>12 DEF Whole
<1> QED BY <1>4, <1>9, <1>10, <1>13

(* coalesce_next of b: the free pairs that b began are gone, no block in   *)
(* use is disturbed and the figures are as they were.                      *)
LEMMA CoalesceSound ==
  ASSUME NEW H, Tile(H), Counted(H), NEW b \in Blocks(H), NEW G, G = coalesce_next(H, b)
  PROVE  /\ Tile(G) /\ Counted(G) /\ Used(G) = Used(H) /\ b \in Blocks(G)
         /\ G.hdr[b].free = H.hdr[b].free
         /\ G.in_use = H.in_use /\ G.peak = H.peak
         /\ \A a \in Used(H) \ {b} : G.hdr[a].size = H.hdr[a].size
         /\ \A x, y : FreePair(G, x, y) /\ x # b => FreePair(H, x, y)
         /\ \A y : FreePair(G, b, y) => FreePair(H, EndOf(H, b), y)
<1> DEFINE n == H.hdr[b].next
<1>1. CASE (n = NULL \/ H.hdr[n].free = FALSE) /\ G = H
  <2>1. ASSUME NEW y, FreePair(H, b, y) PROVE FALSE
    <3>1. b \in Blocks(H) /\ y \in Blocks(H) /\ y = EndOf(H, b) /\ H.hdr[y].free = TRUE
      BY <2>1 DEF FreePair
    <3>2. y \in Addr
      BY <3>1 DEF Blocks
    <3>3. y \in Nat /\ y < BASE + ARENA
      BY <3>2, AddrFacts DEF Whole
    <3>4. y # BASE + ARENA
      BY <3>3, Sizes
    <3>5. n # NULL /\ n = y
      BY <3>1, <3>4, BlockFacts
    <3> QED BY <1>1, <3>1, <3>5
  <2> QED BY <1>1, <2>1
<1>2. CASE n # NULL /\ n = EndOf(H, b) /\ H.hdr[n].free = TRUE /\ IsJoin(G, H, b, n)
  <2> HIDE DEF n
  <2>1. Counted(G) /\ Used(G) = Used(H)
    BY <1>2, JoinCounts
  <2>2. /\ Tile(G) /\ b \in Blocks(G) /\ G.hdr[b].free = H.hdr[b].free
        /\ G.in_use = H.in_use /\ G.peak = H.peak
        /\ \A a \in Blocks(H) \ {b, n} : G.hdr[a].size = H.hdr[a].size
    BY <1>2 DEF IsJoin
  <2>3. n \notin Used(H) /\ Used(H) \subseteq Blocks(H)
    BY <1>2 DEF Used
  <2>4. \A x, y : FreePair(G, x, y) => JoinPair(H, b, n, x, y)
    BY <1>2, JoinPairs
  <2>5. \A x, y : FreePair(G, x, y) /\ x # b => FreePair(H, x, y)
    BY <2>4 DEF JoinPair
  <2>6. \A y : FreePair(G, b, y) => FreePair(H, EndOf(H, b), y)
    BY <1>2, <2>4 DEF JoinPair
  <2> QED BY <2>1, <2>2, <2>3, <2>5, <2>6
<1>3. \/ (n = NULL \/ H.hdr[n].free = FALSE) /\ G = H
      \/ n # NULL /\ n = EndOf(H, b) /\ H.hdr[n].free = TRUE /\ IsJoin(G, H, b, n)
  BY CoalesceCases
<1> QED BY <1>1, <1>2, <1>3

(* What is left of the figures when a block in use leaves or shrinks.      *)
LEMMA LessInUse ==
  ASSUME NEW H, Tile(H), Figures(H), NEW G, Tile(G), NEW b, b \in Used(H),
         Used(G) \ {b} = Used(H) \ {b}, Undisturbed(G, H, b),
         NEW d \in Nat,
         d = H.hdr[b].size - (IF b \in Used(G) THEN G.hdr[b].size ELSE 0),
         G.in_use = H.in_use - d, G.peak = H.peak
  PROVE  Figures(G)
<1> DEFINE x == IF b \in Used(G) THEN G.hdr[b].size ELSE 0
           s == H.hdr[b].size
<1>1. s \in 0..ARENA /\ x \in Int
  <2>1. s \in 0..ARENA
    BY BlockFacts DEF Used
  <2>2. b \in Used(G) => G.hdr[b].size \in 0..ARENA
    BY BlockFacts DEF Used
  <2> QED BY <2>1, <2>2
<1>2. /\ InUse(G) - x = InUse(H) - s
      /\ InUse(G) \in 0..ARENA /\ InUse(H) \in 0..ARENA
  <2>1. /\ InUse(G) - x = InUse(H) - (IF b \in Used(H) THEN H.hdr[b].size ELSE 0)
        /\ InUse(G) \in 0..ARENA /\ InUse(H) \in 0..ARENA
    BY BytesChange DEF Undisturbed
  <2> QED BY <2>1
<1>3. d = s - x
  OBVIOUS
<1> HIDE DEF x, s
<1>4. H.in_use = InUse(H) /\ H.peak \in 0..ARENA /\ H.peak >= H.in_use
  BY DEF Figures
<1>5. G.in_use = InUse(G)
  BY <1>1, <1>2, <1>3, <1>4
<1>6. G.peak \in 0..ARENA /\ G.peak >= G.in_use
  BY <1>2, <1>4, <1>5
<1> QED BY <1>5, <1>6 DEF Figures

(* kfree on the arena: a block in use, and only it, leaves the blocks in   *)
(* use, joined with its free neighbours on both sides.                     *)
LEMMA ReleaseSound ==
  ASSUME NEW H, Sound(H), NEW b, b \in Used(H)
  PROVE  LET G == Release(H, b)
         IN Sound(G) /\ Used(G) = Used(H) \ {b} /\ Undisturbed(G, H, b)
<1> DEFINE s == H.hdr[b].size
           F == [H EXCEPT !.hdr[b].free = TRUE, !.used = @ - 1,
                          !.free = @ + 1, !.in_use = @ - H.hdr[b].size]
           f == coalesce_next(F, b)
           p == f.hdr[b].prev
           g == coalesce_next(f, p)
           G == Release(H, b)
<1>0. G = IF p = NULL THEN f ELSE IF f.hdr[p].free THEN g ELSE f
  BY DEF Release
<1>1. /\ Tile(H) /\ Counted(H) /\ Figures(H) /\ b \in Blocks(H) /\ H \in Heaps
      /\ \A x, y : ~FreePair(H, x, y)
  BY CoalescedMeans DEF Sound, Tile, Used
<1>2. s \in 0..ARENA
  BY <1>1, BlockFacts
<1>3. /\ IsMark(F, H, b, TRUE) /\ F.in_use = H.in_use - s /\ F.peak = H.peak
      /\ F.used = H.used - 1 /\ F.free = H.free + 1
  <2> DEFINE i == H.in_use - s
             k == H.peak
             u == H.used - 1
             w == H.free + 1
             v == TRUE
  <2>1. i \in Int /\ k \in Int /\ u \in Int /\ w \in Int /\ v \in BOOLEAN
    BY <1>1, <1>2 DEF Heaps
  <2>2. F = Marked(H, b, v, i, k, u, w)
    <3>1. H.hdr \in [Addr -> Header]
      BY <1>1 DEF Heaps
    <3> HIDE DEF i
    <3>2. F = [H EXCEPT !.hdr[b].free = TRUE, !.used = @ - 1, !.free = @ + 1, !.in_use = i]
      BY DEF i
    <3> HIDE DEF F
    <3> QED BY <1>1, <3>1, <3>2 DEF Marked, Heaps
  <2>3. Tile(H) /\ b \in Blocks(H)
    BY <1>1
  <2> HIDE DEF i, k, u, v, w, F
  <2>4. IsMark(F, H, b, v) /\ F.in_use = i /\ F.peak = k /\ F.used = u /\ F.free = w
    BY <2>1, <2>2, <2>3, MarkTiles
  <2> QED BY <2>4 DEF i, k, u, v, w
<1> HIDE DEF F
<1>4. Counted(F) /\ Used(F) = Used(H) \ {b}
  BY <1>1, <1>3, FreeCounts
<1>5. /\ Tile(F) /\ b \in Blocks(F) /\ F.hdr[b].free = TRUE
      /\ \A a \in Used(H) \ {b} : F.hdr[a].size = H.hdr[a].size
  BY <1>1, <1>3 DEF IsMark, Used
<1>6. ASSUME NEW x, NEW y, FreePair(F, x, y) PROVE x = b \/ y = b
  <2>1. IsMark(F, H, b, TRUE)
    BY <1>3
  <2>2. FreePair(H, x, y) \/ x = b \/ y = b
    BY <1>6, <2>1, MarkPairs
  <2> QED BY <1>1, <2>2
<1>7. /\ Tile(f) /\ Counted(f) /\ Used(f) = Used(F) /\ b \in Blocks(f)
      /\ f.hdr[b].free = F.hdr[b].free
      /\ f.in_use = F.in_use /\ f.peak = F.peak
      /\ \A a \in Used(F) \ {b} : f.hdr[a].size = F.hdr[a].size
      /\ \A x, y : FreePair(f, x, y) /\ x # b => FreePair(F, x, y)
      /\ \A y : FreePair(f, b, y) => FreePair(F, EndOf(F, b), y)
  BY <1>4, <1>5, CoalesceSound
<1>8. b \in Nat /\ EndOf(F, b) \in Nat /\ b < EndOf(F, b)
  BY <1>5, EndAfter
<1>9. ASSUME NEW x, NEW y, FreePair(f, x, y) PROVE y = b /\ x # b
  <2>1. CASE x # b
    BY <1>6, <1>7, <1>9, <2>1
  <2>2. CASE x = b
    <3>1. FreePair(F, EndOf(F, b), y)
      BY <1>7, <1>9, <2>2
    <3>2. y = b
      BY <1>6, <1>8, <3>1
    <3> DEFINE e == EndOf(F, b)
    <3>3. e \in Blocks(F) /\ y = EndOf(F, e)
      BY <3>1 DEF FreePair
    <3> HIDE DEF e
    <3>4. e \in Nat /\ e < EndOf(F, e) /\ EndOf(F, e) \in Nat
      BY <1>5, <3>3, EndAfter
    <3>5. b < e
      BY <1>8 DEF e
    <3> QED BY <1>8, <3>2, <3>3, <3>4, <3>5
  <2> QED BY <2>1, <2>2
<1> HIDE DEF f
<1>10. ASSUME NEW K, K = f \/ K = g, Tile(K), Counted(K), Used(K) = Used(f),
              K.in_use = f.in_use, K.peak = f.peak,
              \A a \in Used(f) : K.hdr[a].size = f.hdr[a].size,
              \A x, y : ~FreePair(K, x, y)
       PROVE  Sound(K) /\ Used(K) = Used(H) \ {b} /\ Undisturbed(K, H, b)
  <2>1. Used(K) = Used(H) \ {b}
    BY <1>4, <1>7, <1>10
  <2>2. Undisturbed(K, H, b)
    BY <1>4, <1>5, <1>7, <1>10 DEF Undisturbed
  <2>3. Coalesced(K)
    BY <1>10, CoalescedMeans
  <2>4. K.in_use = H.in_use - s /\ K.peak = H.peak
    BY <1>3, <1>7, <1>10
  <2>5. s \in Nat /\ s = H.hdr[b].size - (IF b \in Used(K) THEN K.hdr[b].size ELSE 0)
    BY <1>2, <2>1
  <2>6. Used(K) \ {b} = Used(H) \ {b}
    BY <2>1
  <2> HIDE DEF s
  <2>7. Figures(K)
    BY <1>1, <1>10, <2>2, <2>4, <2>5, <2>6, LessInUse
  <2> QED BY <1>10, <2>1, <2>2, <2>3, <2>7 DEF Sound
<1>11. CASE p = NULL
  <2>1. b = BASE
    BY <1>7, <1>11, PrevFacts
  <2>2. ASSUME NEW x, NEW y, FreePair(f, x, y) PROVE FALSE
    <3>0. y = b
      BY <1>9, <2>2
    <3>1. x \in Blocks(f) /\ BASE = EndOf(f, x)
      BY <2>1, <2>2, <3>0 DEF FreePair
    <3>2. x < EndOf(f, x) /\ x \in Addr
      BY <1>7, <3>1, EndAfter DEF Blocks
    <3>3. BASE <= x /\ x \in Nat
      BY <3>2, AddrFacts DEF Whole
    <3> QED BY <3>1, <3>2, <3>3, Sizes
  <2>3. G = f
    BY <1>0, <1>11
  <2> QED BY <1>7, <1>10, <2>2, <2>3
<1>12. CASE p # NULL
  <2>1. b # BASE
    BY <1>7, <1>12 DEF Tile, Tiled
  <2>2. p \in Blocks(f) /\ p < b /\ f.hdr[p].next = b
    BY <1>7, <2>1, PrevFacts
  <2>3. f.hdr[p].free \in BOOLEAN
    BY <1>7, <2>2, FreeFlag
  <2>4. ASSUME NEW x, NEW y, FreePair(f, x, y) PROVE x = p
    <3>0. y = b
      BY <1>9, <2>4
    <3>1. x \in Blocks(f) /\ b = EndOf(f, x)
      BY <2>4, <3>0 DEF FreePair
    <3>2. b < BASE + ARENA
      <4>1. b \in Addr
        BY <1>7 DEF Blocks
      <4> QED BY <4>1, AddrFacts
    <3>3. f.hdr[x].next # NULL => f.hdr[x].next = b /\ f.hdr[b].prev = x
      <4>1. Tile(f)
        BY <1>7
      <4>2. f.hdr[x].next # NULL =>
              f.hdr[x].next = EndOf(f, x) /\ f.hdr[f.hdr[x].next].prev = x
        BY <3>1, <4>1, BlockFacts
      <4> QED BY <3>1, <4>2
    <3>4. f.hdr[x].next = NULL => b = BASE + ARENA
      BY <1>7, <3>1, BlockFacts
    <3> QED BY <1>8, <3>2, <3>3, <3>4, Sizes
  <2>5. CASE f.hdr[p].free = FALSE
    <3>1. ASSUME NEW x, NEW y, FreePair(f, x, y) PROVE FALSE
      BY <2>4, <2>5, <3>1 DEF FreePair
    <3>2. G = f
      BY <1>0, <2>5
    <3> QED BY <1>7, <1>10, <3>1, <3>2
  <2>6. CASE f.hdr[p].free = TRUE
    <3>1. G = g
      BY <1>0, <1>12, <2>6
    <3>2. /\ Tile(g) /\ Counted(g) /\ Used(g) = Used(f)
          /\ g.in_use = f.in_use /\ g.peak = f.peak
          /\ \A a \in Used(f) \ {p} : g.hdr[a].size = f.hdr[a].size
          /\ \A x, y : FreePair(g, x, y) /\ x # p => FreePair(f, x, y)
          /\ \A y : FreePair(g, p, y) => FreePair(f, EndOf(f, p), y)
      BY <1>7, <2>2, CoalesceSound
    <3>3. p \notin Used(f)
      BY <2>6 DEF Used
    <3>4. EndOf(f, p) = b
      <4>1. b # NULL
        BY <1>8 DEF NULL
      <4> QED BY <1>7, <2>2, <4>1, BlockFacts
    <3>5. ASSUME NEW x, NEW y, FreePair(g, x, y) PROVE FALSE
      <4>1. CASE x # p
        BY <2>4, <3>2, <3>5, <4>1
      <4>2. CASE x = p
        <5>1. FreePair(f, b, y)
          BY <3>2, <3>4, <3>5, <4>2
        <5> QED BY <1>9, <5>1
      <4> QED BY <4>1, <4>2
    <3> HIDE DEF g
    <3> QED BY <1>10, <3>1, <3>2, <3>3, <3>5
  <2> QED BY <2>3, <2>5, <2>6
<1> QED BY <1>11, <1>12

(* krealloc that shrinks in place: the block keeps what is wanted, what it *)
(* sheds is free and joined with a free successor.                         *)
LEMMA ShrinkSound ==
  ASSUME NEW H, Sound(H), NEW b, b \in Used(H), NEW want, Whole(want),
         want <= H.hdr[b].size
  PROVE  LET G == Shrink(H, b, want)
         IN /\ Sound(G) /\ Used(G) = Used(H) /\ Undisturbed(G, H, b)
            /\ want <= G.hdr[b].size
<1> DEFINE s == split(H, b, want)
           i == s.in_use - (H.hdr[b].size - s.hdr[b].size)
           t == [s EXCEPT !.in_use = @ - (H.hdr[b].size - s.hdr[b].size)]
           q == b + HDR + want
           G == Shrink(H, b, want)
<1>1. /\ Tile(H) /\ Counted(H) /\ Figures(H) /\ b \in Blocks(H) /\ H.hdr[b].free = FALSE
      /\ \A x, y : ~FreePair(H, x, y)
  <2>1. Tile(H) /\ b \in Blocks(H) /\ ~H.hdr[b].free
    BY DEF Sound, Used
  <2>2. H.hdr[b].free \in BOOLEAN
    BY <2>1, FreeFlag
  <2> QED BY <2>1, <2>2, CoalescedMeans DEF Sound
<1>2. b \in Nat /\ H.hdr[b].size \in 0..ARENA
  BY <1>1, BlockFacts
<1>3. G = IF s.hdr[b].size = H.hdr[b].size THEN H
          ELSE IF s.hdr[b].next = NULL THEN t ELSE coalesce_next(t, s.hdr[b].next)
  BY Zenon DEF Shrink
<1>4. CASE s.hdr[b].size = H.hdr[b].size
  BY <1>3, <1>4 DEF Undisturbed
<1>5. CASE s.hdr[b].size # H.hdr[b].size
  <2>1. IsCut(s, H, b, q, want)
    BY <1>1, <1>5, SplitCases
  <2> HIDE DEF s, q
  <2>2. /\ Tile(s) /\ s \in Heaps /\ Blocks(s) = Blocks(H) \cup {q} /\ q \notin Blocks(H)
        /\ q = b + HDR + want /\ s.hdr[b].size = want
        /\ s.hdr[b].free = H.hdr[b].free /\ s.in_use = H.in_use /\ s.peak = H.peak
        /\ \A a \in Blocks(H) \ {b} : s.hdr[a].size = H.hdr[a].size
    BY <2>1 DEF IsCut, Tile
  <2>3. Counted(s) /\ Used(s) = Used(H)
    BY <1>1, <2>1, CutCounts
  <2>4. s.hdr[b].next = q /\ s.hdr[b].next # NULL
    <3>1. b \in Blocks(s) /\ q \in Blocks(s)
      BY <1>1, <2>2
    <3>2. q \in Nat /\ q < BASE + ARENA
      BY <3>1, AddrFacts DEF Blocks, Whole
    <3>3. /\ s.hdr[b].next = NULL <=> EndOf(s, b) = BASE + ARENA
          /\ s.hdr[b].next # NULL => s.hdr[b].next = EndOf(s, b)
          /\ EndOf(s, b) = b + HDR + s.hdr[b].size
      BY <2>2, <3>1, BlockFacts, ZenonT(60)
    <3>4. EndOf(s, b) = q
      BY <2>2, <3>3
    <3> QED BY <3>2, <3>3, <3>4, Sizes
  <2>5. /\ t.hdr = s.hdr /\ t.peak = s.peak /\ t.used = s.used /\ t.free = s.free
        /\ t.in_use = H.in_use - (H.hdr[b].size - want) /\ t \in Heaps
    <3> DEFINE S == [Addr -> Header]
               R == [hdr : S, in_use : Int, peak : Int, used : Int, free : Int]
               j == H.in_use - (H.hdr[b].size - want)
    <3>1. s \in R
      BY <2>2 DEF Heaps
    <3>2. t = [s EXCEPT !.in_use = j]
      BY <2>2, <3>1
    <3>3. j \in Int
      BY <1>2, <2>2, <3>1 DEF Whole
    <3> HIDE DEF S, t, j
    <3>4. /\ t.hdr = s.hdr /\ t.peak = s.peak /\ t.used = s.used /\ t.free = s.free
          /\ t.in_use = j
      BY <3>1, <3>2
    <3>5. t \in R
      BY <3>1, <3>2, <3>3
    <3> QED BY <3>4, <3>5 DEF S, j, Heaps
  <2> HIDE DEF t
  <2>6. Blocks(t) = Blocks(s) /\ Used(t) = Used(s) /\ \A a : EndOf(t, a) = EndOf(s, a)
    BY <2>5 DEF Blocks, Used, EndOf
  <2>7. Tile(t) /\ Counted(t)
    BY <2>2, <2>3, <2>5, <2>6 DEF Tile, Tiled, Counted, Idle
  <2>8. ASSUME NEW x, NEW y, FreePair(t, x, y) PROVE x = q
    <3>1. FreePair(s, x, y)
      BY <2>5, <2>6, <2>8 DEF FreePair
    <3>2. CutPair(H, b, q, x, y)
      BY <1>1, <2>1, <3>1, CutPairs
    <3> QED BY <1>1, <3>2 DEF CutPair
  <2>9. G = coalesce_next(t, q)
    BY <1>3, <1>5, <2>4
  <2>10. q \in Blocks(t) /\ b \in Used(t) /\ q # b
    BY <1>1, <2>2, <2>3, <2>6
  <2>11. /\ Tile(G) /\ Counted(G) /\ Used(G) = Used(t)
         /\ G.in_use = t.in_use /\ G.peak = t.peak
         /\ \A a \in Used(t) \ {q} : G.hdr[a].size = t.hdr[a].size
         /\ \A x, y : FreePair(G, x, y) /\ x # q => FreePair(t, x, y)
         /\ \A y : FreePair(G, q, y) => FreePair(t, EndOf(t, q), y)
    BY <2>7, <2>9, <2>10, CoalesceSound
  <2> HIDE DEF G
  <2>12. q \in Nat /\ EndOf(t, q) # q
    BY <2>7, <2>10, EndAfter
  <2>13. ASSUME NEW x, NEW y, FreePair(G, x, y) PROVE FALSE
    <3>1. CASE x # q
      <4>1. FreePair(t, x, y)
        BY <2>11, <2>13, <3>1
      <4> QED BY <2>8, <3>1, <4>1
    <3>2. CASE x = q
      <4>1. FreePair(t, EndOf(t, q), y)
        BY <2>11, <2>13, <3>2
      <4>2. EndOf(t, q) = q
        BY <2>8, <4>1
      <4> QED BY <2>12, <4>2
    <3> QED BY <3>1, <3>2
  <2>14. Coalesced(G)
    BY <2>11, <2>13, CoalescedMeans
  <2>15. Used(G) = Used(H) /\ b \in Used(G) /\ q \notin Used(H)
    BY <2>2, <2>3, <2>6, <2>11 DEF Used
  <2>16. Undisturbed(G, H, b) /\ G.hdr[b].size = want
    <3>1. \A a \in Used(H) : G.hdr[a].size = s.hdr[a].size
      BY <2>3, <2>5, <2>6, <2>11, <2>15
    <3> QED BY <2>2, <2>15, <3>1 DEF Undisturbed, Used
  <2>17. Figures(G)
    <3> DEFINE d == H.hdr[b].size - want
    <3>1. d \in Nat
      BY <1>2 DEF Whole
    <3>2. d = H.hdr[b].size - (IF b \in Used(G) THEN G.hdr[b].size ELSE 0)
      BY <2>15, <2>16
    <3>3. G.in_use = H.in_use - d /\ G.peak = H.peak
      BY <2>2, <2>5, <2>11
    <3>4. Used(G) \ {b} = Used(H) \ {b}
      BY <2>15
    <3> HIDE DEF d
    <3> QED BY <1>1, <2>11, <2>16, <3>1, <3>2, <3>3, <3>4, LessInUse
  <2>18. want <= G.hdr[b].size
    BY <2>16 DEF Whole
  <2> QED BY <2>11, <2>14, <2>15, <2>16, <2>17, <2>18 DEF Sound, G
<1> QED BY <1>4, <1>5

(* krealloc that grows in place: the block absorbs its free successor and  *)
(* gives back what it does not need.                                       *)
LEMMA GrowSound ==
  ASSUME NEW H, Sound(H), NEW b, b \in Used(H), NEW want, Whole(want),
         CanGrow(H, b, want)
  PROVE  LET G == Grow(H, b, want)
         IN /\ Sound(G) /\ Used(G) = Used(H) /\ Undisturbed(G, H, b)
            /\ want <= G.hdr[b].size
<1> DEFINE n == H.hdr[b].next
           J == coalesce_next(H, b)
           s == split(J, b, want)
           q == b + HDR + want
           u == H.in_use - H.hdr[b].size + s.hdr[b].size
           k == Max({s.peak, u})
           G == Grow(H, b, want)
<1>1. /\ Tile(H) /\ Counted(H) /\ Figures(H) /\ b \in Blocks(H) /\ H.hdr[b].free = FALSE
      /\ \A x, y : ~FreePair(H, x, y)
  <2>1. Tile(H) /\ b \in Blocks(H) /\ ~H.hdr[b].free
    BY DEF Sound, Used
  <2>2. H.hdr[b].free \in BOOLEAN
    BY <2>1, FreeFlag
  <2> QED BY <2>1, <2>2, CoalescedMeans DEF Sound
<1>2. n # NULL /\ H.hdr[n].free /\ H.hdr[b].size + HDR + H.hdr[n].size >= want
  BY DEF CanGrow
<1>3. n \in Blocks(H) /\ n = EndOf(H, b) /\ b \in Nat /\ H.hdr[b].size \in 0..ARENA
  BY <1>1, <1>2, BlockFacts
<1>4. H.hdr[n].free = TRUE
  BY <1>1, <1>2, <1>3, FreeFlag
<1>5. IsJoin(J, H, b, n)
  BY <1>1, <1>2, <1>4, CoalesceCases
<1>6. /\ Tile(J) /\ Counted(J) /\ Used(J) = Used(H) /\ b \in Blocks(J)
      /\ J.hdr[b].free = H.hdr[b].free /\ J.in_use = H.in_use /\ J.peak = H.peak
      /\ \A a \in Used(H) \ {b} : J.hdr[a].size = H.hdr[a].size
  BY <1>1, CoalesceSound
<1>7. J.hdr[b].size = H.hdr[b].size + HDR + H.hdr[n].size /\ n \notin Blocks(J)
  BY <1>5 DEF IsJoin
<1> HIDE DEF J, n
<1>8. ASSUME NEW x, NEW y, FreePair(J, x, y) PROVE FALSE
  <2>1. JoinPair(H, b, n, x, y)
    BY <1>1, <1>3, <1>4, <1>5, <1>8, JoinPairs
  <2> QED BY <1>1, <2>1 DEF JoinPair
<1>9. J.hdr[b].size \in 0..ARENA /\ want <= J.hdr[b].size
  <2>1. J.hdr[b].size \in 0..ARENA
    BY <1>6, BlockFacts
  <2> QED BY <1>2, <1>7, <2>1 DEF Whole
<1>10. /\ Tile(s) /\ Counted(s) /\ Used(s) = Used(H) /\ b \in Blocks(s)
       /\ s.hdr[b].free = FALSE /\ s.in_use = H.in_use /\ s.peak = H.peak
       /\ want <= s.hdr[b].size
       /\ \A a \in Used(H) \ {b} : s.hdr[a].size = H.hdr[a].size
       /\ \A x, y : ~FreePair(s, x, y)
  <2>1. CASE s = J
    BY <1>1, <1>6, <1>8, <1>9, <2>1
  <2>2. CASE IsCut(s, J, b, q, want)
    <3> HIDE DEF s, q
    <3>1. /\ Tile(s) /\ b \in Blocks(s) /\ s.hdr[b].free = FALSE /\ s.hdr[b].size = want
          /\ \A a \in Blocks(J) \ {b} : s.hdr[a].size = J.hdr[a].size
          /\ s.in_use = H.in_use /\ s.peak = H.peak
      BY <1>1, <1>6, <2>2 DEF IsCut
    <3>2. Counted(s) /\ Used(s) = Used(H)
      BY <1>6, <2>2, CutCounts
    <3>3. ASSUME NEW x, NEW y, FreePair(s, x, y) PROVE FALSE
      <4>1. CutPair(J, b, q, x, y)
        BY <1>6, <2>2, <3>3, CutPairs
      <4>2. y \in Blocks(J) /\ y = EndOf(J, b) /\ J.hdr[y].free = TRUE
        BY <1>1, <1>6, <1>8, <4>1 DEF CutPair
      <4>3. EndOf(J, b) = EndOf(H, n)
        <5>1. EndOf(J, b) = b + HDR + J.hdr[b].size
          BY <1>6, BlockFacts
        <5>2. EndOf(H, n) = b + HDR + (H.hdr[b].size + HDR + H.hdr[n].size)
          BY <1>1, <1>2, NextFacts DEF n
        <5> QED BY <1>7, <5>1, <5>2
      <4>4. y \in Blocks(H) /\ (y # b => H.hdr[y].free = J.hdr[y].free)
        BY <1>5, <4>2 DEF IsJoin
      <4>5. y # b
        BY <1>6, <4>2, EndAfter
      <4>6. FreePair(H, n, y)
        BY <1>3, <1>4, <4>2, <4>3, <4>4, <4>5 DEF FreePair
      <4> QED BY <1>1, <4>6
    <3>4. want <= s.hdr[b].size
      BY <3>1 DEF Whole
    <3>5. \A a \in Used(H) \ {b} : s.hdr[a].size = H.hdr[a].size
      BY <1>6, <3>1 DEF Used
    <3> QED BY <3>1, <3>2, <3>3, <3>4, <3>5
  <2>3. s = J \/ IsCut(s, J, b, q, want)
    BY <1>6, <1>9, SplitCases
  <2> QED BY <2>1, <2>2, <2>3
<1> HIDE DEF s
<1>11. s \in Heaps /\ s.hdr[b].size \in 0..ARENA
  BY <1>10, BlockFacts DEF Tile
<1>12. s.in_use \in Int /\ s.peak \in Int /\ s.used \in Int /\ s.free \in Int
  BY <1>11 DEF Heaps
<1>13. G = Marked(s, b, FALSE, u, k, s.used, s.free)
  <2>1. G = [s EXCEPT !.hdr[b].free = FALSE, !.in_use = u, !.peak = Max({@, u})]
    BY Zenon DEF Grow, s, J, u
  <2>2. s.hdr \in [Addr -> Header]
    BY <1>11 DEF Heaps
  <2> HIDE DEF G, u
  <2> QED BY <1>11, <2>1, <2>2 DEF Marked, Heaps
<1>14. u \in Int /\ k \in Int
  <2>1. u \in Int
    BY <1>3, <1>10, <1>11, <1>12
  <2> HIDE DEF u
  <2>2. k \in {s.peak, u}
    BY <1>12, <2>1, MaxOfTwo
  <2> QED BY <1>12, <2>1, <2>2
<1> HIDE DEF G
<1>15. /\ IsMark(G, s, b, FALSE) /\ G.in_use = u /\ G.peak = k
       /\ G.used = s.used /\ G.free = s.free
  <2> DEFINE v == FALSE
  <2>1. Tile(s) /\ b \in Blocks(s) /\ v \in BOOLEAN /\ G = Marked(s, b, v, u, k, s.used, s.free)
    BY <1>10, <1>13
  <2> HIDE DEF u, k, v
  <2>2. /\ IsMark(G, s, b, v) /\ G.in_use = u /\ G.peak = k
        /\ G.used = s.used /\ G.free = s.free
    BY <1>12, <1>14, <2>1, MarkTiles
  <2> QED BY <2>2 DEF v
<1>16. /\ Tile(G) /\ Blocks(G) = Blocks(s) /\ G.hdr[b].free = FALSE
       /\ \A a \in Blocks(s) : G.hdr[a].size = s.hdr[a].size
       /\ \A a \in Blocks(s) \ {b} : G.hdr[a].free = s.hdr[a].free
  BY <1>15 DEF IsMark
<1>17. Used(G) = Used(H) /\ Counted(G)
  <2>1. Used(G) = Used(s)
    BY <1>10, <1>16 DEF Used
  <2> QED BY <1>10, <1>15, <1>16, <2>1 DEF Counted, Idle
<1>18. Coalesced(G)
  <2>1. ASSUME NEW x, NEW y, FreePair(G, x, y) PROVE FALSE
    <3>1. FreePair(s, x, y)
      BY <1>15, <1>16, <2>1, MarkPairs, ZenonT(60)
    <3> QED BY <1>10, <3>1
  <2> QED BY <1>16, <2>1, CoalescedMeans
<1>19. Undisturbed(G, H, b) /\ want <= G.hdr[b].size /\ G.hdr[b].size = s.hdr[b].size
  <2>1. \A a \in Used(H) : G.hdr[a].size = s.hdr[a].size
    BY <1>10, <1>16 DEF Used
  <2> QED BY <1>10, <2>1 DEF Undisturbed
<1>20. InUse(G) = u /\ u \in 0..ARENA
  <2>1. /\ InUse(G) - (IF b \in Used(G) THEN G.hdr[b].size ELSE 0)
           = InUse(H) - (IF b \in Used(H) THEN H.hdr[b].size ELSE 0)
        /\ InUse(G) \in 0..ARENA /\ InUse(H) \in 0..ARENA
    <3>1. Used(G) \ {b} = Used(H) \ {b}
      BY <1>17
    <3> QED BY <1>1, <1>16, <1>19, <3>1, BytesChange DEF Undisturbed
  <2>2. InUse(G) - s.hdr[b].size = InUse(H) - H.hdr[b].size
    BY <1>17, <1>19, <2>1
  <2>3. H.in_use = InUse(H)
    BY <1>1 DEF Figures
  <2> QED BY <1>3, <1>11, <2>1, <2>2, <2>3
<1>21. Figures(G)
  <2>1. s.peak \in 0..ARENA
    BY <1>1, <1>10 DEF Figures
  <2> HIDE DEF u
  <2>2. k \in 0..ARENA /\ k >= u
    BY <1>20, <2>1, PeakFits
  <2> QED BY <1>15, <1>20, <2>2 DEF Figures
<1> QED BY <1>16, <1>17, <1>18, <1>19, <1>21 DEF Sound, G

(* A multiple of an alignment that kmemalign accepts is one of ALIGN.      *)
LEMMA AlignsWhole ==
  ASSUME NEW a \in ALIGNS, NEW m \in Nat
  PROVE  a \in Nat \ {0} /\ Whole(a * m) /\ (a * m) % a = 0
<1>1. a \in Nat \ {0} /\ a % ALIGN = 0 /\ ALIGN \in Nat \ {0}
  BY HeapConstants
<1>2. Whole(a)
  BY <1>1 DEF Whole
<1>3. PICK k \in Nat : a = ALIGN * k
  BY <1>1, <1>2, WholeUnits
<1>4. a * m = ALIGN * (k * m) /\ k * m \in Nat /\ a * m \in Nat
  BY <1>1, <1>3
<1>5. Whole(a * m)
  BY <1>4, WholeUnits
<1>6. (0 + a * m) % a = 0 % a /\ 0 % a = 0 /\ 0 + a * m = a * m
  BY <1>1, <1>4, SlotShift
<1> QED BY <1>1, <1>5, <1>6

(* Where kmemalign would put the payload is a multiple of the alignment,   *)
(* and the front gap is zero only when the block is aligned as it stands.  *)
LEMMA AlignedGap ==
  ASSUME NEW H, Tile(H), NEW b \in Blocks(H), NEW a \in ALIGNS, NEW r,
         Serves(H, b, r, a), NEW gap, gap = FrontGap(b, a), Whole(r)
  PROVE  \/ gap = 0 /\ (b + HDR) % a = 0 /\ r <= H.hdr[b].size
         \/ /\ gap # 0 /\ Whole(gap) /\ (b + HDR + gap + HDR) % a = 0
            /\ gap + HDR + r <= H.hdr[b].size
<1> DEFINE pl == b + HDR
           up == align_up(pl + HDR, a)
           A == AlignedIn(b, a)
<1>1. b \in Nat /\ Whole(b) /\ H.hdr[b].size \in 0..ARENA
  BY BlockFacts
<1>2. /\ HDR \in Nat \ {0} /\ Whole(HDR) /\ MIN_PAYLOAD \in Nat \ {0} /\ r \in Nat
      /\ pl \in Nat /\ a \in Nat \ {0}
  BY <1>1, Sizes, HeapConstants DEF Whole
<1>3. /\ A = IF pl % a = 0 THEN pl ELSE IF up - HDR = pl THEN up + a ELSE up
      /\ gap = IF pl % a = 0 THEN 0 ELSE A - HDR - pl
      /\ gap = 0 \/ gap >= MIN_PAYLOAD
      /\ A + r <= pl + H.hdr[b].size
  BY DEF AlignedIn, FrontGap, Serves, PayloadOf
<1>4. PICK m \in Nat : up = a * m
  <2>1. pl + HDR \in Nat
    BY <1>2
  <2> QED BY <1>2, <2>1, AlignUp
<1>5. Whole(pl)
  BY <1>1, <1>2, WholeSums
<1> HIDE DEF pl, up, A
<1>6. CASE pl % a = 0
  <2>1. gap = 0 /\ A = pl
    BY <1>3, <1>6
  <2> QED BY <1>1, <1>2, <1>3, <1>6, <2>1 DEF pl
<1>7. CASE pl % a # 0
  <2>1. PICK j \in Nat : A = a * j
    <3>1. CASE up - HDR = pl
      <4>1. A = a * (m + 1) /\ m + 1 \in Nat
        BY <1>2, <1>3, <1>4, <1>7, <3>1
      <4> QED BY <4>1
    <3>2. CASE up - HDR # pl
      BY <1>3, <1>4, <1>7, <3>2
    <3> QED BY <3>1, <3>2
  <2>2. A \in Nat /\ Whole(A) /\ A % a = 0
    BY <2>1, AlignsWhole DEF Whole
  <2>3. gap = A - HDR - pl
    BY <1>3, <1>7
  <2>4. gap # 0
    <3>1. up \in Nat
      BY <1>2, <1>4
    <3> QED BY <1>2, <1>3, <1>7, <2>3, <3>1
  <2>5. gap \in Nat
    BY <1>2, <1>3, <2>2, <2>3, <2>4
  <2>6. Whole(gap)
    <3>1. Whole(HDR + pl) /\ HDR + pl <= A /\ A - (HDR + pl) = gap
      <4>1. Whole(HDR + pl)
        BY <1>2, <1>5, WholeSums
      <4> QED BY <1>2, <2>2, <2>3, <2>5, <4>1
    <3> QED BY <2>2, <3>1, WholeSums
  <2>7. b + HDR + gap + HDR = A
    BY <1>1, <1>2, <2>2, <2>3, <2>5 DEF pl
  <2>8. gap + HDR + r <= H.hdr[b].size
    <3> DEFINE z == H.hdr[b].size
    <3>1. z \in Int /\ A + r <= pl + z
      BY <1>1, <1>3
    <3> HIDE DEF z
    <3>2. gap + HDR + r <= z
      BY <1>2, <2>2, <2>3, <2>5, <3>1
    <3> QED BY <3>2 DEF z
  <2> QED BY <2>2, <2>4, <2>6, <2>7, <2>8
<1> QED BY <1>6, <1>7

(* kmemalign on the arena: the block is cut in front of the aligned        *)
(* payload, and what is in front stays a free block.                       *)
LEMMA MemalignSound ==
  ASSUME NEW H, Sound(H), NEW align \in ALIGNS, NEW n \in Nat, ~Impossible(n),
         NEW b \in Blocks(H), Serves(H, b, Rounded(n), align)
  PROVE  LET r   == Rounded(n)
             gap == FrontGap(b, align)
             K   == IF gap = 0 THEN H ELSE CutAt(H, b, gap)
             t   == IF gap = 0 THEN b ELSE PayloadOf(b) + gap
             G   == Take(split(K, t, r), t)
         IN /\ Sound(G) /\ Used(G) = Used(H) \cup {t} /\ t \notin Used(H)
            /\ Undisturbed(G, H, t) /\ n <= G.hdr[t].size
            /\ t \in Addr /\ PayloadOf(t) % align = 0
<1> DEFINE r == Rounded(n)
           gap == FrontGap(b, align)
           K == IF gap = 0 THEN H ELSE CutAt(H, b, gap)
           t == IF gap = 0 THEN b ELSE PayloadOf(b) + gap
           G == Take(split(K, t, r), t)
<1>1. Whole(r) /\ n <= r /\ r \in Nat
  BY RoundsUp DEF Whole
<1>2. /\ Tile(H) /\ Counted(H) /\ Figures(H) /\ H.hdr[b].free = TRUE
      /\ \A x, y : ~FreePair(H, x, y)
  <2>1. Tile(H) /\ H.hdr[b].free
    BY DEF Sound, Serves
  <2>2. H.hdr[b].free \in BOOLEAN
    BY <2>1, FreeFlag
  <2> QED BY <2>1, <2>2, CoalescedMeans DEF Sound
<1>3. b \in Nat /\ b \in Addr /\ H.hdr[b].size \in 0..ARENA
  BY <1>2, BlockFacts
<1>4. \/ gap = 0 /\ (b + HDR) % align = 0 /\ r <= H.hdr[b].size
      \/ /\ gap # 0 /\ Whole(gap) /\ (b + HDR + gap + HDR) % align = 0
         /\ gap + HDR + r <= H.hdr[b].size
  BY <1>1, <1>2, AlignedGap
<1> HIDE DEF r, gap
<1>5. /\ Tile(K) /\ Counted(K) /\ Figures(K) /\ t \in Blocks(K) /\ K.hdr[t].free = TRUE
      /\ r <= K.hdr[t].size /\ \A x, y : FreePair(K, x, y) => y = t
      /\ Used(K) = Used(H) /\ \A a \in Used(H) \ {t} : K.hdr[a].size = H.hdr[a].size
      /\ t \in Addr /\ PayloadOf(t) % align = 0
  <2>1. CASE gap = 0
    <3>1. K = H /\ t = b /\ (b + HDR) % align = 0 /\ r <= H.hdr[b].size
      BY <1>4, <2>1
    <3> HIDE DEF K, t
    <3> QED BY <1>2, <1>3, <3>1 DEF PayloadOf
  <2>2. CASE gap # 0
    <3>1. /\ K = CutAt(H, b, gap) /\ t = b + HDR + gap
          /\ Whole(gap) /\ gap + HDR + r <= H.hdr[b].size
          /\ (b + HDR + gap + HDR) % align = 0
      BY <1>4, <2>2 DEF PayloadOf
    <3>2. gap + HDR <= H.hdr[b].size
      BY <1>1, <1>3, <3>1, Sizes DEF Whole
    <3>3. IsCut(K, H, b, t, gap)
      <4>1. /\ IsCutAt(CutAt(H, b, gap), H, b, b + HDR + gap, gap)
            /\ b + HDR + gap < EndOf(H, b)
        BY <1>2, <3>1, <3>2, CutFields
      <4>2. IsCut(CutAt(H, b, gap), H, b, b + HDR + gap, gap)
        BY <1>2, <3>1, <4>1, CutTiles
      <4> QED BY <3>1, <4>2
    <3> HIDE DEF K, t
    <3>4. /\ Tile(K) /\ t \in Blocks(K) /\ t \notin Blocks(H) /\ K.hdr[t].free = TRUE
          /\ K.hdr[t].size = H.hdr[b].size - gap - HDR
          /\ \A a \in Blocks(H) \ {b} : K.hdr[a].size = H.hdr[a].size
          /\ K.in_use = H.in_use /\ K.peak = H.peak
      BY <3>3 DEF IsCut
    <3>5. Counted(K) /\ Used(K) = Used(H)
      BY <1>2, <3>3, CutCounts
    <3>6. b \notin Used(H)
      BY <1>2 DEF Used
    <3>7. \A a \in Used(H) \ {t} : K.hdr[a].size = H.hdr[a].size
      BY <3>4, <3>6 DEF Used
    <3>8. Figures(K)
      <4>1. InUse(K) = InUse(H)
        <5>1. \A a \in Used(H) : Span(K, a) = Span(H, a)
          BY <3>4, <3>6 DEF Span, EndOf, Used
        <5>2. BytesInUse(K) = BytesInUse(H)
          BY <3>5, <5>1 DEF BytesInUse, Span
        <5> QED BY <5>2 DEF InUse
      <4> QED BY <1>2, <3>4, <4>1 DEF Figures
    <3>9. r <= K.hdr[t].size
      BY <1>1, <1>3, <3>1, <3>4, Sizes DEF Whole
    <3>10. ASSUME NEW x, NEW y, FreePair(K, x, y) PROVE y = t
      <4>1. CutPair(H, b, t, x, y)
        BY <1>2, <3>3, <3>10, CutPairs
      <4>2. CASE y \in Blocks(H) /\ y = EndOf(H, b) /\ H.hdr[y].free = TRUE
        <5>1. FreePair(H, b, y)
          BY <1>2, <4>2 DEF FreePair
        <5> QED BY <1>2, <5>1
      <4> QED BY <1>2, <4>1, <4>2 DEF CutPair
    <3>11. t \in Addr /\ PayloadOf(t) % align = 0
      BY <3>1, <3>4 DEF Blocks, PayloadOf
    <3> QED BY <3>4, <3>5, <3>7, <3>8, <3>9, <3>10, <3>11
  <2> QED BY <2>1, <2>2
<1> HIDE DEF K, t
<1>6. /\ Sound(G) /\ Used(G) = Used(K) \cup {t} /\ t \notin Used(K)
      /\ Undisturbed(G, K, t) /\ r <= G.hdr[t].size
  BY <1>1, <1>5, Carve
<1> HIDE DEF G
<1>7. Undisturbed(G, H, t)
  BY <1>5, <1>6 DEF Undisturbed
<1>8. n <= G.hdr[t].size
  <2>1. t \in Blocks(G) /\ Tile(G)
    BY <1>6 DEF Used, Sound
  <2>2. G.hdr[t].size \in 0..ARENA
    BY <2>1, BlockFacts
  <2> QED BY <1>1, <1>6, <2>2
<1> QED BY <1>5, <1>6, <1>7, <1>8 DEF G, K, t, r, gap

-----------------------------------------------------------------------------
(* The owners.                                                             *)

(* The pointers handed out are those of the blocks in use, aligned as      *)
(* asked for.                                                              *)
Owns(H, L) ==
  /\ DOMAIN L \subseteq Nat /\ {BlockOf(p) : p \in DOMAIN L} = Used(H)
  /\ \A p \in DOMAIN L : p % L[p].align = 0

(* Every owner has at least what it asked for.                             *)
Enough(H, L) == \A p \in DOMAIN L : L[p].size <= H.hdr[BlockOf(p)].size

(* A pointer is given out, or given again with another size.               *)
LEMMA OwnsMore ==
  ASSUME NEW H, NEW L, Owns(H, L), NEW G, NEW p \in Nat, NEW w,
         Used(G) = Used(H) \cup {BlockOf(p)}, Undisturbed(G, H, BlockOf(p)),
         p % w.align = 0
  PROVE  /\ Owns(G, With(L, p, w))
         /\ Enough(H, L) /\ w.size <= G.hdr[BlockOf(p)].size => Enough(G, With(L, p, w))
<1> DEFINE M == With(L, p, w)
<1>1. /\ DOMAIN M = DOMAIN L \cup {p} /\ M[p] = w
      /\ \A q \in DOMAIN L : q # p => M[q] = L[q]
  BY DEF With
<1> HIDE DEF M
<1>2. DOMAIN L \subseteq Nat /\ \A x \in DOMAIN L : BlockOf(x) \in Used(H)
  BY DEF Owns
<1>3. {BlockOf(x) : x \in DOMAIN M} = Used(G)
  BY <1>1 DEF Owns
<1>4. \A x \in DOMAIN M : x % M[x].align = 0
  BY <1>1 DEF Owns
<1>5. Owns(G, M)
  BY <1>1, <1>2, <1>3, <1>4 DEF Owns
<1>6. ASSUME Enough(H, L), w.size <= G.hdr[BlockOf(p)].size PROVE Enough(G, M)
  <2>1. ASSUME NEW x \in DOMAIN M PROVE M[x].size <= G.hdr[BlockOf(x)].size
    <3>1. CASE x = p
      BY <1>1, <1>6, <3>1
    <3>2. CASE x # p
      <4>1. x \in DOMAIN L /\ M[x] = L[x] /\ x \in Nat
        BY <1>1, <1>2, <2>1, <3>2
      <4>2. BlockOf(x) # BlockOf(p)
        BY <3>2, <4>1, Sizes DEF BlockOf
      <4>3. BlockOf(x) \in Used(H) \ {BlockOf(p)}
        BY <1>2, <4>1, <4>2
      <4>4. G.hdr[BlockOf(x)].size = H.hdr[BlockOf(x)].size
        BY <4>3 DEF Undisturbed
      <4>5. L[x].size <= H.hdr[BlockOf(x)].size
        BY <1>6, <4>1 DEF Enough
      <4> QED BY <4>1, <4>4, <4>5
    <3> QED BY <3>1, <3>2
  <2> QED BY <2>1 DEF Enough
<1> QED BY <1>5, <1>6 DEF M

(* A pointer is given up.                                                  *)
LEMMA OwnsLess ==
  ASSUME NEW H, NEW L, Owns(H, L), NEW G, NEW p \in DOMAIN L,
         Used(G) = Used(H) \ {BlockOf(p)}, Undisturbed(G, H, BlockOf(p))
  PROVE  /\ Owns(G, Without(L, p))
         /\ Enough(H, L) => Enough(G, Without(L, p))
<1> DEFINE M == Without(L, p)
<1>1. DOMAIN M = DOMAIN L \ {p} /\ \A q \in DOMAIN M : M[q] = L[q]
  BY DEF Without
<1> HIDE DEF M
<1>2. DOMAIN L \subseteq Nat /\ \A x \in DOMAIN L : BlockOf(x) \in Used(H)
  BY DEF Owns
<1>3. \A x \in DOMAIN M : BlockOf(x) # BlockOf(p)
  BY <1>1, <1>2, Sizes DEF BlockOf
<1>4. {BlockOf(x) : x \in DOMAIN M} = Used(G)
  BY <1>1, <1>3 DEF Owns
<1>5. \A x \in DOMAIN M : x % M[x].align = 0
  BY <1>1 DEF Owns
<1>6. Owns(G, M)
  BY <1>1, <1>2, <1>4, <1>5 DEF Owns
<1>7. ASSUME Enough(H, L) PROVE Enough(G, M)
  <2>1. ASSUME NEW x \in DOMAIN M PROVE M[x].size <= G.hdr[BlockOf(x)].size
    <3>1. x \in DOMAIN L /\ M[x] = L[x]
      BY <1>1, <2>1
    <3>2. BlockOf(x) \in Used(H) \ {BlockOf(p)}
      BY <1>2, <1>3, <2>1, <3>1
    <3>3. G.hdr[BlockOf(x)].size = H.hdr[BlockOf(x)].size
      BY <3>2 DEF Undisturbed
    <3>4. L[x].size <= H.hdr[BlockOf(x)].size
      BY <1>7, <3>1 DEF Enough
    <3> QED BY <3>1, <3>3, <3>4
  <2> QED BY <2>1 DEF Enough
<1> QED BY <1>6, <1>7 DEF M

(* The payload of a header is ALIGN-aligned, and its block is the header.  *)
LEMMA PayloadFacts ==
  ASSUME NEW t \in Addr
  PROVE  /\ PayloadOf(t) \in Nat /\ BlockOf(PayloadOf(t)) = t
         /\ PayloadOf(t) % ALIGN = 0
<1>1. Whole(t) /\ t \in Nat
  BY AddrFacts DEF Whole
<1>2. Whole(t + HDR)
  BY <1>1, Sizes, WholeSums
<1> QED BY <1>1, <1>2, Sizes DEF PayloadOf, BlockOf, Whole

(* A product that divides back did not wrap.                               *)
LEMMA NoWrap ==
  ASSUME NEW c \in Nat, NEW n \in Nat, ~Overflows(c, n)
  PROVE  (c * n) % SIZE_T \in Nat /\ c * n \in Nat /\ c * n <= (c * n) % SIZE_T
<1> DEFINE x == (c * n) % SIZE_T
<1>1. c * n \in Nat /\ SIZE_T \in Nat \ {0}
  BY Sizes
<1>2. x \in Nat
  BY <1>1
<1>3. CASE n = 0
  <2>1. c * n = 0
    BY <1>3
  <2> QED BY <1>1, <1>2, <2>1
<1>4. CASE n # 0
  <2>1. x \div n = c
    BY <1>4 DEF Overflows
  <2> HIDE DEF x
  <2>2. x = n * (x \div n) + (x % n) /\ x % n \in 0..(n - 1)
    BY <1>2, <1>4, RingsAndSlot
  <2>3. x = n * c + (x % n)
    BY <2>1, <2>2
  <2>4. n * c = c * n
    OBVIOUS
  <2>5. c * n <= x
    BY <1>1, <2>2, <2>3, <2>4
  <2> QED BY <1>1, <1>2, <2>5 DEF x
<1> QED BY <1>3, <1>4

-----------------------------------------------------------------------------
(* The operations keep the heap sound.                                     *)

HeapInv == Sound(heap) /\ Owns(heap, live) /\ panicked \in BOOLEAN

(* The sizes that krealloc is asked for do not wrap when rounded.          *)
NoneWraps == \A n \in RESIZES : n + ALIGN <= SIZE_T

Kept ==
  /\ HeapInv'
  /\ NoneWraps /\ Enough(heap, live) => Enough(heap, live)'

(* A step that leaves the list and its owners alone keeps what is known.   *)
LEMMA SameHeap ==
  ASSUME HeapInv, heap' = heap, live' = live, panicked' \in BOOLEAN
  PROVE  Kept
<1>1. Sound(heap') /\ Owns(heap', live')
  BY DEF HeapInv
<1>2. HeapInv'
  BY <1>1 DEF HeapInv, Sound, Tile, Tiled, Coalesced, Counted, Figures, Owns, Idle,
              InUse, BytesInUse, Used, Blocks, EndOf
<1>3. Enough(heap, live)' = Enough(heap, live)
  BY DEF Enough
<1> QED BY <1>2, <1>3 DEF Kept

(* A panic leaves the heap alone.                                          *)
LEMMA PanicKeeps ==
  ASSUME HeapInv, Panic
  PROVE  Kept
BY SameHeap DEF Panic

(* Handing out the payload of block t, new or resized.                     *)
LEMMA GiveKeeps ==
  ASSUME HeapInv, NEW G, Sound(G), NEW t \in Addr, Used(G) = Used(heap) \cup {t},
         Undisturbed(G, heap, t), NEW n, NEW al, PayloadOf(t) % al = 0,
         Give(G, PayloadOf(t), n, al),
         NoneWraps => n <= G.hdr[t].size
  PROVE  Kept
<1> DEFINE p == PayloadOf(t)
           w == [size |-> n, align |-> al]
<1>1. p \in Nat /\ BlockOf(p) = t
  BY PayloadFacts
<1>2. heap' = G /\ live' = With(live, p, w) /\ panicked' = panicked
  BY DEF Give
<1>3. w.size = n /\ w.align = al
  OBVIOUS
<1>4. p % w.align = 0
  BY <1>3
<1> HIDE DEF p, w
<1>5. Owns(heap, live) /\ panicked \in BOOLEAN
  BY DEF HeapInv
<1>6. /\ Owns(G, With(live, p, w))
      /\ Enough(heap, live) /\ w.size <= G.hdr[BlockOf(p)].size => Enough(G, With(live, p, w))
  BY <1>1, <1>4, <1>5, OwnsMore
<1>7. NoneWraps /\ Enough(heap, live) => Enough(G, With(live, p, w))
  BY <1>1, <1>3, <1>6
<1>8. Sound(heap') /\ Owns(heap', live') /\ panicked' \in BOOLEAN
  BY <1>2, <1>5, <1>6
<1>9. NoneWraps /\ Enough(heap, live) => Enough(heap', live')
  BY <1>2, <1>7
<1>10. HeapInv'
  BY <1>8 DEF HeapInv, Sound, Tile, Tiled, Coalesced, Counted, Figures, Owns, Idle,
              InUse, BytesInUse, Used, Blocks, EndOf
<1>11. Enough(heap, live)' = Enough(heap', live')
  BY DEF Enough
<1> QED BY <1>9, <1>10, <1>11 DEF Kept

(* kmalloc and kcalloc hand out a block that Allocate carved.              *)
LEMMA AllocateKeeps ==
  ASSUME HeapInv, NEW m \in Nat, ~CannotAllocate(heap, m), NEW n \in Int, n <= m,
         NEW a, a = Allocate(heap, m), Give(a.heap, PayloadOf(a.block), n, ALIGN)
  PROVE  Kept
<1> DEFINE G == a.heap
           t == a.block
<1>1. Sound(heap)
  BY DEF HeapInv
<1>2. /\ Sound(G) /\ t \in Blocks(heap) /\ Used(G) = Used(heap) \cup {t}
      /\ Undisturbed(G, heap, t) /\ m <= G.hdr[t].size
  BY <1>1, AllocateSound
<1>3. Give(G, PayloadOf(t), n, ALIGN)
  OBVIOUS
<1> HIDE DEF G, t
<1>4. t \in Addr
  BY <1>2 DEF Blocks
<1>5. PayloadOf(t) % ALIGN = 0
  BY <1>4, PayloadFacts
<1>6. G.hdr[t].size \in 0..ARENA
  <2>1. Tile(G) /\ t \in Blocks(G)
    BY <1>2 DEF Sound, Used
  <2> QED BY <2>1, BlockFacts
<1>7. n <= G.hdr[t].size
  BY <1>2, <1>6
<1> QED BY <1>2, <1>3, <1>4, <1>5, <1>7, GiveKeeps

(* kfree of a pointer that is owned gives its block up; of any other it    *)
(* finds no block in use and stops the machine.                            *)
LEMMA FreeKeeps ==
  ASSUME HeapInv, NEW p \in DOMAIN live \cup Stale, kfree(p)
  PROVE  Kept
<1> DEFINE b == BlockOf(p)
           G == Release(heap, b)
<1>1. Sound(heap) /\ Owns(heap, live) /\ panicked \in BOOLEAN
  BY DEF HeapInv
<1>2. CASE Panic
  BY <1>2, PanicKeeps
<1>3. CASE /\ heap.hdr[b].magic /\ ~heap.hdr[b].free
           /\ heap' = G /\ live' = Without(live, p) /\ UNCHANGED panicked
  <2>1. p \in DOMAIN live
    <3>1. SUFFICES ASSUME p \notin DOMAIN live PROVE FALSE
      OBVIOUS
    <3>2. PICK a \in Addr : p = PayloadOf(a)
      BY <3>1 DEF Stale
    <3>3. b = a /\ p \in Nat
      BY <3>2, PayloadFacts
    <3>4. b \in Used(heap)
      BY <1>3, <3>3 DEF Used, Blocks
    <3>5. PICK q \in DOMAIN live : b = BlockOf(q)
      BY <1>1, <3>4 DEF Owns
    <3>6. q \in Nat
      BY <1>1 DEF Owns
    <3>7. q = p
      BY <3>3, <3>5, <3>6, Sizes DEF BlockOf
    <3> QED BY <3>1, <3>7
  <2>2. b \in Used(heap)
    BY <1>1, <2>1 DEF Owns
  <2>3. Sound(G) /\ Used(G) = Used(heap) \ {b} /\ Undisturbed(G, heap, b)
    BY <1>1, <2>2, ReleaseSound
  <2> HIDE DEF G
  <2>4. /\ Owns(G, Without(live, p))
        /\ Enough(heap, live) => Enough(G, Without(live, p))
    BY <1>1, <2>1, <2>3, OwnsLess
  <2>5. Sound(heap') /\ Owns(heap', live') /\ panicked' \in BOOLEAN
    BY <1>1, <1>3, <2>3, <2>4
  <2>6. Enough(heap, live) => Enough(heap', live')
    BY <1>3, <2>4
  <2>7. HeapInv'
    BY <2>5 DEF HeapInv, Sound, Tile, Tiled, Coalesced, Counted, Figures, Owns, Idle,
                InUse, BytesInUse, Used, Blocks, EndOf
  <2>8. Enough(heap, live)' = Enough(heap', live')
    BY DEF Enough
  <2> QED BY <2>6, <2>7, <2>8 DEF Kept
<1> QED BY <1>2, <1>3 DEF kfree

(* krealloc shrinks or grows the block in place, or moves it: the new      *)
(* block is carved before the old one is released.                         *)
LEMMA ReallocKeeps ==
  ASSUME HeapInv, NEW p \in DOMAIN live, NEW n \in RESIZES, krealloc(p, n)
  PROVE  Kept
<1> DEFINE b == BlockOf(p)
           want == align_up(n, ALIGN)
           al == live[p].align
<1>1. Sound(heap) /\ Owns(heap, live) /\ panicked \in BOOLEAN
  BY DEF HeapInv
<1>2. /\ b \in Used(heap) /\ p \in Nat /\ p % al = 0 /\ Tile(heap) /\ b \in Blocks(heap)
      /\ b \in Addr /\ p = PayloadOf(b)
  <2>1. b \in Used(heap) /\ p \in Nat /\ p % al = 0 /\ Tile(heap)
    BY <1>1 DEF Owns, Sound
  <2>2. b \in Blocks(heap) /\ b \in Addr
    BY <2>1 DEF Used, Blocks
  <2> QED BY <2>1, <2>2, Sizes DEF PayloadOf, BlockOf
<1>3. n \in Nat /\ Whole(want) /\ (NoneWraps => n <= want)
  <2>1. n \in Nat
    BY HeapConstants
  <2> QED BY <2>1, Sizes, AlignUp DEF Whole, NoneWraps
<1>4. want \in Nat /\ heap.hdr[b].size \in 0..ARENA
  BY <1>2, <1>3, BlockFacts DEF Whole
<1>5. PayloadOf(b) % al = 0
  BY <1>2
<1> HIDE DEF b, want, al
<1>6. ASSUME NEW G, Sound(G), Used(G) = Used(heap), Undisturbed(G, heap, b),
             want <= G.hdr[b].size, Give(G, p, n, al)
      PROVE  Kept
  <2>1. Give(G, PayloadOf(b), n, al) /\ Used(G) = Used(heap) \cup {b}
    BY <1>2, <1>6
  <2>2. G.hdr[b].size \in 0..ARENA
    <3>1. Tile(G) /\ b \in Blocks(G)
      BY <1>2, <1>6 DEF Sound, Used
    <3> QED BY <3>1, BlockFacts
  <2>3. NoneWraps => n <= G.hdr[b].size
    BY <1>3, <1>4, <1>6, <2>2
  <2> QED BY <1>2, <1>5, <1>6, <2>1, <2>3, GiveKeeps
<1>7. CASE heap.hdr[b].size >= want /\ Give(Shrink(heap, b, want), p, n, al)
  <2> DEFINE G == Shrink(heap, b, want)
  <2>1. want <= heap.hdr[b].size
    BY <1>4, <1>7
  <2>2. /\ Sound(G) /\ Used(G) = Used(heap) /\ Undisturbed(G, heap, b)
        /\ want <= G.hdr[b].size
    BY <1>1, <1>2, <1>3, <2>1, ShrinkSound
  <2>3. Give(G, p, n, al)
    BY <1>7
  <2> HIDE DEF G
  <2> QED BY <1>6, <2>2, <2>3
<1>8. CASE CanGrow(heap, b, want) /\ Give(Grow(heap, b, want), p, n, al)
  <2> DEFINE G == Grow(heap, b, want)
  <2>1. /\ Sound(G) /\ Used(G) = Used(heap) /\ Undisturbed(G, heap, b)
        /\ want <= G.hdr[b].size
    BY <1>1, <1>2, <1>3, <1>8, GrowSound
  <2>2. Give(G, p, n, al)
    BY <1>8
  <2> HIDE DEF G
  <2> QED BY <1>6, <2>1, <2>2
<1>9. CASE Panic
  BY <1>9, PanicKeeps
<1> DEFINE a == Allocate(heap, n)
           A == a.heap
           t == a.block
           q == PayloadOf(t)
           G == Release(A, b)
           w == [size |-> n, align |-> ALIGN]
<1>10. CASE /\ ~CannotAllocate(heap, n) /\ heap' = G
            /\ live' = With(Without(live, p), q, w) /\ UNCHANGED panicked
  <2>1. /\ Sound(A) /\ t \in Blocks(heap) /\ Used(A) = Used(heap) \cup {t}
        /\ t \notin Used(heap) /\ Undisturbed(A, heap, t) /\ n <= A.hdr[t].size
    BY <1>1, <1>3, <1>10, AllocateSound
  <2>2. b \in Used(A) /\ b # t
    BY <1>2, <2>1
  <2> HIDE DEF a, A, t
  <2>3. Sound(G) /\ Used(G) = Used(A) \ {b} /\ Undisturbed(G, A, b)
    BY <2>1, <2>2, ReleaseSound
  <2> HIDE DEF G
  <2>4. t \in Addr
    BY <2>1 DEF Blocks
  <2>5. q \in Nat /\ BlockOf(q) = t /\ q % ALIGN = 0
    BY <2>4, PayloadFacts
  <2>6. w.size = n /\ w.align = ALIGN
    OBVIOUS
  <2>7. q % w.align = 0 /\ w.size <= A.hdr[BlockOf(q)].size
    BY <2>1, <2>5, <2>6
  <2> HIDE DEF w, q
  <2>8. /\ Owns(A, With(live, q, w))
        /\ Enough(heap, live) => Enough(A, With(live, q, w))
    BY <1>1, <2>1, <2>5, <2>7, OwnsMore
  <2>9. p \in DOMAIN With(live, q, w) /\ BlockOf(p) = b
    BY DEF With, b
  <2>10. /\ Owns(G, Without(With(live, q, w), p))
         /\ Enough(A, With(live, q, w)) => Enough(G, Without(With(live, q, w), p))
    BY <2>3, <2>8, <2>9, OwnsLess
  <2>11. p # q
    BY <2>2, <2>5, <2>9
  <2>12. Without(With(live, q, w), p) = With(Without(live, p), q, w)
    BY <2>11 DEF With, Without
  <2>13. Sound(heap') /\ Owns(heap', live') /\ panicked' \in BOOLEAN
    BY <1>1, <1>10, <2>3, <2>10, <2>12
  <2>14. Enough(heap, live) => Enough(heap', live')
    BY <1>10, <2>8, <2>10, <2>12
  <2>15. HeapInv'
    BY <2>13 DEF HeapInv, Sound, Tile, Tiled, Coalesced, Counted, Figures, Owns, Idle,
                 InUse, BytesInUse, Used, Blocks, EndOf
  <2>16. Enough(heap, live)' = Enough(heap', live')
    BY DEF Enough
  <2> QED BY <2>14, <2>15, <2>16 DEF Kept
<1> QED BY <1>7, <1>8, <1>9, <1>10 DEF krealloc, b, want, al

(* kmemalign hands out what it carved behind the front gap.                *)
LEMMA MemalignKeeps ==
  ASSUME HeapInv, NEW align \in ALIGNS, NEW n \in REQUESTS, kmemalign(align, n)
  PROVE  Kept
<1> DEFINE r == Rounded(n)
           able == {x \in Blocks(heap) : Serves(heap, x, r, align)}
           b == Min(able)
           gap == FrontGap(b, align)
           K == IF gap = 0 THEN heap ELSE CutAt(heap, b, gap)
           t == IF gap = 0 THEN b ELSE PayloadOf(b) + gap
           G == Take(split(K, t, r), t)
<1>1. Sound(heap) /\ n \in Nat
  BY HeapConstants DEF HeapInv
<1>2. CASE Panic
  BY <1>2, PanicKeeps
<1>3. CASE ~Impossible(n) /\ able # {} /\ Give(G, PayloadOf(t), n, align)
  <2>1. able \subseteq Addr
    BY DEF Blocks
  <2>2. b \in able
    <3> HIDE DEF able
    <3> QED BY <1>3, <2>1, MinOfBlocks
  <2>3. b \in Blocks(heap) /\ Serves(heap, b, Rounded(n), align)
    BY <2>2
  <2> HIDE DEF b
  <2>4. /\ Sound(G) /\ Used(G) = Used(heap) \cup {t} /\ t \notin Used(heap)
        /\ Undisturbed(G, heap, t) /\ n <= G.hdr[t].size
        /\ t \in Addr /\ PayloadOf(t) % align = 0
    BY <1>1, <1>3, <2>3, MemalignSound
  <2> HIDE DEF G, t
  <2> QED BY <1>3, <2>4, GiveKeeps
<1> QED BY <1>2, <1>3, Zenon DEF kmemalign

-----------------------------------------------------------------------------
(* The theorems.                                                           *)

(* heap_init: one free block over the whole arena.                         *)
LEMMA FreshSound == Sound(Fresh) /\ Used(Fresh) = {}
<1> DEFINE x == [magic |-> TRUE, free |-> TRUE, size |-> ARENA - HDR,
                 prev |-> NULL, next |-> NULL]
           hdr == [a \in Addr |-> IF a = BASE THEN x ELSE NoHeader]
<1>1. ARENA - HDR \in 0..ARENA /\ 0 \in 0..ARENA
  BY Sizes
<1>2. x \in Header /\ NoHeader \in Header
  BY <1>1 DEF Header, NoHeader
<1>3. /\ Fresh.hdr = hdr /\ Fresh.in_use = 0 /\ Fresh.peak = 0 /\ Fresh.used = 0
      /\ Fresh.free = 1
  BY Zenon DEF Fresh
<1>4. hdr \in [Addr -> Header]
  BY <1>2
<1>5. Fresh \in Heaps
  <2>1. Fresh = [hdr |-> hdr, in_use |-> 0, peak |-> 0, used |-> 0, free |-> 1]
    BY Zenon DEF Fresh
  <2> HIDE DEF hdr
  <2> QED BY <1>4, <2>1 DEF Heaps
<1>6. BASE \in Addr
  BY AddrFacts
<1>7. /\ Fresh.hdr[BASE].magic = TRUE /\ Fresh.hdr[BASE].free = TRUE
      /\ Fresh.hdr[BASE].size = ARENA - HDR /\ Fresh.hdr[BASE].prev = NULL
      /\ Fresh.hdr[BASE].next = NULL
      /\ \A a \in Addr : a # BASE => Fresh.hdr[a].magic = FALSE
  BY <1>3, <1>6 DEF NoHeader
<1>8. Blocks(Fresh) = {BASE}
  BY <1>6, <1>7 DEF Blocks
<1>9. EndOf(Fresh, BASE) = BASE + ARENA
  BY <1>7, Sizes DEF EndOf, PayloadOf
<1>10. Tile(Fresh)
  BY <1>5, <1>7, <1>8, <1>9, Sizes DEF Tile, Tiled
<1>11. Used(Fresh) = {} /\ Idle(Fresh) = {BASE}
  BY <1>7, <1>8 DEF Used, Idle
<1>12. Coalesced(Fresh)
  BY <1>7, <1>8 DEF Coalesced
<1>13. Counted(Fresh)
  BY <1>3, <1>11, FS_EmptySet, FS_Singleton DEF Counted
<1>14. Figures(Fresh)
  <2>1. BytesInUse(Fresh) = {}
    BY <1>11 DEF BytesInUse
  <2>2. InUse(Fresh) = 0
    BY <2>1, FS_EmptySet DEF InUse
  <2> QED BY <1>3, <2>2, Sizes DEF Figures
<1> QED BY <1>10, <1>11, <1>12, <1>13, <1>14 DEF Sound

(* Init establishes the invariant.                                         *)
LEMMA InitHeap == Init => HeapInv /\ Enough(heap, live)
<1> SUFFICES ASSUME Init PROVE HeapInv /\ Enough(heap, live)
  OBVIOUS
<1>1. heap = Fresh /\ DOMAIN live = {} /\ panicked = FALSE
  BY DEF Init
<1>2. Sound(heap) /\ Used(heap) = {}
  BY <1>1, FreshSound
<1> QED BY <1>1, <1>2 DEF HeapInv, Owns, Enough

(* One step, whichever operation it is.                                    *)
LEMMA StepHeap ==
  ASSUME HeapInv, [Next]_vars
  PROVE  Kept
<1>1. CASE UNCHANGED vars
  BY <1>1, SameHeap DEF vars, HeapInv
<1>2. ASSUME NEW n \in REQUESTS, kmalloc(n) PROVE Kept
  <2>1. n \in Nat /\ n \in Int /\ n <= n
    BY HeapConstants
  <2>2. CASE Panic
    BY <2>2, PanicKeeps
  <2>3. CASE /\ ~CannotAllocate(heap, n)
             /\ Give(Allocate(heap, n).heap, PayloadOf(Allocate(heap, n).block), n, ALIGN)
    <3> DEFINE a == Allocate(heap, n)
    <3>1. a = Allocate(heap, n) /\ Give(a.heap, PayloadOf(a.block), n, ALIGN)
      BY <2>3
    <3> HIDE DEF a
    <3> QED BY <2>1, <2>3, <3>1, AllocateKeeps
  <2> QED BY <1>2, <2>2, <2>3, Zenon DEF kmalloc
<1>3. ASSUME NEW c \in COUNTS, NEW n \in REQUESTS, kcalloc(c, n) PROVE Kept
  <2> DEFINE total == (c * n) % SIZE_T
             have == c * n
  <2>1. c \in Nat /\ n \in Nat
    BY HeapConstants
  <2>2. CASE Panic
    BY <2>2, PanicKeeps
  <2>3. CASE /\ ~Overflows(c, n) /\ ~CannotAllocate(heap, total)
             /\ Give(Allocate(heap, total).heap, PayloadOf(Allocate(heap, total).block),
                     have, ALIGN)
    <3> DEFINE a == Allocate(heap, total)
    <3>1. a = Allocate(heap, total) /\ Give(a.heap, PayloadOf(a.block), have, ALIGN)
      BY <2>3
    <3>2. total \in Nat /\ have \in Int /\ have <= total
      BY <2>1, <2>3, NoWrap
    <3> HIDE DEF a, total, have
    <3> QED BY <2>3, <3>1, <3>2, AllocateKeeps
  <2> QED BY <1>3, <2>2, <2>3, Zenon DEF kcalloc
<1>4. ASSUME NEW p \in DOMAIN live \cup Stale, kfree(p) PROVE Kept
  BY <1>4, FreeKeeps
<1>5. ASSUME NEW p \in DOMAIN live, NEW n \in RESIZES, krealloc(p, n) PROVE Kept
  BY <1>5, ReallocKeeps
<1>6. ASSUME NEW a \in ALIGNS, NEW n \in REQUESTS, kmemalign(a, n) PROVE Kept
  BY <1>6, MemalignKeeps
<1> QED BY <1>1, <1>2, <1>3, <1>4, <1>5, <1>6 DEF Next

(* The inductive invariant holds after every sequence of calls.            *)
THEOREM Invariance == Spec => []HeapInv
<1>1. Init => HeapInv
  BY InitHeap
<1>2. HeapInv /\ [Next]_vars => HeapInv'
  BY StepHeap DEF Kept
<1> QED BY <1>1, <1>2, PTL DEF Spec

(* What heap_check asserts and what it cannot see, for every arena, every  *)
(* header size and alignment and every sequence of calls: the headers tile *)
(* the arena, no two neighbours are free, the O(1) statistics count the    *)
(* list and every payload is aligned as its owner asked.                   *)
THEOREM HeapChecksAlways == Spec => []HeapChecks
<1>1. HeapInv => HeapChecks
  <2> SUFFICES ASSUME HeapInv PROVE HeapChecks
    OBVIOUS
  <2>1. /\ Tile(heap) /\ Coalesced(heap) /\ Counted(heap) /\ Figures(heap)
        /\ Owns(heap, live) /\ panicked \in BOOLEAN
    BY DEF HeapInv, Sound
  <2>2. heap.hdr \in [Addr -> Header] /\ Tiled(heap)
    BY <2>1 DEF Tile, Heaps
  <2>3. TypeOK
    BY <2>1, <2>2 DEF TypeOK, Header, Figures
  <2>4. StatsAgree(heap)
    BY <2>1 DEF StatsAgree, Counted, Figures, InUse, Idle
  <2>5. AlignedPayloads
    BY <2>1 DEF AlignedPayloads, Owns
  <2> QED BY <2>1, <2>2, <2>3, <2>4, <2>5 DEF HeapChecks
<1> QED BY <1>1, Invariance, PTL

(* Every owner has its memory and no block is in use without one, provided *)
(* krealloc is not asked for a size that wraps when it is rounded: unlike  *)
(* kmalloc it rounds without comparing with the arena first.               *)
THEOREM OwnersAlways ==
  ASSUME NoneWraps
  PROVE  Spec => []OwnersHaveTheirMemory
<1>1. Init => HeapInv /\ Enough(heap, live)
  BY InitHeap
<1>2. HeapInv /\ Enough(heap, live) /\ [Next]_vars => HeapInv' /\ Enough(heap, live)'
  BY StepHeap DEF Kept
<1>3. HeapInv /\ Enough(heap, live) => OwnersHaveTheirMemory
  BY DEF HeapInv, Owns, Enough, OwnersHaveTheirMemory
<1> QED BY <1>1, <1>2, <1>3, PTL DEF Spec
=============================================================================
