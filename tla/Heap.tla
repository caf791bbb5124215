-------------------------------- MODULE Heap --------------------------------
(***************************************************************************)
(* The kernel heap (mm/heap.c): first fit over one arena, every block with *)
(* a header in a doubly linked list ordered by address.  The arena is a    *)
(* function from addresses to what a header there would read; an address   *)
(* whose magic is not set holds no header; what owners write into their    *)
(* payloads is never taken for a header.  All sizes are size_t values,     *)
(* taken modulo SIZE_T.  A panic stops the machine.                        *)
(***************************************************************************)
EXTENDS Integers, FiniteSets, FiniteSetsExt

CONSTANTS
  SIZE_T,       \* the number of values of size_t
  ALIGN,        \* payload alignment
  HDR,          \* bytes of a block header
  MIN_PAYLOAD,  \* smallest split remainder worth keeping
  BASE,         \* address of the arena
  ARENA,        \* arena_bytes
  REQUESTS,     \* sizes that callers ask for
  RESIZES,      \* sizes that krealloc is asked for
  COUNTS,       \* element counts that kcalloc is asked for
  ALIGNS        \* alignments that kmemalign is asked for

ASSUME HeapConstants ==
  /\ {SIZE_T, ALIGN, HDR, MIN_PAYLOAD, ARENA} \subseteq Nat \ {0}
  /\ BASE \in Nat /\ BASE % ALIGN = 0 /\ HDR % ALIGN = 0 /\ ARENA % ALIGN = 0
  /\ SIZE_T % ALIGN = 0 /\ ARENA > HDR + MIN_PAYLOAD
  /\ SIZE_T > BASE + ARENA
  /\ REQUESTS \cup RESIZES \subseteq 0..(SIZE_T - 1)
  /\ \A a \in ALIGNS : a \in Nat \ {0} /\ a % ALIGN = 0
  /\ COUNTS \subseteq 0..(SIZE_T - 1)

VARIABLES
  heap,      \* [hdr, in_use, peak, used, free]: the arena and the statistics
  live,      \* history: pointer -> the size and alignment its owner asked for
  panicked   \* the machine has stopped in panic()

vars == <<heap, live, panicked>>

NULL == -1
Addr == {a \in BASE..(BASE + ARENA - 1) : a % ALIGN = 0}
NoHeader == [magic |-> FALSE, free |-> FALSE, size |-> 0,
             prev |-> NULL, next |-> NULL]

align_up(v, a) == (((v + a - 1) % SIZE_T) \div a) * a

PayloadOf(b) == b + HDR
BlockOf(p) == p - HDR
Blocks(H) == {a \in Addr : H.hdr[a].magic}

(* heap_init: one free block over the whole arena.                         *)
Fresh ==
  [hdr    |-> [a \in Addr |->
                 IF a = BASE THEN [magic |-> TRUE, free |-> TRUE,
                                   size |-> ARENA - HDR, prev |-> NULL,
                                   next |-> NULL]
                 ELSE NoHeader],
   in_use |-> 0, peak |-> 0, used |-> 0, free |-> 1]

-----------------------------------------------------------------------------
(* Helpers on the arena.                                                   *)

(* Point the prev link of the block at n, if any, to b.                    *)
Relink(hdr, n, b) ==
  IF n = NULL THEN hdr ELSE [hdr EXCEPT ![n].prev = b]

(* Cut block b after `need` payload bytes: a free block of what is left.   *)
CutAt(H, b, need) ==
  LET rest == PayloadOf(b) + need
      old  == H.hdr[b]
      cut  == [H.hdr EXCEPT
                 ![b]    = [old EXCEPT !.size = need, !.next = rest],
                 ![rest] = [magic |-> TRUE, free |-> TRUE,
                            size |-> old.size - need - HDR,
                            prev |-> b, next |-> old.next]]
  IN [H EXCEPT !.hdr = Relink(cut, old.next, rest), !.free = @ + 1]

split(H, b, need) ==
  IF H.hdr[b].size < need + HDR + MIN_PAYLOAD THEN H ELSE CutAt(H, b, need)

coalesce_next(H, b) ==
  LET n == H.hdr[b].next
  IN IF n = NULL THEN H
     ELSE IF ~H.hdr[n].free THEN H
     ELSE LET grown == [H.hdr EXCEPT
                          ![b] = [@ EXCEPT !.size = H.hdr[b].size + HDR + H.hdr[n].size,
                                           !.next = H.hdr[n].next],
                          ![n] = NoHeader]
          IN [H EXCEPT !.hdr = Relink(grown, H.hdr[n].next, b), !.free = @ - 1]

(* Take free block b into use, with its accounting.                        *)
Take(H, b) ==
  LET u == H.in_use + H.hdr[b].size
  IN [H EXCEPT !.hdr[b].free = FALSE, !.free = @ - 1, !.used = @ + 1,
               !.in_use = u, !.peak = Max({@, u})]

(* round_request: 0 becomes 1, more than the arena is impossible.          *)
Impossible(n) == n > ARENA
Rounded(n) == align_up(IF n = 0 THEN 1 ELSE n, ALIGN)

Fits(H, n) == {b \in Blocks(H) : H.hdr[b].free /\ H.hdr[b].size >= n}

(* kmalloc on the arena: the first block that fits, split and taken.       *)
Allocate(H, n) ==
  LET b == Min(Fits(H, Rounded(n)))
  IN [block |-> b, heap |-> Take(split(H, b, Rounded(n)), b)]

CannotAllocate(H, n) == Impossible(n) \/ Fits(H, Rounded(n)) = {}

(* kfree on the arena, past the header checks.                             *)
Release(H, b) ==
  LET f == coalesce_next([H EXCEPT !.hdr[b].free = TRUE, !.used = @ - 1,
                                   !.free = @ + 1,
                                   !.in_use = @ - H.hdr[b].size], b)
      p == f.hdr[b].prev
  IN IF p = NULL THEN f
     ELSE IF f.hdr[p].free THEN coalesce_next(f, p) ELSE f

-----------------------------------------------------------------------------
(* The operations.                                                         *)

Panic ==
  /\ panicked' = TRUE
  /\ UNCHANGED <<heap, live>>

With(f, p, w) == [q \in DOMAIN f \cup {p} |-> IF q = p THEN w ELSE f[q]]
Without(f, p) == [q \in DOMAIN f \ {p} |-> f[q]]

Give(H, p, n, align) ==
  /\ heap' = H
  /\ live' = With(live, p, [size |-> n, align |-> align])
  /\ UNCHANGED panicked

kmalloc(n) ==
  /\ ~panicked
  /\ \/ CannotAllocate(heap, n) /\ Panic
     \/ /\ ~CannotAllocate(heap, n)
        /\ LET a == Allocate(heap, n) IN Give(a.heap, PayloadOf(a.block), n, ALIGN)

(* Mutant: the product is not checked.                                     *)
OverflowsUnchecked(c, n) == FALSE

(* The product of kcalloc does not divide back.                            *)
Overflows(c, n) == n # 0 /\ ((c * n) % SIZE_T) \div n # c

(* kcalloc: the owner means to have c * n bytes, whatever size_t holds.    *)
kcalloc(c, n) ==
  LET total == (c * n) % SIZE_T
  IN /\ ~panicked
     /\ \/ (Overflows(c, n) \/ CannotAllocate(heap, total)) /\ Panic
        \/ /\ ~Overflows(c, n)
           /\ ~CannotAllocate(heap, total)
           /\ LET a == Allocate(heap, total)
              IN Give(a.heap, PayloadOf(a.block), c * n, ALIGN)

kfree(p) ==
  /\ ~panicked
  /\ LET h == heap.hdr[BlockOf(p)]
     IN \/ (~h.magic \/ h.free) /\ Panic
        \/ /\ h.magic
           /\ ~h.free
           /\ heap' = Release(heap, BlockOf(p))
           /\ live' = Without(live, p)
           /\ UNCHANGED panicked

(* Shrink in place: the remainder, not b, may now have a free neighbour.   *)
Shrink(H, b, want) ==
  LET s == split(H, b, want)
      t == [s EXCEPT !.in_use = @ - (H.hdr[b].size - s.hdr[b].size)]
  IN IF s.hdr[b].size = H.hdr[b].size THEN H
     ELSE IF s.hdr[b].next = NULL THEN t ELSE coalesce_next(t, s.hdr[b].next)

(* Mutant: a block that grows in place is not accounted for.               *)
GrowUncounted(H, b, want) == split(coalesce_next(H, b), b, want)

Grow(H, b, want) ==
  LET s == split(coalesce_next(H, b), b, want)
      u == H.in_use - H.hdr[b].size + s.hdr[b].size
  IN [s EXCEPT !.hdr[b].free = FALSE, !.in_use = u, !.peak = Max({@, u})]

CanGrow(H, b, want) ==
  LET n == H.hdr[b].next
  IN n # NULL /\ H.hdr[n].free /\ H.hdr[b].size + HDR + H.hdr[n].size >= want

(* krealloc of a live pointer to n > 0 bytes; n is rounded without the     *)
(* bound that kmalloc puts on it.  Pointers that were freed are left to    *)
(* kfree: krealloc looks at the magic word only, not at `free`.            *)
krealloc(p, n) ==
  LET b    == BlockOf(p)
      want == align_up(n, ALIGN)
  IN /\ ~panicked
     /\ n > 0
     /\ \/ /\ heap.hdr[b].size >= want
           /\ Give(Shrink(heap, b, want), p, n, live[p].align)
        \/ /\ heap.hdr[b].size < want
           /\ CanGrow(heap, b, want)
           /\ Give(Grow(heap, b, want), p, n, live[p].align)
        \/ /\ heap.hdr[b].size < want
           /\ ~CanGrow(heap, b, want)
           /\ CannotAllocate(heap, n)
           /\ Panic
        \/ /\ heap.hdr[b].size < want
           /\ ~CanGrow(heap, b, want)
           /\ ~CannotAllocate(heap, n)
           /\ LET a == Allocate(heap, n)
                  q == PayloadOf(a.block)
              IN /\ heap' = Release(a.heap, b)
                 /\ live' = With(Without(live, p), q, [size |-> n, align |-> ALIGN])
                 /\ UNCHANGED panicked

(* kmemalign: where the aligned payload of free block b would be.          *)
AlignedIn(b, align) ==
  LET pl == PayloadOf(b)
      up == align_up(pl + HDR, align)
  IN IF pl % align = 0 THEN pl
     ELSE IF up - HDR = pl THEN up + align ELSE up

(* What that leaves in front.                                              *)
FrontGap(b, align) ==
  IF PayloadOf(b) % align = 0 THEN 0
  ELSE AlignedIn(b, align) - HDR - PayloadOf(b)

Serves(H, b, n, align) ==
  /\ H.hdr[b].free
  /\ FrontGap(b, align) = 0 \/ FrontGap(b, align) >= MIN_PAYLOAD
  /\ AlignedIn(b, align) + n <= PayloadOf(b) + H.hdr[b].size

kmemalign(align, n) ==
  LET r    == Rounded(n)
      able == {b \in Blocks(heap) : Serves(heap, b, r, align)}
      b    == Min(able)
      gap  == FrontGap(b, align)
      H    == IF gap = 0 THEN heap ELSE CutAt(heap, b, gap)
      t    == IF gap = 0 THEN b ELSE PayloadOf(b) + gap
  IN /\ ~panicked
     /\ align > ALIGN
     /\ \/ (Impossible(n) \/ able = {}) /\ Panic
        \/ /\ ~Impossible(n)
           /\ able # {}
           /\ Give(Take(split(H, t, r), t), PayloadOf(t), n, align)

-----------------------------------------------------------------------------
Init ==
  /\ heap = Fresh
  /\ live = <<>>
  /\ panicked = FALSE

(* Pointers a caller may free although it no longer owns them.             *)
Stale == {PayloadOf(a) : a \in Addr} \ DOMAIN live

Next ==
  \/ \E n \in REQUESTS : kmalloc(n)
  \/ \E c \in COUNTS, n \in REQUESTS : kcalloc(c, n)
  \/ \E p \in DOMAIN live \cup Stale : kfree(p)
  \/ \E p \in DOMAIN live, n \in RESIZES : krealloc(p, n)
  \/ \E a \in ALIGNS, n \in REQUESTS : kmemalign(a, n)

Spec == Init /\ [][Next]_vars

-----------------------------------------------------------------------------
(* Properties.                                                             *)

TypeOK ==
  /\ DOMAIN heap.hdr = Addr
  /\ \A a \in Addr : heap.hdr[a].size \in 0..ARENA
                     /\ heap.hdr[a].prev \in Addr \cup {NULL}
                     /\ heap.hdr[a].next \in Addr \cup {NULL}
  /\ heap.peak \in 0..ARENA
  /\ panicked \in BOOLEAN

EndOf(H, b) == PayloadOf(b) + H.hdr[b].size

(* What heap_check asserts, plus what it cannot see: the headers tile the  *)
(* arena in address order, the links agree in both directions and no       *)
(* address outside the list still carries a magic word, which is what      *)
(* catches a double free of an absorbed block.                             *)
Tiled(H) ==
  /\ BASE \in Blocks(H) /\ H.hdr[BASE].prev = NULL
  /\ \A b \in Blocks(H) :
       /\ H.hdr[b].next = IF EndOf(H, b) = BASE + ARENA THEN NULL ELSE EndOf(H, b)
       /\ H.hdr[b].next # NULL =>
            H.hdr[b].next \in Blocks(H) /\ H.hdr[H.hdr[b].next].prev = b
       /\ \A c \in Blocks(H) : c > b => c >= EndOf(H, b)

(* No two neighbours are both free.                                        *)
Coalesced(H) ==
  \A b \in Blocks(H) :
    H.hdr[b].next # NULL => ~(H.hdr[b].free /\ H.hdr[H.hdr[b].next].free)

Used(H) == {b \in Blocks(H) : ~H.hdr[b].free}

BytesInUse(H) == UNION {PayloadOf(b)..(EndOf(H, b) - 1) : b \in Used(H)}

(* The O(1) statistics agree with the arena after every operation; a       *)
(* krealloc that absorbs or sheds memory is the case heap_check misses.    *)
StatsAgree(H) ==
  /\ H.in_use = Cardinality(BytesInUse(H))
  /\ H.used = Cardinality(Used(H))
  /\ H.free = Cardinality(Blocks(H) \ Used(H))
  /\ H.peak >= H.in_use

(* Memory asked for with kmemalign is aligned as asked, wherever the free  *)
(* block it was carved from began, and every other payload to ALIGN.       *)
AlignedPayloads == \A p \in DOMAIN live : p % live[p].align = 0

(* After every operation, in any order of them, the list is sound, the     *)
(* statistics count it and every payload has the alignment asked for.      *)
HeapChecks ==
  TypeOK /\ Tiled(heap) /\ Coalesced(heap) /\ StatsAgree(heap) /\ AlignedPayloads

(* Every pointer handed out and not freed is a block in use that holds     *)
(* what its owner asked for, and there is no other block in use: no two    *)
(* owners share memory and a double free never reaches the list.           *)
OwnersHaveTheirMemory ==
  /\ {BlockOf(p) : p \in DOMAIN live} = Used(heap)
  /\ \A p \in DOMAIN live : live[p].size <= heap.hdr[BlockOf(p)].size
=============================================================================
