---------------------------- MODULE FiberProofs ----------------------------
(***************************************************************************)
(* Proofs about the scheduler for every table size and every set of stack  *)
(* blocks.  The safety properties of Fiber follow from one inductive       *)
(* invariant, IInv, whose conjuncts say what is known of the table, of the *)
(* heap, of the saved contexts, of the poison bands and of the round robin.*)
(***************************************************************************)
EXTENDS Fiber, TLAPS

(* Before fiber_init, and after fiber_reset, nothing is owned by anyone.   *)
DownInv ==
  ~inited => /\ cpu = RootStack
             /\ pc = "body"
             /\ pending_block = NULL
             /\ heap = {}
             /\ \A f \in Slots : state[f] = FREE /\ block[f] = NULL

(* The root and the running fiber are READY, and rsp is on the latter.     *)
TableInv ==
  inited => /\ state[0] = READY
            /\ state[current] = READY
            /\ cpu = StackOf(current)
            /\ block[0] \in {NULL, RootStack}
            /\ ~owns_block[0]

(* A slot holds a heap block exactly while its fiber is READY; blocks and  *)
(* the pending block are pairwise distinct and exhaust the heap.           *)
HeapInv ==
  /\ \A f \in Slots \ {0} :
       IF state[f] = READY THEN block[f] \in heap /\ owns_block[f] ELSE block[f] = NULL
  /\ \A f, g \in Slots : block[f] = block[g] /\ f # g => block[f] = NULL
  /\ pending_block \in heap \cup {NULL}
  /\ \A f \in Slots : pending_block = block[f] => pending_block = NULL
  /\ \A b \in heap : b = pending_block \/ \E f \in Slots : block[f] = b

(* A READY fiber off the CPU has a context saved on its own stack, made    *)
(* by fiber_create or by switch_to.                                        *)
SavedInv ==
  inited => \A f \in Slots : state[f] = READY /\ f # current =>
              sp[f] = StackOf(f) /\ frame[f] \in {"trampoline", "switch_to"}

(* Only the running fiber, or an exited one, can have a damaged stack.     *)
BandInv ==
  /\ inited => \A f \in Slots : state[f] = READY /\ f # current =>
                 StackOf(f) \notin damaged
  /\ ~root_hint => RootStack \notin damaged
  /\ inited /\ block[0] = NULL => RootStack \notin damaged
  /\ inited /\ block[0] = RootStack => root_hint

(* Slots that ran since f did lie between f and the running slot.          *)
RoundInv ==
  inited => /\ ranSince[current] = {}
            /\ \A f \in Slots : state[f] = READY /\ f # current =>
                 \A g \in ranSince[f] : Dist(f, g) <= Dist(f, current)

IInv ==
  /\ TypeOK
  /\ DownInv
  /\ TableInv
  /\ HeapInv
  /\ SavedInv
  /\ BandInv
  /\ RoundInv
  /\ NoWildSwitch

-----------------------------------------------------------------------------
(* A slot between `c` and `f` in the round is farther from `f` than `c` is *)
(* (Dist is the walk of core/fiber.c's next_runnable).                     *)
LEMMA DistBetween ==
  ASSUME NEW f \in Slots, NEW c \in Slots, NEW n \in Slots,
         f # c, f # n, Dist(c, n) <= Dist(c, f)
  PROVE  Dist(f, c) < Dist(f, n)
BY FiberMaxAssumption DEF Slots, Dist

(* Distances are integers.                                                 *)
LEMMA DistInt == \A a, b \in Slots : Dist(a, b) \in Int
BY FiberMaxAssumption DEF Slots, Dist

(* The initial state of the table satisfies the invariant.                 *)
LEMMA InitIInv == Init => IInv
<1> SUFFICES ASSUME Init PROVE IInv
  OBVIOUS
<1> USE FiberMaxAssumption, StackAssumption, NullAssumption DEF Init
<1>1. TypeOK
  BY DEF TypeOK, Stacks, Slots, FREE, READY, DEAD
<1>2. DownInv /\ TableInv /\ HeapInv /\ SavedInv /\ BandInv /\ RoundInv
  BY DEF DownInv, TableInv, HeapInv, SavedInv, BandInv, RoundInv, FREE, READY, Slots
<1>3. NoWildSwitch
  BY DEF NoWildSwitch
<1> QED
  BY <1>1, <1>2, <1>3 DEF IInv

(* A panic other than the unreachable ones keeps the invariant.            *)
LEMMA PanicIInv ==
  ASSUME IInv, NEW why \in {"guard", "root_exit", "reset"}, Panic(why),
         why = "guard" => \E f \in Slots : block[f] \in damaged
  PROVE  IInv'
<1> USE DEF IInv, Panic, sched, slots
<1>1. TypeOK'
  BY DEF TypeOK
<1>2. DownInv' /\ TableInv' /\ HeapInv' /\ SavedInv' /\ BandInv' /\ RoundInv'
  BY DEF DownInv, TableInv, HeapInv, SavedInv, BandInv, RoundInv, StackOf, Dist
<1>3. NoWildSwitch'
  BY DEF NoWildSwitch
<1> QED
  BY <1>1, <1>2, <1>3

(* Recording the root's bounds touches nothing the invariant reads back.   *)
LEMMA SetIInv == ASSUME IInv, fiber_root_stack_set PROVE IInv'
<1> USE FiberMaxAssumption, StackAssumption, NullAssumption
    DEF IInv, TypeOK, fiber_root_stack_set, InBody, Free, sched, slots, Slots, Stacks, FREE, READY, DEAD
<1>1. TypeOK'
  OBVIOUS
<1>2. DownInv'
  BY DEF DownInv
<1>3. TableInv'
  BY DEF TableInv, StackOf, DownInv
<1>4. HeapInv'
  BY DEF HeapInv, DownInv, TableInv
<1>5. SavedInv'
  BY DEF SavedInv, StackOf, HeapInv, TableInv, DownInv
<1>6. BandInv'
  BY DEF BandInv, StackOf, HeapInv, TableInv, DownInv
<1>7. RoundInv'
  BY DEF RoundInv, Dist, TableInv
<1>8. NoWildSwitch'
  BY DEF NoWildSwitch
<1> QED
  BY <1>1, <1>2, <1>3, <1>4, <1>5, <1>6, <1>7, <1>8

(* Adopting the running context as slot 0.                                 *)
LEMMA FiberInitIInv == ASSUME IInv, fiber_init PROVE IInv'
<1> USE FiberMaxAssumption, StackAssumption, NullAssumption
    DEF IInv, TypeOK, fiber_init, InBody, Free, sched, slots, Slots, Stacks, FREE, READY, DEAD
<1>1. TypeOK'
  OBVIOUS
<1>2. DownInv'
  BY DEF DownInv
<1>3. TableInv'
  BY DEF TableInv, StackOf, DownInv
<1>4. HeapInv'
  BY DEF HeapInv, DownInv, TableInv
<1>5. SavedInv'
  BY DEF SavedInv, StackOf, HeapInv, TableInv, DownInv
<1>6. BandInv'
  BY DEF BandInv, StackOf, HeapInv, TableInv, DownInv
<1>7. RoundInv'
  BY DEF RoundInv, Dist, TableInv
<1>8. NoWildSwitch'
  BY DEF NoWildSwitch
<1> QED
  BY <1>1, <1>2, <1>3, <1>4, <1>5, <1>6, <1>7, <1>8

(* A new fiber takes a free slot and a block nobody owns.                  *)
LEMMA CreateIInv == ASSUME IInv, fiber_create PROVE IInv'
<1> USE FiberMaxAssumption, StackAssumption, NullAssumption
    DEF IInv, TypeOK, fiber_create, FreeSlot, InBody, Free, sched, slots, Slots, Stacks, FREE, READY, DEAD
<1>1. TypeOK'
  OBVIOUS
<1>2. DownInv'
  BY DEF DownInv
<1>3. TableInv'
  BY DEF TableInv, StackOf, DownInv
<1>4. HeapInv'
  <2>1. PICK f \in Slots, b \in Blocks \ heap :
          /\ f # 0 /\ state[f] = FREE /\ f # current
          /\ heap' = heap \cup {b}
          /\ block' = [block EXCEPT ![f] = b]
          /\ owns_block' = [owns_block EXCEPT ![f] = TRUE]
          /\ state' = [state EXCEPT ![f] = READY]
          /\ pending_block' = pending_block
    BY DEF TableInv
  <2>2. \A g \in Slots : block[g] # b
    BY <2>1 DEF HeapInv, TableInv
  <2>3. pending_block # b
    BY <2>1 DEF HeapInv
  <2> QED
    BY <2>1, <2>2, <2>3 DEF HeapInv
<1>5. SavedInv'
  BY DEF SavedInv, StackOf, HeapInv, TableInv, DownInv
<1>6. BandInv'
  BY DEF BandInv, StackOf, HeapInv, TableInv, DownInv
<1>7. RoundInv'
  BY DEF RoundInv, Dist, TableInv
<1>8. NoWildSwitch'
  BY DEF NoWildSwitch
<1> QED
  BY <1>1, <1>2, <1>3, <1>4, <1>5, <1>6, <1>7, <1>8

(* A refused creation leaves the slot free.                                *)
LEMMA RefusedIInv == ASSUME IInv, fiber_create_refused PROVE IInv'
<1> USE FiberMaxAssumption, StackAssumption, NullAssumption
    DEF IInv, TypeOK, fiber_create_refused, FreeSlot, InBody, Free, sched, slots, Slots, Stacks, FREE, READY, DEAD
<1>1. TypeOK'
  OBVIOUS
<1>2. DownInv'
  BY DEF DownInv
<1>3. TableInv'
  BY DEF TableInv, StackOf, DownInv
<1>4. HeapInv'
  BY DEF HeapInv, DownInv, TableInv
<1>5. SavedInv'
  BY DEF SavedInv, StackOf, HeapInv, TableInv, DownInv
<1>6. BandInv'
  BY DEF BandInv, StackOf, HeapInv, TableInv, DownInv
<1>7. RoundInv'
  BY DEF RoundInv, Dist, TableInv
<1>8. NoWildSwitch'
  BY DEF NoWildSwitch
<1> QED
  BY <1>1, <1>2, <1>3, <1>4, <1>5, <1>6, <1>7, <1>8

(* The far side of a switch releases the pending block, not the one under it. *)
LEMMA ReapIInv == ASSUME IInv, reap PROVE IInv'
<1> USE FiberMaxAssumption, StackAssumption, NullAssumption
    DEF IInv, TypeOK, reap, InBody, Free, sched, slots, Slots, Stacks, FREE, READY, DEAD
<1>1. TypeOK'
  OBVIOUS
<1>2. DownInv'
  BY DEF DownInv
<1>3. TableInv'
  BY DEF TableInv, StackOf, DownInv
<1>4. HeapInv'
  BY DEF HeapInv, DownInv, TableInv
<1>5. SavedInv'
  BY DEF SavedInv, StackOf, HeapInv, TableInv, DownInv
<1>6. BandInv'
  BY DEF BandInv, StackOf, HeapInv, TableInv, DownInv
<1>7. RoundInv'
  BY DEF RoundInv, Dist, TableInv
<1>8. NoWildSwitch'
  BY DEF NoWildSwitch
<1> QED
  BY <1>1, <1>2, <1>3, <1>4, <1>5, <1>6, <1>7, <1>8

(* Entering fiber_join only records the handle.                            *)
LEMMA JoinIInv == ASSUME IInv, NEW h \in Slots, fiber_join(h) PROVE IInv'
<1> USE FiberMaxAssumption, StackAssumption, NullAssumption
    DEF IInv, TypeOK, fiber_join, InBody, Free, sched, slots, Slots, Stacks, FREE, READY, DEAD
<1>1. TypeOK'
  OBVIOUS
<1>2. DownInv'
  BY DEF DownInv
<1>3. TableInv'
  BY DEF TableInv, StackOf, DownInv
<1>4. HeapInv'
  BY DEF HeapInv, DownInv, TableInv
<1>5. SavedInv'
  BY DEF SavedInv, StackOf, HeapInv, TableInv, DownInv
<1>6. BandInv'
  BY DEF BandInv, StackOf, HeapInv, TableInv, DownInv
<1>7. RoundInv'
  BY DEF RoundInv, Dist, TableInv
<1>8. NoWildSwitch'
  BY DEF NoWildSwitch
<1> QED
  BY <1>1, <1>2, <1>3, <1>4, <1>5, <1>6, <1>7, <1>8

(* Leaving fiber_join empty-handed.                                        *)
LEMMA GivesUpIInv == ASSUME IInv, JoinGivesUp PROVE IInv'
<1> USE FiberMaxAssumption, StackAssumption, NullAssumption
    DEF IInv, TypeOK, JoinGivesUp, InJoin, InBody, Free, sched, slots, Slots, Stacks, FREE, READY, DEAD
<1>1. TypeOK'
  OBVIOUS
<1>2. DownInv'
  BY DEF DownInv
<1>3. TableInv'
  BY DEF TableInv, StackOf, DownInv
<1>4. HeapInv'
  BY DEF HeapInv, DownInv, TableInv
<1>5. SavedInv'
  BY DEF SavedInv, StackOf, HeapInv, TableInv, DownInv
<1>6. BandInv'
  BY DEF BandInv, StackOf, HeapInv, TableInv, DownInv
<1>7. RoundInv'
  BY DEF RoundInv, Dist, TableInv
<1>8. NoWildSwitch'
  BY DEF NoWildSwitch
<1> QED
  BY <1>1, <1>2, <1>3, <1>4, <1>5, <1>6, <1>7, <1>8

(* Releasing the slot of an exited fiber frees no memory still in use.     *)
LEMMA ReleasesIInv == ASSUME IInv, JoinReleases PROVE IInv'
<1> USE FiberMaxAssumption, StackAssumption, NullAssumption
    DEF IInv, TypeOK, JoinReleases, InJoin, InBody, Free, sched, slots, Slots, Stacks, FREE, READY, DEAD
<1>1. TypeOK'
  OBVIOUS
<1>2. DownInv'
  BY DEF DownInv
<1>3. TableInv'
  BY DEF TableInv, StackOf, DownInv
<1>4. HeapInv'
  BY DEF HeapInv, DownInv, TableInv
<1>5. SavedInv'
  BY DEF SavedInv, StackOf, HeapInv, TableInv, DownInv
<1>6. BandInv'
  BY DEF BandInv, StackOf, HeapInv, TableInv, DownInv
<1>7. RoundInv'
  BY DEF RoundInv, Dist, TableInv
<1>8. NoWildSwitch'
  BY DEF NoWildSwitch
<1> QED
  BY <1>1, <1>2, <1>3, <1>4, <1>5, <1>6, <1>7, <1>8

(* Overrunning the running fiber's stack.                                  *)
LEMMA OverflowIInv == ASSUME IInv, StackOverflow PROVE IInv'
<1> USE FiberMaxAssumption, StackAssumption, NullAssumption
    DEF IInv, TypeOK, StackOverflow, InBody, Free, sched, slots, Slots, Stacks, FREE, READY, DEAD
<1>1. TypeOK'
  OBVIOUS
<1>2. DownInv'
  BY DEF DownInv
<1>3. TableInv'
  BY DEF TableInv, StackOf, DownInv
<1>4. HeapInv'
  BY DEF HeapInv, DownInv, TableInv
<1>5. SavedInv'
  BY DEF SavedInv, StackOf, HeapInv, TableInv, DownInv
<1>6. BandInv'
  BY DEF BandInv, StackOf, HeapInv, TableInv, DownInv
<1>7. RoundInv'
  BY DEF RoundInv, Dist, TableInv
<1>8. NoWildSwitch'
  BY DEF NoWildSwitch
<1> QED
  BY <1>1, <1>2, <1>3, <1>4, <1>5, <1>6, <1>7, <1>8

(* fiber_check_stacks only ever accuses a fiber whose band is damaged: the *)
(* stack pointers are always where they should be.                         *)
LEMMA GuardIsReal ==
  ASSUME IInv, InBody, inited, fiber_check_stacks # {}
  PROVE  \E f \in Slots : block[f] \in damaged
<1>1. PICK f \in Slots : /\ state[f] # FREE
                         /\ block[f] # NULL
                         /\ block[f] \in damaged \/ SpBad(f)
  BY DEF fiber_check_stacks
<1>2. state[f] = READY
  BY <1>1, FiberMaxAssumption DEF IInv, HeapInv, TableInv, Slots
<1>3. block[f] = StackOf(f)
  BY <1>1, <1>2 DEF IInv, TableInv, StackOf
<1>4. ~SpBad(f)
  BY <1>2, <1>3 DEF IInv, TableInv, SavedInv, SpBad
<1> QED
  BY <1>1, <1>4

(* The running fiber's own stack is intact when the check finds nothing.   *)
LEMMA CheckedStackIntact ==
  ASSUME IInv, inited, fiber_check_stacks = {}
  PROVE  StackOf(current) \notin damaged
<1>1. current \in Slots /\ state[current] # FREE
  BY DEF IInv, TypeOK, TableInv, FREE, READY
<1>2. CASE block[current] = NULL
  BY <1>1, <1>2, StackAssumption DEF IInv, TypeOK, HeapInv, TableInv, BandInv, StackOf, Stacks
<1>3. CASE block[current] # NULL
  BY <1>1, <1>3 DEF fiber_check_stacks, IInv, TableInv, StackOf
<1> QED
  BY <1>2, <1>3

(* The facts every switch establishes, from whichever function it is made. *)
LEMMA SwitchFacts ==
  ASSUME IInv, inited, NEW R \in SUBSET Runnable, NEW nxt \in next_runnable(current, R),
         nxt # current, NEW saved, ArchSwitch(current, nxt, saved)
  PROVE  /\ nxt \in Slots /\ current \in Slots
         /\ state[nxt] = READY
         /\ sp[nxt] = StackOf(nxt)
         /\ cpu' = StackOf(nxt)
         /\ current' = nxt
         /\ pc' \in {"body", "resumed"}
         /\ StackOf(nxt) \notin damaged
         /\ \A f \in R \ {nxt, current} : Dist(f, current) < Dist(f, nxt)
<1>1. nxt \in Slots /\ current \in Slots /\ state[nxt] = READY
  BY DEF next_runnable, Runnable, IInv, TypeOK
<1>2. /\ sp[nxt] = StackOf(nxt)
      /\ ResumesAt[frame[nxt]] \in {"body", "resumed"}
  BY <1>1 DEF IInv, SavedInv, ResumesAt
<1>3. StackOf(nxt) \notin damaged
  BY <1>1 DEF IInv, BandInv
<1>4. ASSUME NEW f \in R \ {nxt, current} PROVE Dist(f, current) < Dist(f, nxt)
  <2>1. f \in Slots /\ Dist(current, nxt) <= Dist(current, f)
    BY DEF next_runnable, Runnable
  <2> QED
    BY <1>1, <2>1, DistBetween
<1> QED
  BY <1>1, <1>2, <1>3, <1>4 DEF ArchSwitch

(* Handing the CPU over at a yield.                                        *)
LEMMA SwitchIInv ==
  ASSUME IInv, InBody, inited, fiber_check_stacks = {}, switch_to
  PROVE  IInv'
<1> USE FiberMaxAssumption, StackAssumption, NullAssumption DEF IInv
<1>1. PICK nxt \in next_runnable(current, Runnable) \ {current} :
        IF sp[nxt] = NULL
        THEN Panic("no_stack")
        ELSE /\ ArchSwitch(current, nxt, "switch_to")
             /\ UNCHANGED <<inited, root_hint, state, block, owns_block, joining,
                            pending_block, heap, damaged, halt>>
  BY DEF switch_to
<1>2. nxt \in Slots /\ state[nxt] = READY /\ sp[nxt] = StackOf(nxt)
  BY <1>1 DEF next_runnable, Runnable, SavedInv
<1>3. sp[nxt] # NULL
  BY <1>2 DEF StackOf, HeapInv, TypeOK
<1>4. /\ ArchSwitch(current, nxt, "switch_to")
      /\ UNCHANGED <<inited, root_hint, state, block, owns_block, joining,
                     pending_block, heap, damaged, halt>>
  BY <1>1, <1>3
<1>5. /\ current \in Slots
      /\ cpu' = StackOf(nxt) /\ current' = nxt /\ pc' \in {"body", "resumed"}
      /\ StackOf(nxt) \notin damaged
      /\ \A f \in Runnable \ {nxt, current} : Dist(f, current) < Dist(f, nxt)
  BY <1>1, <1>4, SwitchFacts
<1>6. TypeOK'
  <2>1. StackOf(nxt) \in Stacks
    BY <1>2, <1>3 DEF TypeOK
  <2>2. /\ sp' \in [Slots -> Stacks \cup {NULL}]
        /\ frame' \in [Slots -> {"trampoline", "switch_to", "fiber_exit"}]
        /\ ranSince' \in [Slots -> SUBSET Slots]
    BY <1>2, <1>4, <1>5 DEF TypeOK, ArchSwitch
  <2> QED
    BY <1>2, <1>4, <1>5, <2>1, <2>2 DEF TypeOK
<1>7. DownInv' /\ TableInv'
  BY <1>2, <1>4, <1>5 DEF DownInv, TableInv, StackOf
<1>8. HeapInv'
  BY <1>4 DEF HeapInv
<1>9. SavedInv'
  BY <1>4, <1>5 DEF SavedInv, ArchSwitch, StackOf, TableInv, TypeOK
<1>10. BandInv'
  BY <1>4, <1>5, CheckedStackIntact DEF BandInv, StackOf
<1>11. RoundInv'
  <2>1. ranSince'[nxt] = {} /\ ranSince'[current] = {nxt}
    BY <1>1, <1>2, <1>4, <1>5 DEF ArchSwitch, RoundInv
  <2>2. ASSUME NEW f \in Slots, state[f] = READY, f # nxt, f # current, NEW g \in ranSince'[f]
        PROVE  Dist(f, g) <= Dist(f, nxt)
    <3>1. g = nxt \/ g \in ranSince[f]
      BY <1>4, <2>2 DEF ArchSwitch
    <3>2. Dist(f, current) < Dist(f, nxt)
      BY <1>5, <2>2 DEF Runnable
    <3>3. g \in ranSince[f] => g \in Slots /\ Dist(f, g) <= Dist(f, current)
      BY <2>2 DEF RoundInv, TypeOK
    <3> QED
      BY <1>2, <1>5, <3>1, <3>2, <3>3 DEF Dist, Slots
  <2>3. Dist(current, nxt) <= Dist(current, nxt)
    BY <1>2, <1>5 DEF Dist, Slots
  <2> QED
    BY <1>4, <1>5, <2>1, <2>2, <2>3 DEF RoundInv, Dist
<1>12. NoWildSwitch'
  BY <1>4, <1>5 DEF NoWildSwitch, InBody
<1> QED
  BY <1>6, <1>7, <1>8, <1>9, <1>10, <1>11, <1>12

(* A yield panics for a real overrun, stays put, or switches.              *)
LEMMA YieldIInv == ASSUME IInv, InBody, inited, YieldBody PROVE IInv'
<1>1. CASE fiber_check_stacks # {} /\ Panic("guard")
  BY <1>1, GuardIsReal, PanicIInv
<1>2. CASE fiber_check_stacks = {} /\ YieldStays
  BY <1>2 DEF YieldStays, vars, sched, slots, IInv, TypeOK, DownInv, TableInv, HeapInv,
     SavedInv, BandInv, RoundInv, NoWildSwitch, StackOf, Dist
<1>3. CASE fiber_check_stacks = {} /\ switch_to
  BY <1>3, SwitchIInv
<1> QED
  BY <1>1, <1>2, <1>3 DEF YieldBody

(* The switch out of an exiting fiber: its block moves from the slot to    *)
(* the pending pointer, after whatever was pending has been released.      *)
LEMMA ExitIInv == ASSUME IInv, fiber_exit PROVE IInv'
<1> USE FiberMaxAssumption, StackAssumption, NullAssumption DEF IInv
<1>1. Free /\ inited /\ InBody
  BY DEF fiber_exit, Free
<1>2. CASE current = 0
  <2>1. Panic("root_exit")
    BY <1>2 DEF fiber_exit
  <2> QED
    BY <2>1, PanicIInv
<1>3. CASE current # 0
  <2>1. current \in Slots /\ 0 \in Slots /\ 0 \in Runnable \ {current}
    BY <1>1, <1>3 DEF TypeOK, TableInv, Runnable, Slots
  <2>2. ExitSwitch(current)
    BY <1>3, <2>1 DEF fiber_exit
  <2> DEFINE R == Runnable \ {current}
  <2>3. PICK nxt \in next_runnable(current, R) :
          IF sp[nxt] = NULL
          THEN Panic("no_stack")
          ELSE /\ state' = [state EXCEPT ![current] = DEAD]
               /\ heap' = ExitDrain(current)
               /\ pending_block' = block[current]
               /\ block' = [block EXCEPT ![current] = NULL]
               /\ owns_block' = [owns_block EXCEPT ![current] = FALSE]
               /\ ArchSwitch(current, nxt, "fiber_exit")
               /\ UNCHANGED <<inited, root_hint, joining, damaged, halt>>
    BY <2>2 DEF ExitSwitch
  <2>4. nxt \in Slots /\ state[nxt] = READY /\ nxt # current /\ sp[nxt] = StackOf(nxt)
    BY <1>1, <2>3 DEF next_runnable, Runnable, SavedInv
  <2>5. sp[nxt] # NULL
    BY <2>4 DEF StackOf, HeapInv, TypeOK
  <2>6. /\ state' = [state EXCEPT ![current] = DEAD]
        /\ heap' = ExitDrain(current)
        /\ pending_block' = block[current]
        /\ block' = [block EXCEPT ![current] = NULL]
        /\ owns_block' = [owns_block EXCEPT ![current] = FALSE]
        /\ ArchSwitch(current, nxt, "fiber_exit")
        /\ UNCHANGED <<inited, root_hint, joining, damaged, halt>>
    BY <2>3, <2>5
  <2>7. /\ cpu' = StackOf(nxt) /\ current' = nxt /\ pc' \in {"body", "resumed"}
        /\ StackOf(nxt) \notin damaged
        /\ \A f \in R \ {nxt, current} : Dist(f, current) < Dist(f, nxt)
    BY <1>1, <2>3, <2>4, <2>6, SwitchFacts
  <2>8. block[current] \in heap /\ block[current] \in Blocks /\ block[current] # NULL
    BY <1>1, <1>3, <2>1 DEF HeapInv, TableInv, TypeOK
  <2>9. /\ pending_block # block[current]
        /\ heap' = heap \ {pending_block}
    BY <2>1, <2>6, <2>8 DEF HeapInv, ExitDrain, TypeOK
  <2>10. StackOf(nxt)' = StackOf(nxt)
    BY <2>1, <2>4, <2>6 DEF StackOf, TypeOK
  <2>11. TypeOK'
    <3>1. StackOf(nxt) \in Stacks
      BY <2>4, <2>5 DEF TypeOK
    <3>2. /\ sp' \in [Slots -> Stacks \cup {NULL}]
          /\ frame' \in [Slots -> {"trampoline", "switch_to", "fiber_exit"}]
          /\ ranSince' \in [Slots -> SUBSET Slots]
      BY <2>1, <2>4, <2>6 DEF TypeOK, ArchSwitch
    <3>3. /\ state' \in [Slots -> {FREE, READY, DEAD}]
          /\ block' \in [Slots -> Stacks \cup {NULL}]
          /\ owns_block' \in [Slots -> BOOLEAN]
          /\ pending_block' \in Stacks \cup {NULL}
          /\ heap' \in SUBSET Blocks
      BY <2>1, <2>6, <2>8, <2>9 DEF TypeOK
    <3> QED
      BY <1>1, <2>4, <2>6, <2>7, <3>1, <3>2, <3>3 DEF TypeOK
  <2>12. DownInv' /\ TableInv'
    BY <1>1, <1>3, <2>1, <2>4, <2>6, <2>7, <2>10 DEF DownInv, TableInv, TypeOK
  <2>13. HeapInv'
    <3>1. \A f \in Slots : f # current => block'[f] = block[f] /\ state'[f] = state[f] /\ owns_block'[f] = owns_block[f]
      BY <2>6 DEF TypeOK
    <3>2. state'[current] = DEAD /\ block'[current] = NULL
      BY <2>1, <2>6 DEF TypeOK
    <3> QED
      <4>1. \A f \in Slots \ {0} : f # current /\ state[f] = READY => block[f] # pending_block
        BY <2>8 DEF HeapInv, TypeOK
      <4>2. (\A f \in Slots \ {0} :
              IF state[f] = READY THEN block[f] \in heap /\ owns_block[f] ELSE block[f] = NULL)'
        BY <2>9, <3>1, <3>2, <4>1 DEF HeapInv, READY, DEAD
      <4>3. (\A f, g \in Slots : block[f] = block[g] /\ f # g => block[f] = NULL)'
        BY <3>1, <3>2 DEF HeapInv
      <4>4. pending_block' \in heap' \cup {NULL}
        BY <2>6, <2>8, <2>9
      <4>5. (\A f \in Slots : pending_block = block[f] => pending_block = NULL)'
        <5> SUFFICES ASSUME NEW f \in Slots, block[current] = block'[f] PROVE FALSE
          BY <2>6
        <5>1. f # current
          BY <2>8, <3>2
        <5>2. block[f] = block[current]
          BY <3>1, <5>1
        <5> QED
          BY <2>1, <2>8, <5>1, <5>2 DEF HeapInv
      <4>6. (\A b \in heap : b = pending_block \/ \E f \in Slots : block[f] = b)'
        <5> SUFFICES ASSUME NEW b \in heap', b # pending_block'
                     PROVE  \E f \in Slots : block'[f] = b
          OBVIOUS
        <5>1. b \in heap /\ b # pending_block /\ b # block[current]
          BY <2>6, <2>9
        <5>2. PICK f \in Slots : block[f] = b
          BY <5>1 DEF HeapInv
        <5> QED
          BY <3>1, <5>1, <5>2
      <4> QED
        BY <4>2, <4>3, <4>4, <4>5, <4>6 DEF HeapInv
  <2>14. SavedInv'
    BY <1>1, <2>1, <2>6, <2>7 DEF SavedInv, ArchSwitch, StackOf, TypeOK, READY, DEAD
  <2>15. BandInv'
    BY <1>1, <1>3, <2>1, <2>6, <2>7 DEF BandInv, StackOf, TypeOK, READY, DEAD
  <2>16. RoundInv'
    <3>1. ranSince'[nxt] = {}
      BY <2>4, <2>6 DEF ArchSwitch
    <3>2. ASSUME NEW f \in Slots, state'[f] = READY, f # nxt, NEW g \in ranSince'[f]
          PROVE  Dist(f, g) <= Dist(f, nxt)
      <4>1. state[f] = READY /\ f # current
        BY <2>1, <2>6, <3>2 DEF TypeOK, READY, DEAD
      <4>2. g = nxt \/ g \in ranSince[f]
        BY <2>6, <3>2 DEF ArchSwitch
      <4>3. Dist(f, current) < Dist(f, nxt)
        BY <2>7, <3>2, <4>1 DEF Runnable
      <4>4. g \in ranSince[f] => g \in Slots /\ Dist(f, g) <= Dist(f, current)
        BY <1>1, <3>2, <4>1 DEF RoundInv, TypeOK
      <4> QED
        BY <2>1, <2>4, <4>2, <4>3, <4>4 DEF Dist, Slots
    <3> QED
      BY <2>6, <2>7, <3>1, <3>2 DEF RoundInv, Dist
  <2>17. NoWildSwitch'
    BY <1>1, <2>6, <2>7 DEF NoWildSwitch, InBody
  <2> QED
    BY <2>11, <2>12, <2>13, <2>14, <2>15, <2>16, <2>17
<1> QED
  BY <1>2, <1>3

(* Tearing everything down returns every stack to the heap.                *)
LEMMA ResetIInv == ASSUME IInv, fiber_reset PROVE IInv'
<1> USE FiberMaxAssumption, StackAssumption, NullAssumption DEF IInv
<1>1. CASE inited /\ current # 0
  <2>1. Panic("reset")
    BY <1>1 DEF fiber_reset, ResetRefused
  <2> QED
    BY <2>1, PanicIInv
<1>2. CASE ~(inited /\ current # 0)
  <2>1. heap' = {}
    <3>1. ASSUME NEW b \in heap PROVE b = pending_block \/ \E f \in Slots : owns_block[f] /\ block[f] = b
      BY DEF HeapInv, TypeOK, TableInv, DownInv, Slots
    <3> QED
      BY <1>2, <3>1 DEF fiber_reset, ResetRefused, TypeOK
  <2>2. cpu = RootStack /\ pc = "body"
    BY <1>2 DEF fiber_reset, ResetRefused, InBody, DownInv, TableInv, StackOf
  <2>3. TypeOK'
    BY <1>2, <2>1, <2>2, ZenonT(60) DEF fiber_reset, ResetRefused, TypeOK, FREE
  <2>4. DownInv' /\ TableInv' /\ SavedInv' /\ RoundInv'
    BY <1>2, <2>1, <2>2 DEF fiber_reset, ResetRefused, DownInv, TableInv, SavedInv, RoundInv
  <2>5. HeapInv'
    BY <1>2, <2>1 DEF fiber_reset, ResetRefused, HeapInv, FREE, READY
  <2>6. BandInv'
    BY <1>2 DEF fiber_reset, ResetRefused, BandInv
  <2>7. NoWildSwitch'
    BY <1>2, <2>2 DEF fiber_reset, ResetRefused, NoWildSwitch, InBody
  <2> QED
    BY <2>3, <2>4, <2>5, <2>6, <2>7
<1> QED
  BY <1>1, <1>2

-----------------------------------------------------------------------------
(* Every step of the scheduler preserves the invariant.                    *)
LEMMA NextIInv == ASSUME IInv, [Next]_vars PROVE IInv'
<1>1. CASE UNCHANGED vars
  BY <1>1 DEF vars, sched, slots, IInv, TypeOK, DownInv, TableInv, HeapInv,
     SavedInv, BandInv, RoundInv, NoWildSwitch, StackOf, Dist
<1>2. CASE fiber_yield
  BY <1>2, YieldIInv DEF fiber_yield, Free
<1>3. CASE JoinWaits
  BY <1>3, YieldIInv DEF JoinWaits, InJoin
<1>4. CASE Halted
  BY <1>1, <1>4 DEF Halted
<1> QED
  BY <1>1, <1>2, <1>3, <1>4, SetIInv, FiberInitIInv, CreateIInv, RefusedIInv, ReapIInv,
     JoinIInv, GivesUpIInv, ReleasesIInv, OverflowIInv, ExitIInv, ResetIInv DEF Next

(* The scheduler never reaches a state outside the invariant.              *)
THEOREM Invariance == Spec => []IInv
BY InitIInv, NextIInv, PTL DEF Spec

(* Type correctness of the table.                                          *)
THEOREM TypeCorrect == Spec => []TypeOK
BY Invariance, PTL DEF IInv

(* `current` always names the fiber whose stack rsp is on, for every table *)
(* size: the invariant core/fiber.c rests on.                              *)
THEOREM CurrentOwnsTheCpuAlways == Spec => []CurrentOwnsTheCpu
<1>1. IInv => CurrentOwnsTheCpu
  BY DEF IInv, TableInv, CurrentOwnsTheCpu
<1> QED
  BY <1>1, Invariance, PTL

(* No code path of core/fiber.c frees the stack the CPU is on.             *)
THEOREM CpuOnLiveStackAlways == Spec => []CpuOnLiveStack
<1>1. IInv => CpuOnLiveStack
  BY DEF IInv, TypeOK, DownInv, TableInv, HeapInv, CpuOnLiveStack, StackOf
<1> QED
  BY <1>1, Invariance, PTL

(* A block on the heap has one referrer, and freed memory has none.        *)
LEMMA OneOwner == ASSUME IInv PROVE EveryBlockHasOneOwner
<1> USE StackAssumption, NullAssumption, FiberMaxAssumption DEF IInv
<1>1. ASSUME NEW b \in heap
      PROVE  \E o \in Referrers(b) : Referrers(b) = {o}
  <2>1. b \in Blocks /\ b # NULL
    BY DEF TypeOK
  <2>2. CASE b = pending_block
    <3>1. \A f \in Slots : block[f] # b
      BY <2>1, <2>2 DEF HeapInv
    <3>2. Referrers(b) = {NULL}
      BY <2>2, <3>1 DEF Referrers
    <3> QED
      BY <3>2
  <2>3. CASE b # pending_block
    <3>1. PICK f \in Slots : block[f] = b
      BY <2>3 DEF HeapInv
    <3>2. \A g \in Slots : block[g] = b => g = f
      BY <2>1, <3>1 DEF HeapInv
    <3>3. Referrers(b) = {f}
      BY <2>3, <3>1, <3>2 DEF Referrers
    <3> QED
      BY <3>3
  <2> QED
    BY <2>2, <2>3
<1>2. ASSUME NEW b \in Blocks \ heap PROVE Referrers(b) = {}
  <2>1. b # NULL /\ b # RootStack
    OBVIOUS
  <2>2. pending_block # b
    BY <2>1 DEF HeapInv
  <2>3. \A f \in Slots : block[f] # b
    BY <2>1 DEF HeapInv, TableInv, DownInv
  <2> QED
    BY <2>2, <2>3 DEF Referrers
<1> QED
  BY <1>1, <1>2 DEF EveryBlockHasOneOwner

(* No stack is leaked and none can be freed twice, whatever the order of   *)
(* exits, joins and creations.                                             *)
THEOREM EveryBlockHasOneOwnerAlways == Spec => []EveryBlockHasOneOwner
<1>1. IInv => EveryBlockHasOneOwner
  BY OneOwner
<1> QED
  BY <1>1, Invariance, PTL

(* No switch loads a null stack pointer or resumes an exited fiber, and    *)
(* the stack check never accuses an intact fiber.                          *)
THEOREM NoWildSwitchEver == Spec => []NoWildSwitch
BY Invariance, PTL DEF IInv

(* The only steps that move rsp are the two switches, both through         *)
(* ArchSwitch.                                                             *)
LEMMA OnlySwitchesMove ==
  ASSUME IInv, Next, cpu' # cpu \/ (inited /\ inited' /\ current' # current)
  PROVE  \E R \in SUBSET Runnable, nxt \in Slots, saved \in {"switch_to", "fiber_exit"} :
           /\ inited
           /\ nxt # current
           /\ Runnable \ {current} \in SUBSET R
           /\ nxt \in next_runnable(current, R)
           /\ ArchSwitch(current, nxt, saved)
<1> USE DEF sched, slots, vars, Panic, InBody, Free
<1>1. CASE YieldBody /\ inited
  BY <1>1 DEF YieldBody, YieldStays, switch_to, next_runnable, Runnable
<1>2. CASE fiber_exit
  <2>1. PICK nxt \in next_runnable(current, Runnable \ {current}) :
          ArchSwitch(current, nxt, "fiber_exit")
    BY <1>2 DEF fiber_exit, ExitSwitch
  <2> QED
    BY <1>2, <2>1 DEF fiber_exit, next_runnable, Runnable
<1>3. CASE fiber_yield
  BY <1>1, <1>3 DEF fiber_yield
<1>4. CASE JoinWaits
  BY <1>1, <1>4 DEF JoinWaits, InJoin
<1>5. CASE fiber_root_stack_set \/ fiber_init
  BY <1>5 DEF fiber_root_stack_set, fiber_init
<1>6. CASE fiber_create \/ fiber_create_refused \/ reap
  BY <1>6 DEF fiber_create, fiber_create_refused, reap
<1>7. CASE \E h \in Slots : fiber_join(h)
  BY <1>7 DEF fiber_join
<1>8. CASE JoinGivesUp \/ JoinReleases \/ StackOverflow \/ Halted
  BY <1>8 DEF JoinGivesUp, JoinReleases, StackOverflow, Halted
<1>9. CASE fiber_reset
  BY <1>9 DEF fiber_reset, ResetRefused
<1> QED
  BY <1>2, <1>3, <1>4, <1>5, <1>6, <1>7, <1>8, <1>9 DEF Next

(* A fiber that overran its stack is never given the CPU again.            *)
THEOREM DamagedNeverResumedEver == Spec => DamagedNeverResumed
<1>1. IInv /\ [Next]_vars => [cpu' # cpu => cpu' \notin damaged]_vars
  <2> SUFFICES ASSUME IInv, Next, cpu' # cpu PROVE cpu' \notin damaged
    BY DEF vars
  <2> QED
    BY OnlySwitchesMove, SwitchFacts
<1> QED
  BY <1>1, Invariance, PTL DEF Spec, DamagedNeverResumed

(* No fiber gets the CPU twice while another READY fiber waits.            *)
THEOREM NoOvertakingEver == Spec => NoOvertaking
<1> DEFINE Fair == \A f \in Slots :
       (inited /\ inited' /\ current' # current /\ state[f] = READY /\ f # current')
         => current' \notin ranSince[f]
<1>1. IInv /\ [Next]_vars => [Fair]_vars
  <2> SUFFICES ASSUME IInv, Next, NEW f \in Slots, inited, inited', current' # current,
                      state[f] = READY, f # current', current' \in ranSince[f]
               PROVE  FALSE
    BY DEF vars
  <2>1. f # current
    BY DEF IInv, RoundInv
  <2>2. Dist(f, current) < Dist(f, current') /\ current' \in Slots
    BY <2>1, OnlySwitchesMove, SwitchFacts DEF Runnable
  <2>3. Dist(f, current') <= Dist(f, current)
    BY <2>1 DEF IInv, RoundInv
  <2>4. current \in Slots
    BY DEF IInv, TypeOK
  <2> QED
    BY <2>2, <2>3, <2>4, DistInt
<1> QED
  BY <1>1, Invariance, PTL DEF Spec, NoOvertaking
=============================================================================
