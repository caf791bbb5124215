------------------------------- MODULE Fiber -------------------------------
(***************************************************************************)
(* The cooperative scheduler of core/fiber.c with the context switch of    *)
(* arch/x86_64/switch.asm.                                                 *)
(*                                                                         *)
(* A fiber is a slot of the static table; its stack is one heap block, or  *)
(* the boot stack for the root (slot 0).  There is no preemption, so every *)
(* action is taken by the fiber the CPU is on, and the CPU leaves a fiber  *)
(* only inside fiber_yield (also reached from fiber_join) and fiber_exit.  *)
(*                                                                         *)
(* The switch is split where the program is split: the half before         *)
(* fiber_arch_switch runs on the old stack, and the half after it, which   *)
(* releases the stack of an exited fiber, runs on the stack of a fiber     *)
(* that had itself called switch_to - never on one that starts at the      *)
(* trampoline.                                                             *)
(*                                                                         *)
(* Left out: names, run counters, the hog diagnostic and the high-water    *)
(* scan, none of which any branch of the scheduler reads.                  *)
(***************************************************************************)
EXTENDS Integers, FiniteSets

CONSTANTS
  FIBER_MAX,   \* slots of the table, the root's included
  Blocks,      \* stack blocks the heap can hand out
  RootStack,   \* the boot stack, which is not heap memory
  NULL

ASSUME FiberMaxAssumption == FIBER_MAX \in Nat \ {0}
ASSUME StackAssumption ==
  /\ RootStack \notin Blocks
  /\ NULL \notin Blocks
  /\ NULL # RootStack
ASSUME NullAssumption == NULL \notin Int

VARIABLES
  inited,         \* fiber_init has run
  root_hint,      \* fiber_root_stack_set has given the boot stack's bounds
  current,        \* the slot the scheduler believes is running
  state,          \* per slot: FREE, READY or DEAD
  block,          \* per slot: its guarded region
  owns_block,     \* per slot: the region came from the heap
  sp,             \* per slot: the stack its saved context lies on
  frame,          \* per slot: where that context resumes
  joining,        \* per slot: the handle its fiber_join call waits on
  pending_block,  \* stack of an exited fiber, not yet released
  cpu,            \* the stack rsp is on
  pc,             \* "body", or "resumed" just after fiber_arch_switch
  heap,           \* blocks allocated and not freed
  damaged,        \* stacks whose poison band has been overwritten
  halt,           \* "no", or which panic stopped the machine
  ranSince        \* history: slots given the CPU since this one last had it

sched == <<inited, root_hint, current, state>>
slots == <<block, owns_block, sp, frame, joining>>
vars  == <<sched, slots, pending_block, cpu, pc, heap, damaged, halt, ranSince>>

Slots    == 0 .. FIBER_MAX - 1
Stacks   == Blocks \cup {RootStack}
FREE     == "free"
READY    == "ready"
DEAD     == "dead"

-----------------------------------------------------------------------------
(* Scheduling helpers.                                                     *)

(* Mutant: an exited fiber is still picked.                                *)
Runnable_CountsDead == {f \in Slots : state[f] # FREE}

Runnable == {f \in Slots : state[f] = READY}

(* How many steps round the table from slot a to slot b; FIBER_MAX for a   *)
(* itself.                                                                 *)
Dist(a, b) == IF b > a THEN b - a ELSE b + FIBER_MAX - a

(* Mutant: always the lowest slot other than the caller's.                 *)
next_runnable_FromZero(from, R) ==
  {f \in R \ {from} : \A g \in R \ {from} : f <= g}

(* Mutant: the walk starts at the caller's own slot.                       *)
next_runnable_OwnFirst(from, R) ==
  IF from \in R THEN {from} ELSE {f \in R : \A g \in R : Dist(from, f) <= Dist(from, g)}

(* next_runnable(from) among the runnable slots R: at most one slot.       *)
next_runnable(from, R) ==
  {f \in R : \A g \in R : Dist(from, f) <= Dist(from, g)}

(* The saved stack pointer of f, or the live one, is off f's own stack.    *)
SpBad(f) == IF f = current THEN cpu # block[f] ELSE sp[f] # block[f]

(* Mutant: the bands of the running fiber are not looked at.               *)
fiber_check_stacks_SkipsRunning ==
  {f \in Slots \ {current} : /\ state[f] # FREE
                              /\ block[f] # NULL
                              /\ (block[f] \in damaged \/ SpBad(f))}

(* The live fibers fiber_check_stacks finds damaged.                       *)
fiber_check_stacks ==
  {f \in Slots : /\ state[f] # FREE
                 /\ block[f] # NULL
                 /\ (block[f] \in damaged \/ SpBad(f))}

(* The running fiber is executing its own code, not waiting in fiber_join. *)
InBody == halt = "no" /\ pc = "body"
Free   == InBody /\ inited /\ joining[current] = NULL

Panic(why) ==
  /\ halt' = why
  /\ UNCHANGED <<sched, slots, pending_block, cpu, pc, heap, damaged, ranSince>>

(* Where the CPU is once a context saved by each function is adopted.      *)
ResumesAt == [switch_to  |-> "resumed",
              trampoline |-> "body",
              fiber_exit |-> "dead_resumed"]

(* Mutant: `current` is left for the far side to set.                      *)
ArchSwitch_CurrentAfter(me, nxt, saved) ==
  /\ current'  = me
  /\ sp'       = [sp EXCEPT ![me] = cpu]
  /\ frame'    = [frame EXCEPT ![me] = saved]
  /\ cpu'      = sp[nxt]
  /\ pc'       = "body"
  /\ ranSince' = ranSince

(* Everything a switch from `me` to `nxt` does before the far side runs:   *)
(* current first, then the stack pointer is saved and the other adopted.   *)
ArchSwitch(me, nxt, saved) ==
  /\ current'  = nxt
  /\ sp'       = [sp EXCEPT ![me] = cpu]
  /\ frame'    = [frame EXCEPT ![me] = saved]
  /\ cpu'      = sp[nxt]
  /\ pc'       = ResumesAt[frame[nxt]]
  /\ ranSince' = [f \in Slots |-> IF f = nxt THEN {} ELSE ranSince[f] \cup {nxt}]

-----------------------------------------------------------------------------
Init ==
  /\ inited = FALSE
  /\ root_hint = FALSE
  /\ current = NULL
  /\ state = [f \in Slots |-> FREE]
  /\ block = [f \in Slots |-> NULL]
  /\ owns_block = [f \in Slots |-> FALSE]
  /\ sp = [f \in Slots |-> NULL]
  /\ frame = [f \in Slots |-> "trampoline"]
  /\ joining = [f \in Slots |-> NULL]
  /\ pending_block = NULL
  /\ cpu = RootStack
  /\ pc = "body"
  /\ heap = {}
  /\ damaged = {}
  /\ halt = "no"
  /\ ranSince = [f \in Slots |-> {}]

fiber_root_stack_set ==
  /\ InBody
  /\ inited => joining[current] = NULL
  /\ root_hint' = TRUE
  /\ UNCHANGED <<inited, current, state, slots, pending_block, cpu, pc, heap,
                 damaged, halt, ranSince>>

(* Adopts the running context as slot 0.  A second call changes nothing.   *)
fiber_init ==
  /\ InBody
  /\ ~inited
  /\ inited' = TRUE
  /\ current' = 0
  /\ state' = [f \in Slots |-> IF f = 0 THEN READY ELSE FREE]
  /\ sp' = [sp EXCEPT ![0] = NULL]
  /\ block' = [block EXCEPT ![0] = IF root_hint THEN RootStack ELSE NULL]
  /\ owns_block' = [owns_block EXCEPT ![0] = FALSE]
  /\ damaged' = IF root_hint THEN damaged \ {RootStack} ELSE damaged
  /\ pending_block' = NULL
  /\ ranSince' = [f \in Slots |-> {}]
  /\ UNCHANGED <<root_hint, frame, joining, cpu, pc, heap, halt>>

(* Mutant: the slot of an exited fiber is reused before it is joined.      *)
FreeSlot_TakesDead(f) ==
  /\ f \in Slots \ {0}
  /\ state[f] # READY
  /\ \A g \in Slots \ {0} : state[g] # READY => f <= g

(* The slot fiber_create takes: the lowest free one, never the root's.     *)
FreeSlot(f) ==
  /\ f \in Slots \ {0}
  /\ state[f] = FREE
  /\ \A g \in Slots \ {0} : state[g] = FREE => f <= g

(* A new fiber on a freshly painted block.  The heap may refuse the block, *)
(* and no slot may be free; both return NULL and change nothing.           *)
fiber_create ==
  /\ Free
  /\ \E f \in Slots, b \in Blocks \ heap :
       /\ FreeSlot(f)
       /\ heap' = heap \cup {b}
       /\ damaged' = damaged \ {b}
       /\ block' = [block EXCEPT ![f] = b]
       /\ owns_block' = [owns_block EXCEPT ![f] = TRUE]
       /\ sp' = [sp EXCEPT ![f] = b]
       /\ frame' = [frame EXCEPT ![f] = "trampoline"]
       /\ state' = [state EXCEPT ![f] = READY]
       /\ ranSince' = [ranSince EXCEPT ![f] = {}]
  /\ UNCHANGED <<inited, root_hint, current, joining, pending_block, cpu, pc, halt>>

(* fiber_create when the arch backend built its frame outside the stack:   *)
(* the block goes back to the heap and the slot stays free.                *)
fiber_create_refused ==
  /\ Free
  /\ Blocks \ heap # {}
  /\ \E f \in Slots :
       /\ FreeSlot(f)
       /\ owns_block' = [owns_block EXCEPT ![f] = TRUE]
       /\ block' = [block EXCEPT ![f] = NULL]
       /\ sp' = [sp EXCEPT ![f] = NULL]
  /\ UNCHANGED <<sched, frame, joining, pending_block, cpu, pc, heap, damaged,
                 halt, ranSince>>

-----------------------------------------------------------------------------
(* fiber_yield, from a fiber's own code or from the loop of fiber_join.    *)

YieldStays ==
  /\ current \in next_runnable(current, Runnable)
  /\ UNCHANGED vars

switch_to ==
  \E nxt \in next_runnable(current, Runnable) \ {current} :
    IF sp[nxt] = NULL
    THEN Panic("no_stack")
    ELSE /\ ArchSwitch(current, nxt, "switch_to")
         /\ UNCHANGED <<inited, root_hint, state, block, owns_block, joining,
                        pending_block, heap, damaged, halt>>

YieldBody ==
  \/ fiber_check_stacks # {} /\ Panic("guard")
  \/ fiber_check_stacks = {} /\ (YieldStays \/ switch_to)

fiber_yield == Free /\ YieldBody

(* The far side of a switch, on a stack that had called switch_to.         *)
reap ==
  /\ halt = "no"
  /\ pc = "resumed"
  /\ pc' = "body"
  /\ heap' = heap \ {pending_block}
  /\ pending_block' = NULL
  /\ UNCHANGED <<sched, slots, cpu, damaged, halt, ranSince>>

(* fiber_exit: the slot dies and disowns its block before the switch; a    *)
(* block somebody else left pending is released first.  Mutant: the        *)
(* pending pointer is overwritten blind.                                   *)
ExitDrain_NoDrain(me) == heap

ExitDrain(me) ==
  IF pending_block # NULL /\ pending_block # block[me]
  THEN heap \ {pending_block} ELSE heap

ExitSwitch(me) ==
  \E nxt \in next_runnable(me, Runnable \ {me}) :
    IF sp[nxt] = NULL
    THEN Panic("no_stack")
    ELSE /\ state' = [state EXCEPT ![me] = DEAD]
         /\ heap' = ExitDrain(me)
         /\ pending_block' = block[me]
         /\ block' = [block EXCEPT ![me] = NULL]
         /\ owns_block' = [owns_block EXCEPT ![me] = FALSE]
         /\ ArchSwitch(me, nxt, "fiber_exit")
         /\ UNCHANGED <<inited, root_hint, joining, damaged, halt>>

fiber_exit ==
  /\ Free
  /\ IF current = 0 THEN Panic("root_exit")
     ELSE IF Runnable \ {current} = {} THEN Panic("nothing_runnable")
     ELSE ExitSwitch(current)

-----------------------------------------------------------------------------
(* fiber_join(h) with a live handle that is not the caller's own; any      *)
(* other handle returns -1 and changes nothing.                            *)
fiber_join(h) ==
  /\ Free
  /\ state[h] # FREE
  /\ h # current
  /\ joining' = [joining EXCEPT ![current] = h]
  /\ UNCHANGED <<sched, block, owns_block, sp, frame, pending_block, cpu, pc,
                 heap, damaged, halt, ranSince>>

InJoin(h) == InBody /\ inited /\ joining[current] = h /\ h # NULL

(* One round of the loop: the target is not dead yet.                      *)
JoinWaits ==
  \E h \in Slots :
    /\ InJoin(h)
    /\ state[h] # DEAD
    /\ Cardinality(Runnable) >= 2
    /\ YieldBody

(* Nobody else can run, so the target can never finish: return -1.         *)
JoinGivesUp ==
  \E h \in Slots :
    /\ InJoin(h)
    /\ state[h] # DEAD
    /\ Cardinality(Runnable) < 2
    /\ joining' = [joining EXCEPT ![current] = NULL]
    /\ UNCHANGED <<sched, block, owns_block, sp, frame, pending_block, cpu, pc,
                   heap, damaged, halt, ranSince>>

(* The target is dead: release whatever the slot still owns, free the slot.*)
JoinReleases ==
  \E h \in Slots :
    /\ InJoin(h)
    /\ state[h] = DEAD
    /\ heap' = IF block[h] # NULL /\ owns_block[h] THEN heap \ {block[h]} ELSE heap
    /\ block' = [block EXCEPT ![h] = NULL]
    /\ owns_block' = [owns_block EXCEPT ![h] = FALSE]
    /\ sp' = [sp EXCEPT ![h] = NULL]
    /\ state' = [state EXCEPT ![h] = FREE]
    /\ joining' = [joining EXCEPT ![current] = NULL]
    /\ UNCHANGED <<inited, root_hint, current, frame, pending_block, cpu, pc,
                   damaged, halt, ranSince>>

ResetRefused == inited /\ current # 0

(* fiber_reset, from the root or before fiber_init.                        *)
fiber_reset ==
  /\ InBody
  /\ inited => joining[current] = NULL
  /\ IF ResetRefused
     THEN Panic("reset")
     ELSE /\ heap' = heap \ ({pending_block} \cup {block[f] : f \in {g \in Slots : owns_block[g]}})
          /\ inited' = FALSE
          /\ current' = NULL
          /\ state' = [f \in Slots |-> FREE]
          /\ block' = [f \in Slots |-> NULL]
          /\ owns_block' = [f \in Slots |-> FALSE]
          /\ sp' = [f \in Slots |-> NULL]
          /\ pending_block' = NULL
          /\ joining' = [f \in Slots |-> NULL]
          /\ ranSince' = [f \in Slots |-> {}]
          /\ UNCHANGED <<root_hint, frame, cpu, pc, damaged, halt>>

(* The running fiber's frames reach its poison band.  Nothing faults: this *)
(* kernel has no memory protection.                                        *)
StackOverflow ==
  /\ Free
  /\ block[current] # NULL
  /\ damaged' = damaged \cup {cpu}
  /\ UNCHANGED <<sched, slots, pending_block, cpu, pc, heap, halt, ranSince>>

(* panic() does not return.                                                *)
Halted == halt # "no" /\ UNCHANGED vars

Next ==
  \/ fiber_root_stack_set
  \/ fiber_init
  \/ fiber_create
  \/ fiber_create_refused
  \/ fiber_yield
  \/ reap
  \/ fiber_exit
  \/ \E h \in Slots : fiber_join(h)
  \/ JoinWaits
  \/ JoinGivesUp
  \/ JoinReleases
  \/ fiber_reset
  \/ StackOverflow
  \/ Halted

Spec == Init /\ [][Next]_vars

-----------------------------------------------------------------------------
(* Properties.                                                             *)

TypeOK ==
  /\ inited \in BOOLEAN
  /\ root_hint \in BOOLEAN
  /\ current \in IF inited THEN Slots ELSE {NULL}
  /\ state \in [Slots -> {FREE, READY, DEAD}]
  /\ block \in [Slots -> Stacks \cup {NULL}]
  /\ owns_block \in [Slots -> BOOLEAN]
  /\ sp \in [Slots -> Stacks \cup {NULL}]
  /\ frame \in [Slots -> {"trampoline", "switch_to", "fiber_exit"}]
  /\ joining \in [Slots -> Slots \cup {NULL}]
  /\ pending_block \in Stacks \cup {NULL}
  /\ cpu \in Stacks
  /\ pc \in {"body", "resumed", "dead_resumed"}
  /\ heap \in SUBSET Blocks
  /\ damaged \in SUBSET Stacks
  /\ halt \in {"no", "guard", "no_stack", "root_exit", "nothing_runnable", "reset"}
  /\ ranSince \in [Slots -> SUBSET Slots]

(* The stack a live fiber owns.                                            *)
StackOf(f) == IF f = 0 THEN RootStack ELSE block[f]

(* `current` names the fiber whose stack rsp is on: the invariant the head *)
(* comment of core/fiber.c says everything else rests on.  It must survive *)
(* exits, slot reuse and resuming at the trampoline.                       *)
CurrentOwnsTheCpu ==
  inited => cpu = StackOf(current)

(* The CPU is never standing on memory that has been given back to the     *)
(* heap: neither reap, nor fiber_exit's drain, nor fiber_join, nor         *)
(* fiber_reset frees a stack that is in use.                               *)
CpuOnLiveStack == cpu \in heap \cup {RootStack}

(* Who refers to a heap block: the slots owning it and the pending pointer. *)
Referrers(b) ==
  {f \in Slots : block[f] = b} \cup (IF pending_block = b THEN {NULL} ELSE {})

(* Every allocated stack has exactly one owner (none is leaked, none can be *)
(* freed twice) and no slot or pending pointer refers to freed memory: the *)
(* two bugs the comment on pending_block recounts.                         *)
EveryBlockHasOneOwner ==
  /\ \A b \in heap : \E o \in Referrers(b) : Referrers(b) = {o}
  /\ \A b \in Blocks \ heap : Referrers(b) = {}

(* No switch ever loads a null stack pointer, resumes an exited fiber or   *)
(* finds nobody to wake, and the only stack-guard panics are real: the     *)
(* saved stack pointers are always on their own fiber's stack.             *)
NoWildSwitch ==
  /\ halt \notin {"no_stack", "nothing_runnable"}
  /\ pc # "dead_resumed"
  /\ halt = "guard" => \E f \in Slots : block[f] \in damaged

(* A fiber that overran its stack never runs again once it has left the    *)
(* CPU: fiber_yield panics instead of switching, and fiber_exit is final.  *)
DamagedNeverResumed == [][cpu' # cpu => cpu' \notin damaged]_vars

(* Round robin: no slot gets the CPU twice while another READY fiber waits *)
(* for it, whatever is created, exits or is joined meanwhile.              *)
NoOvertaking ==
  [][\A f \in Slots :
       (inited /\ inited' /\ current' # current /\ state[f] = READY /\ f # current')
         => current' \notin ranSince[f]]_vars

-----------------------------------------------------------------------------
(* Liveness.  A fiber body is required to keep yielding - fiber.h: nothing *)
(* can take the CPU back - so the running fiber is assumed to reach its    *)
(* next yield, and the scheduler's own loops to go on.                     *)

Progress == fiber_yield \/ reap \/ JoinWaits \/ JoinReleases \/ JoinGivesUp

(* One joiner per handle: include/fiber.h ends a handle's life when the    *)
(* first fiber_join on it returns 0.                                       *)
OneJoinerPerHandle ==
  \A f, g \in Slots : joining[f] # NULL /\ joining[f] = joining[g] => f = g

FairSpec == Init /\ [][Next /\ OneJoinerPerHandle']_vars /\ WF_vars(Progress)

(* Every READY fiber gets the CPU (unless it stops being READY by a reset, *)
(* or the machine panics): the polling loops of the root cannot starve it. *)
EveryReadyFiberRuns ==
  \A f \in Slots : state[f] = READY ~> current = f \/ state[f] # READY \/ halt # "no"

(* A fiber waiting in fiber_join for a fiber that has exited gets out of   *)
(* the loop, even when the slot could be reused.                           *)
JoinReturns ==
  \A f, h \in Slots :
    joining[f] = h /\ state[h] = DEAD ~> joining[f] # h \/ halt # "no"

-----------------------------------------------------------------------------
(* What the documentation says and the code does not keep; README.md,      *)
(* Observations, gives the behaviours.                                     *)

(* What README.os.md says of the poison bands: "re-verified on every       *)
(* switch".  fiber_exit switches without calling fiber_check_stacks.       *)
EverySwitchVerifiesStacks ==
  [][inited /\ inited' /\ current' # current => fiber_check_stacks = {}]_vars
=============================================================================
