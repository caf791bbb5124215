------------------------------- MODULE Fault -------------------------------
(***************************************************************************)
(* What the kernel does about a CPU fault: isr_dispatch of                 *)
(* arch/x86_64/idt.c with the record ring, the armed recovery plan, the    *)
(* re-fault counter and the guard stack of arch/x86_64/fault.c.            *)
(*                                                                         *)
(* A guard is a structure on the stack frame of fault_guard_run, so it is  *)
(* named by its address <<fiber, nesting>> and the same address is used    *)
(* again by a later call; g_guards holds addresses.  The structure outlives *)
(* its frame as stale memory.  Fibers share the one guard stack and a guard *)
(* is popped by index.  The handler is two steps, so that a fault can hit  *)
(* it in between.                                                          *)
(*                                                                         *)
(* Left out: decoding and rendering the report, the backtrace, and the     *)
(* instruction-length decoder, whose answer for the instruction at each    *)
(* address is the constant StepFix.                                        *)
(***************************************************************************)
EXTENDS Integers, Sequences, FiniteSets

CONSTANTS
  Fibers,                 \* stacks
  ArmerSets,              \* choices of the fibers whose code calls fault_guard_run
  Rips,                   \* instructions that can fault
  Image,                  \* those inside the kernel image
  StepFix,                \* what step_over answers at each
  FAULT_GUARD_DEPTH_MAX, FAULT_ESCAPE_MAX, FAULT_RING_SIZE, FAULT_REFAULT_MAX,
  FAULT_PLAN_USES_MAX,
  Plans,                  \* the recovery plans the model arms
  FRAMES_MAX,             \* bound: guarded calls live at once
  FAULTS_MAX,             \* bound: faults in a behaviour
  NULL

ASSUME SizeAssumption ==
  /\ {FAULT_GUARD_DEPTH_MAX, FAULT_RING_SIZE, FRAMES_MAX} \subseteq Nat \ {0}
  /\ {FAULT_ESCAPE_MAX, FAULT_REFAULT_MAX, FAULT_PLAN_USES_MAX, FAULTS_MAX} \subseteq Nat
(* The fiber table and the code that can fault.                            *)
ASSUME CodeAssumption ==
  /\ IsFiniteSet(Fibers)
  /\ ArmerSets \subseteq SUBSET Fibers
  /\ Image \subseteq Rips
  /\ StepFix \in [Rips -> {"OK", "NO_CODE", "UNDECODABLE", "RIP_WINDOW"}]
  /\ \A r \in Rips \ Image : StepFix[r] = "NO_CODE"

VARIABLES
  armers,       \* the fibers whose code calls fault_guard_run; fixed
  current,      \* the fiber the scheduler believes is running
  cpu,          \* the fiber whose stack rsp is on
  nest,         \* per fiber: guarded calls live on its stack
  mem,          \* the guard structure at each stack address, live or stale
  g_guards,     \* the guard stack: addresses
  g_gdepth,
  g_escapes,
  g_count, g_ring,
  g_plan,       \* the armed plan, or NULL
  g_refault_rip, g_refaults,
  in_handler,   \* NULL, or the frame being handled
  halt,         \* "no", or the disposition the machine halted under
  log           \* history: every fault with what became of it

guards  == <<g_guards, g_gdepth, g_escapes>>
records == <<g_count, g_ring, log>>
policy  == <<g_plan, g_refault_rip, g_refaults>>
faultVars == <<armers, current, cpu, nest, mem, guards, records, policy, in_handler, halt>>

Vectors == {"DE", "DF", "BP"}    \* fatal; never recoverable; a trap
fault_is_fatal(v) == v # "BP"
fault_is_recoverable(v) == v # "DF"

GuardAddrs == Fibers \X (1 .. FRAMES_MAX)
(* Mutant: an escape abandons every guarded call, not the innermost.       *)
Top_Outermost == g_guards[0]
(* The innermost armed guard.                                              *)
Top   == g_guards[g_gdepth - 1]
CallsLive == Cardinality({a \in GuardAddrs : a[2] <= nest[a[1]]})
Here  == <<cpu, nest[cpu]>>      \* the innermost live guard of the running stack

(* The saved frame of a fault.  `deep`: its rsp is below the place where a *)
(* stale guard of its stack would have been.                               *)
Frames == [vector : Vectors, rip : Rips, deep : BOOLEAN]
ASSUME NullAssumption == NULL \notin Frames \cup GuardAddrs

(* Plans fault_plan_check accepts; `scope` is one vector or "any".         *)
ASSUME PlanAssumption ==
  Plans \subseteq [action : {"REFUSE", "SKIP", "SET_REG", "SET_REG_SKIP", "SET_RIP"},
                   scope  : {"any", "DE", "BP"}, uses : 1 .. FAULT_PLAN_USES_MAX]

FaultInit ==
  /\ armers \in ArmerSets
  /\ current \in Fibers
  /\ cpu = current
  /\ nest = [f \in Fibers |-> 0]
  /\ mem = [a \in GuardAddrs |-> [magic |-> FALSE, sound |-> TRUE, depth |-> 0, code |-> 0,
                             stack |-> NULL]]
  /\ g_guards = [i \in 0 .. FAULT_GUARD_DEPTH_MAX - 1 |-> NULL]
  /\ g_gdepth = 0
  /\ g_escapes = 0
  /\ g_count = 0
  /\ g_ring = [i \in 0 .. FAULT_RING_SIZE - 1 |-> NULL]
  /\ g_plan = NULL
  /\ g_refault_rip = NULL
  /\ g_refaults = 0
  /\ in_handler = NULL
  /\ halt = "no"
  /\ log = <<>>

Running == halt = "no" /\ in_handler = NULL

-----------------------------------------------------------------------------
(* Normal execution.                                                       *)

(* The scheduler switches; see Fiber.                                      *)
Yield ==
  /\ Running
  /\ \E f \in Fibers \ {current} : current' = f /\ cpu' = f
  /\ UNCHANGED <<armers, nest, mem, guards, records, policy, in_handler, halt>>

(* fault_guard_run up to its call of the body.  At the depth limit it      *)
(* returns FAULT_GUARD_EDEPTH and nothing changes.                         *)
fault_guard_run ==
  /\ Running
  /\ cpu \in armers
  /\ g_gdepth < FAULT_GUARD_DEPTH_MAX
  /\ CallsLive < FRAMES_MAX
  /\ LET a == <<cpu, nest[cpu] + 1>> IN
       /\ mem' = [mem EXCEPT ![a] = [magic |-> TRUE, sound |-> TRUE, depth |-> g_gdepth,
                                     code |-> 0, stack |-> current]]
       /\ g_guards' = [g_guards EXCEPT ![g_gdepth] = a]
  /\ g_gdepth' = g_gdepth + 1
  /\ nest' = [nest EXCEPT ![cpu] = @ + 1]
  /\ UNCHANGED <<armers, current, cpu, g_escapes, records, policy, in_handler, halt>>

(* The rest of fault_guard_run, for the guard at `a` over memory `m`.      *)
GuardTail(a, m) ==
  /\ g_gdepth' = m[a].depth
  /\ mem' = [m EXCEPT ![a].magic = FALSE]
  /\ nest' = [nest EXCEPT ![a[1]] = a[2] - 1]

BodyReturns ==
  /\ Running
  /\ nest[cpu] > 0
  /\ GuardTail(Here, mem)
  /\ UNCHANGED <<armers, current, cpu, g_guards, g_escapes, records, policy, in_handler, halt>>

(* A stray store hits the saved context of a guard the body stands under.  *)
Scribble ==
  /\ Running
  /\ nest[cpu] > 0
  /\ mem' = [mem EXCEPT ![Here].sound = FALSE]
  /\ UNCHANGED <<armers, current, cpu, nest, guards, records, policy, in_handler, halt>>

(* fault_plan_arm, through the fault_recover tool, replaces whatever was   *)
(* armed.                                                                  *)
fault_plan_arm ==
  /\ Running
  /\ g_plan' \in Plans
  /\ UNCHANGED <<armers, current, cpu, nest, mem, guards, records, g_refault_rip, g_refaults,
                 in_handler, halt>>

fault_plan_clear ==
  /\ Running
  /\ g_plan' = NULL
  /\ UNCHANGED <<armers, current, cpu, nest, mem, guards, records, g_refault_rip, g_refaults,
                 in_handler, halt>>

-----------------------------------------------------------------------------
(* Escaping to a guard.                                                    *)

(* Mutant: the stack a guard was armed on is not compared.                 *)
escape_allowed_AnyStack ==
  IF g_gdepth <= 0 THEN "NO_GUARD"
  ELSE IF g_escapes >= FAULT_ESCAPE_MAX THEN "GUARD_SPENT"
  ELSE IF ~mem[Top].magic THEN "GUARD_CORRUPT"
  ELSE "OK"

(* Mutant: the last escape of the budget is refused.                       *)
escape_allowed_SpentEarly ==
  IF g_gdepth <= 0 THEN "NO_GUARD"
  ELSE IF g_escapes + 1 >= FAULT_ESCAPE_MAX THEN "GUARD_SPENT"
  ELSE IF ~mem[Top].magic THEN "GUARD_CORRUPT"
  ELSE IF mem[Top].stack # current THEN "GUARD_FOREIGN"
  ELSE "OK"

escape_allowed ==
  IF g_gdepth <= 0 THEN "NO_GUARD"
  ELSE IF g_escapes >= FAULT_ESCAPE_MAX THEN "GUARD_SPENT"
  ELSE IF ~mem[Top].magic THEN "GUARD_CORRUPT"
  ELSE IF mem[Top].stack # current THEN "GUARD_FOREIGN"
  ELSE "OK"

(* fault_escape's verdict.                                                 *)
EscapeFix(fr) ==
  IF ~fault_is_recoverable(fr.vector) THEN "VECTOR"
  ELSE IF escape_allowed # "OK" THEN escape_allowed
  ELSE IF ~mem[Top].sound THEN "GUARD_CORRUPT"
  ELSE IF Top[1] = cpu /\ Top[2] > nest[cpu] /\ ~fr.deep THEN "GUARD_CORRUPT"
  ELSE "ESCAPED"

(* Control lands in the guard's fault_guard_run: on the stack the guard is *)
(* on, while `current` is whatever it was.                                 *)
Unwind ==
  /\ g_escapes' = g_escapes + 1
  /\ cpu' = Top[1]
  /\ GuardTail(Top, [mem EXCEPT ![Top].code = 1])
  /\ UNCHANGED <<current, g_guards>>

(* fault_guard_abort: the same without a fault; a refusal is returned.  It *)
(* does not look at the saved context as fault_escape does: with one that  *)
(* a stray store has hit, control is lost and the model stops.             *)
fault_guard_abort ==
  /\ Running
  /\ escape_allowed = "OK"
  /\ \/ /\ mem[Top].sound
        /\ Unwind
        /\ UNCHANGED halt
     \/ /\ ~mem[Top].sound
        /\ halt' = "LOST"
        /\ UNCHANGED <<current, cpu, nest, mem, guards>>
  /\ UNCHANGED <<armers, records, policy, in_handler>>

-----------------------------------------------------------------------------
(* The handler.                                                            *)

fault_note(fr) ==
  /\ g_count' = g_count + 1
  /\ g_ring' = [g_ring EXCEPT ![g_count % FAULT_RING_SIZE] =
                  [seq |-> g_count + 1, vector |-> fr.vector, rip |-> fr.rip,
                   fix |-> "unset", recovered |-> FALSE]]
  /\ log' = Append(log, [vector |-> fr.vector, rip |-> fr.rip, became |-> "?"])

(* A fault arrives while no other is being handled.                        *)
isr_dispatch ==
  /\ Running
  /\ g_count < FAULTS_MAX
  /\ \E fr \in Frames : in_handler' = fr /\ fault_note(fr)
  /\ UNCHANGED <<armers, current, cpu, nest, mem, guards, policy, halt>>

(* The handler itself faults: report the minimum and stop.                 *)
FaultInHandler ==
  /\ halt = "no"
  /\ in_handler # NULL
  /\ halt' = "DOUBLE"
  /\ UNCHANGED <<armers, current, cpu, nest, mem, guards, records, policy, in_handler>>

step_over(fr) == StepFix[fr.rip]

(* fault_apply_plan: the verdict on the armed plan for this frame.         *)
fault_apply_plan(fr) ==
  IF g_plan = NULL THEN "NO_PLAN"
  ELSE IF ~fault_is_recoverable(fr.vector) THEN "VECTOR"
  ELSE IF g_plan.action = "REFUSE" THEN "REFUSED"
  ELSE IF g_plan.uses = 0 THEN "EXHAUSTED"
  ELSE IF g_plan.scope \notin {"any", fr.vector} THEN "WRONG_VECTOR"
  ELSE IF g_plan.action \in {"SKIP", "SET_REG_SKIP"} THEN step_over(fr)
  ELSE IF g_plan.action = "SET_REG" /\ fr.rip \notin Image THEN "RIP_WINDOW"
  ELSE "OK"

(* Mutant: a recovery that worked starts the count again.                  *)
Refaults_Forgiven(fr) ==
  IF g_refaults # 0 /\ fr.rip = g_refault_rip /\ fault_apply_plan(fr) # "OK"
  THEN g_refaults + 1 ELSE 1

(* Consecutive faults at one address, this one included.                   *)
Refaults(fr) ==
  IF g_refaults # 0 /\ fr.rip = g_refault_rip THEN g_refaults + 1 ELSE 1

(* fault_recover's verdict.                                                *)
RecoverFix(fr) ==
  IF ~fault_is_fatal(fr.vector) THEN "TRAP"
  ELSE IF Refaults(fr) > FAULT_REFAULT_MAX THEN "REFAULT"
  ELSE fault_apply_plan(fr)

(* A plan is consumed by use, and disarmed by its last one.                *)
PlanAfter(fix) ==
  IF fix # "OK" \/ g_plan = NULL THEN g_plan
  ELSE IF g_plan.uses <= 1 THEN NULL
  ELSE [g_plan EXCEPT !.uses = @ - 1]

(* What the newest record says once fault_recover, and fault_escape when   *)
(* it was tried, have written to it: a refused escape replaces only the    *)
(* verdict that nothing was armed, and "VECTOR" is not written at all.     *)
RecordFix(fix, esc) ==
  IF fix \in {"OK", "TRAP"} THEN fix
  ELSE IF esc = "ESCAPED" THEN "ESCAPED"
  ELSE IF fix = "NO_PLAN" /\ esc \in {"GUARD_FOREIGN", "GUARD_SPENT", "GUARD_CORRUPT"}
       THEN esc ELSE fix

(* Mutant: an escape leaves the record as fault_recover wrote it.          *)
Disposition_EscapeUnrecorded(fix, esc) ==
  /\ g_ring' = [g_ring EXCEPT ![(g_count - 1) % FAULT_RING_SIZE] =
                  [@ EXCEPT !.fix = fix, !.recovered = fix \in {"OK", "TRAP"}]]
  /\ log' = [log EXCEPT ![g_count].became =
               IF fix \in {"OK", "TRAP"} \/ esc = "ESCAPED" THEN RecordFix(fix, esc) ELSE "halted"]
  /\ UNCHANGED g_count

(* Both writes to the newest record.                                       *)
Disposition(fix, esc) ==
  /\ g_ring' = [g_ring EXCEPT ![(g_count - 1) % FAULT_RING_SIZE] =
                  [@ EXCEPT !.fix = RecordFix(fix, esc),
                            !.recovered = RecordFix(fix, esc) \in {"OK", "TRAP", "ESCAPED"}]]
  /\ log' = [log EXCEPT ![g_count].became =
               IF fix \in {"OK", "TRAP"} \/ esc = "ESCAPED" THEN RecordFix(fix, esc) ELSE "halted"]
  /\ UNCHANGED g_count

(* The rest of isr_dispatch: recover in place, else escape, else halt.     *)
Dispose ==
  /\ halt = "no"
  /\ in_handler # NULL
  /\ LET fr  == in_handler
         fix == RecoverFix(fr)
         esc == EscapeFix(fr)
     IN /\ g_refaults' = Refaults(fr)
        /\ g_refault_rip' = fr.rip
        /\ g_plan' = PlanAfter(fix)
        /\ Disposition(fix, esc)
        /\ UNCHANGED armers
        /\ \/ /\ fix \in {"OK", "TRAP"}
              /\ in_handler' = NULL
              /\ UNCHANGED <<current, cpu, nest, mem, guards, halt>>
           \/ /\ fix \notin {"OK", "TRAP"}
              /\ esc = "ESCAPED"
              /\ Unwind
              /\ in_handler' = NULL
              /\ UNCHANGED halt
           \/ /\ fix \notin {"OK", "TRAP"}
              /\ esc # "ESCAPED"
              /\ halt' = IF esc = "NO_GUARD" THEN fix ELSE esc
              /\ UNCHANGED <<current, cpu, nest, mem, guards, in_handler>>

Halted == halt # "no" /\ UNCHANGED faultVars

FaultNext ==
  \/ Yield
  \/ fault_guard_run
  \/ BodyReturns
  \/ Scribble
  \/ fault_plan_arm
  \/ fault_plan_clear
  \/ fault_guard_abort
  \/ isr_dispatch
  \/ FaultInHandler
  \/ Dispose
  \/ Halted

FaultSpec == FaultInit /\ [][FaultNext]_faultVars

-----------------------------------------------------------------------------
(* Properties.                                                             *)

Guard == [magic : BOOLEAN, sound : BOOLEAN, depth : 0 .. FAULT_GUARD_DEPTH_MAX - 1,
          code : {0, 1}, stack : Fibers \cup {NULL}]

FaultTypeOK ==
  /\ armers \in ArmerSets
  /\ current \in Fibers
  /\ cpu \in Fibers
  /\ nest \in [Fibers -> 0 .. FRAMES_MAX]
  /\ mem \in [GuardAddrs -> Guard]
  /\ g_guards \in [0 .. FAULT_GUARD_DEPTH_MAX - 1 -> GuardAddrs \cup {NULL}]
  /\ g_gdepth \in 0 .. FAULT_GUARD_DEPTH_MAX
  /\ g_escapes \in 0 .. FAULT_ESCAPE_MAX
  /\ g_count \in 0 .. FAULTS_MAX
  /\ Len(log) = g_count

(* Only one fiber's code arms guards: the agenda's, in this kernel.        *)
OneArmer == Cardinality(armers) = 1

(* fault.h: an escape goes to the innermost armed guard.  With one fiber   *)
(* arming, that is the innermost fault_guard_run of the running stack, and *)
(* it has not returned, although the structures of calls that have stay in *)
(* memory below it.  (Two arming fibers can break this; see README.md.)    *)
EscapeLandsOnLiveCall ==
  [][OneArmer /\ g_escapes' # g_escapes => nest[cpu] > 0 /\ Top = Here]_faultVars

(* The stack of addresses is exactly the live guarded calls, innermost     *)
(* last: index popping is right as long as one fiber does the arming.      *)
GuardStackIsLive ==
  OneArmer =>
  \E f \in Fibers :
    /\ g_gdepth = nest[f]
    /\ \A g \in Fibers \ {f} : nest[g] = 0
    /\ \A i \in 1 .. nest[f] : g_guards[i - 1] = <<f, i>> /\ mem[<<f, i>>].depth = i - 1

(* An escape never leaves the CPU on another fiber's stack: the accident   *)
(* include/fault.h reports from QEMU.  It holds whichever fibers arm       *)
(* guards, and however their guarded calls interleave; and with one armer  *)
(* the guard stack is exactly the calls an escape may return to.           *)
CpuStaysHome == FaultTypeOK /\ cpu = current /\ GuardStackIsLive

(* agenda.h: an unattended action must not halt an unattended machine.  A  *)
(* recoverable fault on the stack of a guarded call whose guard is intact  *)
(* never halts while the escape budget lasts and one fiber does the arming.*)
GuardedActionNeverHalts ==
  [][(OneArmer /\ halt = "no" /\ halt' \notin {"no", "DOUBLE"}) =>
       \/ nest[current] = 0
       \/ g_escapes >= FAULT_ESCAPE_MAX
       \/ ~mem[<<current, nest[current]>>].sound
       \/ ~fault_is_recoverable(in_handler.vector)]_faultVars

(* The ring is the tail of the fault history: what fault_ring_at and       *)
(* fault_by_seq hand out is immutable for FAULT_RING_SIZE further faults   *)
(* and says of each one whether the machine went on.                       *)
RingIsHistory ==
  \A back \in 0 .. FAULT_RING_SIZE - 1 : back < g_count =>
    LET i == g_count - back
        r == g_ring[(i - 1) % FAULT_RING_SIZE]
    IN /\ r.seq = i
       /\ r.vector = log[i].vector /\ r.rip = log[i].rip
       /\ r.recovered <=> log[i].became \in {"OK", "TRAP", "ESCAPED"}
       /\ r.recovered => r.fix = log[i].became

(* A recovery loop is finite: no address is recovered in place more than   *)
(* FAULT_REFAULT_MAX times in a row, whatever plans are armed meanwhile.   *)
RecoveryLoopEnds ==
  \A i \in 1 .. Len(log) - FAULT_REFAULT_MAX :
    ~ \A j \in i .. i + FAULT_REFAULT_MAX :
        log[j].rip = log[i].rip /\ log[j].became = "OK"

-----------------------------------------------------------------------------
(* What the documentation says and the code does not keep; README.md,      *)
(* Observations, gives the behaviours.                                     *)

(* arch/x86_64/idt.c: "the text printed below already states what was      *)
(* decided - the operator and the model see one account".                  *)
OneAccount ==
  halt \notin {"no", "DOUBLE", "LOST"} =>
    g_ring[(g_count - 1) % FAULT_RING_SIZE].fix = halt
=============================================================================
