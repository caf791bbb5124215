# Verification of fable-os

fable-os is a single-address-space x86-64 kernel whose user is a language model:
the model is reached over TLS, its replies are streamed, and it acts on the
machine by calling tools.  There is no preemption, no memory protection and no
second CPU; everything that runs is called from one of a few cooperative fibers
or from the fault handler.  This directory holds TLA+ models of the parts whose
correctness depends on order - who runs when, what a crash leaves behind, what a
callback may do to the caller - with TLC configurations and TLAPS proofs.

## 1. Inventory

| component | source | state it keeps | operations | hard behaviour |
|---|---|---|---|---|
| fibers | core/fiber.c, arch/x86_64/switch.asm | slot table, `current`, pending stack block | init, create, yield, exit, join, reset | code after a switch runs on another stack, at another time; deferred release of stacks |
| fault guard | arch/x86_64/fault.c, idt.c | guard stack, recovery plan, escape counters, patch slots | guard_run, guard_abort, recover, escape, patch | a fault inside a guard, inside a handler, on another fiber's stack; guards popped by index |
| agenda | core/agenda.c | item table in memory and on disk, `attempting` marker | add, remove, run at boot, run when idle, say | crash between marker and item; retirement that must survive a reboot |
| capabilities | core/capability.c, apps/cap.c | registry of model-written programs, one record file and one backup each, the program assembled last | save, revert, delete, load at boot, call | an interrupted save; callers of what changes; nested invocation budgets |
| chat | net/chat.c, net/sse.c, net/json.c, net/model.c | message history, tool-call in progress | ask, stream, run tools, evict, retry | re-entrancy from tools and agenda; pairing of tool calls with results under eviction and retry |
| fault chat | net/faultchat.c | faults seen, allowances, counters per address, the latch | pump, apply a fix, apply a patch, enable | a model answer applied to a machine that has moved on; unattended loops |
| network | net/net.c, net/fetch.c | lwIP and mbedTLS glue, one connection | connect, send, receive, service | callbacks from lwIP, timeouts, partial writes |
| file system | fs/fs.c, fs/vfs, fs/native, fs/fat | handles, FAT chains, directory entries | open, read, write, rename, unlink, mkdir | power loss between two sector writes |
| block | drivers/block | device table, ATA command state | read, write, flush | device timeouts |
| heap | mm/heap.c | free list and block headers | kmalloc, kfree, krealloc | coalescing, exhaustion |
| DVM | vm/dvm.c | registers, stack, memory of one program | verify, run | bounds on untrusted bytecode |
| compiler | compiler/ | tokens, tree, bytecode | compile | pure translation |
| apps | apps/ | running panels, expression values | create, event, tick, close | callbacks into model-written code |
| gui | gui/ | windows, focus, drag | open, close, raise, route events | an event whose window has closed |
| audio | core/audio.c | one registered sink, a PCM buffer | register, tone, play | a sink is a model-written driver program run under step and delay budgets |
| input | drivers/input | PS/2 packet state, the line being edited | poll, edit, take a line | packet loss and resynchronisation, a full line dropping bytes |
| tools | core/tool.c, tools/ | tool table | register, dispatch | arguments from the model |
| platform | drivers/{acpi,pci,rtc,serial,fwcfg,net}, boot, lib | device registers | probe, read, write | hardware behaviour |

How they interact: `kernel/main.c` boots, starts the agenda's boot items, and
then loops for ever between an idle pass and a turn of the chat.  A turn calls
tools through `tool_dispatch`; a tool may edit the agenda, patch code, write
files, open windows, or fault.  An agenda action runs under `fault_guard_run`,
so a fault below it abandons every frame in between and comes back to the
agenda.  Long waits (the network, the prompt) yield to the other fibers.  All of
these share one heap and one `g_state`, changed through `state_dispatch`.

What makes each part correct, in a sentence:

- fibers: the scheduler's idea of who runs agrees with the stack the CPU is on;
  every stack has one owner; every ready fiber runs;
- fault guard: an escape lands in a guarded call that is still alive, on the
  stack it was armed on; the record of a fault is true and stays true;
- code patching: the code is what was linked plus the live patches;
- agenda: an action that kills the machine is not repeated, one that does not is
  not blamed, one that is wanted runs;
- chat: every request is a conversation the API accepts, and failed turns leave
  no trace;
- main loop: the answer goes to the one who asked, and the machine can always be
  spoken to again;
- heap: the blocks tile the arena and every owner has the memory asked for;
- file system: at every power loss each name leads to its own clusters only;
- capabilities: one good version of each program survives every interrupted save;
- fault chat: an answer is applied only to the machine it was given for;
- windows, apps: no event reaches a window that is gone.

## 2. Modules and code

| module | models | state | actions |
|---|---|---|---|
| `Fiber` | core/fiber.c, switch.asm | slot table (`state`, `block`, `sp`, `frame`, ...), `current`, `pending_block`, the CPU's stack, the heap's stacks, the damaged bands | one per public function; `fiber_join` is cut at its yield, and `switch_to` into the half before the switch and the half after it (`reap`) |
| `Fault` | fault.c (ring, plan, re-fault counter, guards), idt.c's `isr_dispatch` | `g_guards`, the guard structures as memory, ring, plan, counters | guarded call, return, abort, arm, clear, fault, fault in the handler, disposition, stray store |
| `CodePatch` | `fault_patch_*`, tools/patch_tools.c | `text`, the two patch tables | apply, revert, revert all, apply by name, roll back |
| `Agenda` | core/agenda.c, tools/agenda_tools.c | item table, the stored document, the run in flight | boot, boot pass, tick, finish, crash and the operator's edits |
| `Chat` | net/chat.c, the chat reducer of core/state.c | history arena and index, journal ring, turn in flight | ask, request and its outcomes, tool calls, nested ask |
| `MainLoop` | kernel/main.c, the Telegram reducer | where the loop stands, the active chat id, the sentence in hand | extends `Chat`: boot and tick sentences, escape, lines from both sources, text field, ask, auto-reply |
| `Heap` | mm/heap.c | headers as memory, statistics | kmalloc, kcalloc, kmemalign, krealloc, kfree |
| `FaultChat` | net/faultchat.c, the faultchat reducer, the fault tools | extends `CodePatch` with fault count, plan, `g_state.faultchat`, the request in flight, and the number of requests ever sent (history) | pump up to the request, answer, survived fault, enable, tools |
| `Files` | fat.h, "what survives an unclean shutdown" | name -> contents, what is in doubt, the operation in progress | begin, succeed, fail, read again, lose power |
| `Fat` | fs/fat, vfs.c's handles, the block device's cache | sectors as read and as durable, unflushed writes, inodes, the operation in progress as the list of its writes | one per file operation, one per kind of step, device error, crash and mount |
| `Capability` | core/capability.c | the store (through `Files`), the registry, the loaded program, the save in progress | save, revert, delete, call, each file operation, boot, damage to a record |

| proof module | about | holds |
|---|---|---|
| `FiberProofs` | `Fiber` | its inductive invariant, one lemma per action, seven theorems |
| `FaultProofs` | `CodePatch`, `FaultChat`, `Fault` | instruction boundaries, patches laid over the image, the revert loop; the conversation implements the patcher; allowances, replies; guards and escapes, the ring, the recovery loop |
| `LoopLemmas` | | induction over a bounded range, what a loop written as a recursive function computes, ring indices |
| `ChatProofs` | `Chat`, `MainLoop` | the history and its compaction, the journal ring, the conversation, the main loop |
| `HeapProofs` | `Heap` | one group of lemmas per list primitive, then the calls |
| `AgendaProofs` | `Agenda` | what is off in memory and on disk, the crash marker, one lemma per operation |
| `CapabilityProofs` | `Capability` | the stages of a save and a delete and what the files hold at each, the two loops of the boot |
| `FatProofs` | `Fat` | chains and claims, single steps, the plans of each operation, the device's log, the invariant |

Refinement relates these modules twice.  `Fat` implements `Files`
(`FilesPromise == P!Spec`, where `P` is `Files` with what callers find through the
in-core inodes for `file`), and `Capability` is written on top of `Files`, not of
`Fat`: what it needs of the file system is exactly what the `fat` run shows `Fat` to
keep.  `FaultChat` implements `CodePatch`: it uses its operators for the patches a reply
makes, and `ChatImplementsPatching` proves that it changes the code in no other way.

An action is a whole call, unless control leaves the code inside it (a context
switch, a request on the wire, a tool call, a fault, a power loss): it is cut
exactly there.  `MC*` modules only give constants their values.  Definitions whose comment
starts with "Mutant" are wrong versions of the definition below them, used to
check that the properties can fail; no specification refers to them.

Main abstractions.  *Fiber*: a stack is a block, its contents are where the
fiber will resume, and an overrun is one action that damages the band.
*Fault*: a guard is a cell of stack memory named by fiber and nesting depth, which a
later call reuses; decoding an instruction is a constant function.
*CodePatch*: machine code is one-byte instructions and one opcode with an
operand byte, enough to split an instruction.  *Agenda*: the clock is "due or
not"; the document is the sequence of items it would be parsed into, or empty
when torn or followed by the tail of a longer one; what an action does is an outcome (ok, failed, faulted, crash) and an
edit of the agenda.  *Chat*: a byte of the history is the message it belongs to, so
that moving the wrong bytes shows; the model's answer is any reply of the sizes
tried.  *Heap*: `size_t` has `SIZE_T` values and wraps.  *Fat*: a cluster is one sector, a
unit of it a byte of a file or a record of the directory, and bytes are known by the file
and the boot they were written in, so that somebody else's bytes show; an operation
is decided when it is called and then takes its writes and flushes one by one, each of
which can fail with what the code does about it (`undo`).  The second copy of the table is only an error that comes
after the first was written.  *Capability*: a record is one unit that is whole or not
(the hash), a composition has one step.  *FaultChat*: a reply is any call of the
patch tool (apply, revert, revert all, list) or none, any plan or its clearing, or no usable reply; it is handed to the
tool as it came, so whatever the tool does not refuse counts against the allowance of patches, a listing too.

## 3. Runs

| run | question | bounds |
|---|---|---|
| `fiber` | stack ownership, agreement of `current` and CPU, no wild switch, round robin, and, with fairness, that ready fibers run and joins return | 3 slots, 3 stacks |
| `fault` | guards, escapes, ring and recovery loop, with one or two fibers arming guards | 2 fibers, depth 2, 2 live guarded calls, 3 faults, 2 records |
| `patch` | code = linked + live patches; instruction boundaries; no revert of foreign bytes | 3 bytes, 2 fault patches, 1 named patch |
| `agenda` | killers are not restarted, innocents not retired, retirements durable, over writes that fail, tear or leave an old tail, and power cycles | 2 items of every kind |
| `agenda_live` | an item that is due is served although earlier ones stay due | 3 items |
| `chat` | history and journal under eviction, failure, retry; and that every turn ends | 2 turns, 3 rounds, 2 retries, 5 bytes, 4 entries |
| `loop` | replies, refusals, guard flag, with a text field that takes lines from anywhere | 2 turns, 2 chats and no chat id, 1 fatal exception |
| `heap` | list, statistics, ownership, alignment | 32-byte arena, 7-bit `size_t` |
| `faultchat` | allowances, replies to a machine that has faulted since, every fault taken up | 4 faults, 2 addresses, 3 requests, 1 patch, 2 per address |
| `fat` | chains, leaks, and that the file system implements `Files` | 2 files, 1 subdirectory, 5 clusters of 2 units, 2 operations, 1 error or power loss |
| `capability` | the store across interrupted saves, compositions, the program cache | 2 names, 4 texts, 3 versions, 4 operations, 1 failed write or read, 1 damaged record, 2 power losses |
| `fat_crosslink` | the finding of section 7 | as `fat`, one volume |

Type invariants are conjuncts of a property of the run (`CpuStaysHome`, `LinkedPlusLive`,
`HeapChecks`, `ReplyGoesToAsker`), next to the structural facts the same checks of the code rely on:
the guard stack in `CpuStaysHome`, instruction boundaries in `LinkedPlusLive`, the
counters and alignment in `HeapChecks`, the text of the turn in
`ReplyGoesToAsker`.

Why the bounds are enough.  `fiber`: three slots give a root, a fiber that exits
and one that inherits its slot or its stack.  `fault`: two live calls are what an interleaving of two
fibers or a nesting needs, two faults what a fault in a handler or a
re-fault needs, and a third wraps the ring; limits are 1 or 2, so that each is reached and passed.  `patch`:
three bytes hold an instruction that a patch can split and two patches that can
overlap.  `agenda`: two items distinguish the one in flight from the one written with it,
and two allowed failures a first from a last; power cycles are not bounded.
`chat`: the history is too small for two turns; messages of size 1 run out of entries and
bytes in turn, and one of size 5 fits only alone.  Two retries can be spent in one
round or in two, and three rounds outlast them.  `loop`: two chats are needed for
a reply to the wrong one, and any line may meet an armed text field; nothing here depends on retries, which
`chat` has.  `heap`: the arena holds four
minimal blocks, so there are free and used neighbours on both sides; requests
of 65 and 127 sum or round past `SIZE_T`.  `RESIZES` leaves out 127, the size
that wraps in `krealloc` (section 7).  `faultchat`: one address can reach its limit while
another is counted, and faults outnumber the requests allowed; the counters' table has a slot per
request, as in the code, where the assumption `RipSlotsAssumption` holds.  `fat`: a write that
extends, one that leaves a hole and one in place, on files of no, one or two clusters, one with a chain
longer than its size; two operations are the interrupted one and the one that meets what it left.
The drive either has a cache and its table in one sector, or writes in order with the
table over two; both at once is `fat_crosslink`.  Errors are not injected into unlink
(section 7).  `capability`: a caller and a callee, and one slot for each; four
operations build a pair, replace one and revert it.  For the safety properties of `fiber`,
`fault`, `patch`, `agenda`, `faultchat`, `chat`, `loop`, `heap` and `capability`, and for `ChainsSound` of `fat`,
the theorems of section 5 remove the bounds.  `CHECK_DEADLOCK FALSE` is
given where a bound (`MAXTURNS`, operations) or a panic ends the behaviour.

Conditions inside properties say what the code relies on: `OneArmer` (in this
kernel only the agenda arms guards), `~byName` (the two patch tools do not know
of each other), `~struck` (a fault in this very pass, section 7), `~lost` (a
write of the document reported failure), `hurt` (a capability whose record was damaged or could not be read, whose last save
or delete met an error, or that a boot left out or left calling nothing, section 7).

## 4. Fairness

- `Fiber`: weak fairness of yielding and of the scheduler's own loops.  There is
  no preemption, and fiber.h requires of a fiber that it keeps yielding.  A fiber
  need not ever exit.  `OneJoinerPerHandle` is fiber.h's rule that a handle dies with
  its first successful join.
- `Agenda`: weak fairness of the boot pass, of the tick, which every idle pass
  calls, and of the end of an action, which is bounded by rounds and deadlines
  or ends in a fault.  Nothing is assumed of the operator, nor that the machine stays up.
- `Chat` (`LiveSpec`): weak fairness of the steps of a turn: every wait of the transport has a deadline, and
  the loop itself never waits.  Nothing is assumed of what is answered.
- `MainLoop`: weak fairness of the idle pass with the handling of a
  sentence in hand, and of the steps of a turn.  Nothing is assumed about sentences
  arriving or tools behaving.
- `FaultChat`: weak fairness of the pump, which every idle pass calls, and of the end of an
  exchange, because the transport has deadlines.  Nothing is assumed of the reply.
- `Fat`, `Capability`: safety only.

## 5. Proofs

Every theorem holds for all values of the constants that satisfy the named
assumptions of the module it is about; TLC evaluates these on every run.  The
constants that bound a run (`FAULTS_MAX`, `MAXTURNS`, ...) are arbitrary in the proofs.  An
argument always has the same form: an inductive invariant, one lemma per
action, and the properties as consequences.

**Fibers** (`FiberProofs`), for every table size and every set of stack blocks.
`TypeCorrect`, `CurrentOwnsTheCpuAlways`, `CpuOnLiveStackAlways`,
`EveryBlockHasOneOwnerAlways`, `NoWildSwitchEver` are invariants;
`DamagedNeverResumedEver` and `NoOvertakingEver` are action properties.  None is inductive
alone.  That `current` owns the CPU after a switch needs that the
saved stack pointer of the chosen fiber is on its own stack (`SavedInv`); that
needs that no other slot can have been given that block (`HeapInv`: blocks of
slots and the pending block are pairwise distinct and exhaust the heap), which
needs that a slot holds a heap block exactly while it is READY and the root
never does (`TableInv`), and that after a reset nothing is owned (`DownInv`).
Damage is confined to the running fiber and exited ones because every yield checks
(`BandInv`); the round robin argument is that slots which ran since `f` lie
between `f` and the running slot in the table's circular order (`RoundInv` with the
lemmas `DistBetween` and `DistInt`).

**Faults** (`FaultProofs`), for any number of fibers, guards, frames and ring slots.
`CpuStaysHomeAlways`, `RingIsHistoryAlways`, `RecoveryLoopEndsAlways`, `EscapesLandOnLiveCalls`
and `GuardedActionsNeverHalt`.  `GuardInv` says that the guard stack is written up to every depth it can be popped
to (`WrittenInv`), that a guard with its magic was armed on the stack it lies on (`HomeInv`), and, with one arming fiber, that the
guard stack lists exactly its live calls, innermost last (`OneInv`).  `RecordInv` ties the
ring to the history of all faults (`RingInv`) and bounds the run of equal recoveries
that history ends with by the re-fault counter (`RefaultInv`).  That an escape lands
on a live call is stated, and true, only for one arming fiber (section 7).

**Code patches** (`FaultProofs`), for every image and every table size.  `LinkedPlusLiveAlways` and
`RevertsOnlyOwnBytes`.  `PatchInv`: live patches of the fault table do not overlap (`Apart`), memory is
the image with them laid over it and each remembers the bytes of the image below it (`Overlaid`),
and each replaces whole instructions by whole instructions, so that outside them memory has the
image's instruction boundaries (`Aligned`).  The hard
part is the last: what decodes from a boundary on depends only on the bytes from there on
(`SpliceSame`), and new bytes that decode to whole instructions leave the boundaries outside
where they were (`SpliceKeeps`).  `fault_patch_revert_all` is its loop, with the invariant after each slot
(`HalfStep`).  A run of the patcher by name makes `byName` true, after which only
`RevertsOnlyOwnBytes` says anything, as in the code.

**Fault conversation** (`FaultProofs`).  `ChatImplementsPatching` is a refinement:
`ChatSpec => Spec` of `CodePatch`, by which its invariants hold while the model repairs the
machine (`CodeUnderConversation`).  `UnattendedBoundedAlways` rests on `BudgetInv` (every request sent
was charged to the allowance, and so was every address counted) and `TableInv` (the counters' table
holds each address once and counts every request about it; by `RipSlotsAssumption` a new address always
finds a slot of its own);
`AnswersForThisMachine` on `StruckInv`.

**Conversation** (`ChatProofs`), for all buffer sizes, message sizes and numbers of turns.  `EntriesTileAlways` and
`JournalKeepsLatestAlways` hold without condition: every eviction, compaction and rollback removes
some entries and moves the rest down without mixing their bytes (`CutSound`), and
the journal's ring arithmetic is that of `SlotFromOldest`.  `RequestsAcceptable`,
`FinishedTurnsOnly`, `RunsRemembered` and `FailureUndoes` assume `MAXTURNS < EPOCHS`: the code's turn number has
16 bits, and when it comes round again a rollback takes an old turn with it (section 7).  Their
invariant says that neighbours in the history follow each other as the API asks (`Talk`),
that between turns it ends with an answer (`Rest`), and that during a turn the messages of
this turn are at its end, in the order of its rounds (`Live`, `Flight`).

**Main loop** (`ChatProofs`, for `MainLoop`).  `OperatorHeard` and `RepliesGoToAsker`, for any number of chats, turns and
faults, whichever lines a text field takes.  `Places` says which of the
loop's variables are meaningful where, `Paired` that the active chat is the one the
sentence in hand came from or, for a sentence of the console, the one whose last sentence a field has taken
(`Asker`; the history variable `grabbed` keeps that chat until its id is overwritten or answered), `Unstruck` that the re-entrancy flag is down between turns unless a
fault struck in this pass.

**Heap** (`HeapProofs`), for every arena, alignment and width of `size_t`.  `HeapChecksAlways`, and
`OwnersAlways` under `NoneWraps` (no size given to `krealloc` wraps when rounded, section 7).  A
heap is `Sound` when its headers tile the arena (`Tile`), no two neighbours are free
(`Coalesced`) and the statistics are those of the list (`Counted`, `Figures`); `Owns` makes the used
blocks and the owners' pointers correspond.  `split`, `coalesce_next` and marking a block are
three primitives (`IsCut`, `IsJoin`, `IsMark`), each with its lemmas, and a call is a
composition of them.  That the byte count is preserved is an argument about the sum over
blocks as a set of addresses (`BytesSplit`, `BytesChange`).

**Agenda** (`AgendaProofs`), for every document the machine starts from, every table size and any number of power
cycles, torn writes and edits.  `StoppedStays` holds without condition: an item announced as
disabled for good is off in memory and on disk (`StopInv`), and every write that can happen, whole, torn,
failed or over an old tail, leaves the rendering of the table, the old document or nothing (`FlushIs`).  `KillersStayOff`
cannot say "off on disk", because the machine dies before anybody can write that: a killer
is off in memory, and on disk it is off or carries its marker, and while a boot item runs both
copies have it (`KillInv`).  `InnocentsKept` is the converse: a marker in memory is that of the run in
flight, and so is one on disk if the last write succeeded (`ClearInv`).  Their hypotheses,
`"save" \notin BodyEdits` and `"remove" \notin BodyEdits`, exclude just the two edits by a running action
for which section 7 gives counterexamples; the operator's own edits are not restricted.

**Capability store** (`CapabilityProofs`), for every set of names and texts, every registry size and any number of
operations, failed writes, power losses and damaged records.  `RegistryStored` and `CallsRunRegistered` are invariants,
`BootsKeepVersions` and `StepsAlwaysResolve` action properties.  The centre is `JobInv`: how far a save or a delete has
come, as the list of file operations left, and what the two files of its name hold at that stage
(`SaveStage`, `DeleteStage`); a save may be given up between its backup and its record
(`RecordTooLong`), where both files read alike; between operations a sound name's files are certain, during one only its own file is in
doubt (`Settled`).  From that, `BootReads` goes through the stages: whatever the power loss leaves, the boot reads
the registered version or the one being saved.  `SourceInv` is why a call runs the registered record:
a version on the disk under the registered number, in a file the entry may be read from, is the registered one.
For the compositions, `LinksKept` shows that what `capability_save` checks before its first write is enough both for
the registry at the end of the job and for the boot that finds the job half done, and `LoadIs` and `SweepIs` that the
boot's two loops then register everything whatever the order of the directory.  Nothing is assumed of the constants but that the names are finitely
many and the numbers natural.  The first attempt failed: a composition that a
boot had left dead was not marked `hurt`, and with three names a later save then broke `StepsResolve` (section 7).

**File system** (`FatProofs`), for every number of clusters and units, every set of names, every volume of
`FatVolumes` and any number of operations, device errors and power losses.  `ChainsHold`: `ChainsSound` is an invariant.
The state of the model is sectors, a log of writes and a list of steps left to take; the argument is about what
they mean, a record (`Sym`) of the table in use, every table that a power loss may leave, the data, the claims (a place
in the directory and a first cluster) of every record that may be on the medium, and the inodes in core.
It is `Good` when each of those tables is `Sound` for all of those claims: the chains are whole and two
owners have no cluster in common.  A step `Moves` it: a data write adds the claims of the new records, a table write
adds a table, a flush forgets all but the present ones.  A plan is `Safe` when all its steps move from good to good, and what is
undone on an error at each of them ends good too (`Undoable`); the bulk of the module shows this of the code's
plans, from the bottom up: `ExecFrees`, `EnsureExec`, `CommitExec`, `DirAddExec`, then
`CreateSafe`, `MkdirSafe`, `WriteSafe`, `GrowSafe`, `ShrinkSafe`, `UnlinkSafe`.  This is where the order of the writes counts: an entry is
written and flushed before what it claims is freed, and a cluster is marked before anything claims it.  `IInv` says
that the variables are backed by a good record from which the steps left are safe; `CrashHolds` that any subset of
the unflushed writes gives one of the tables and some of the claims.  During an unlink, and only then, the inode being dropped
is exempt (the set `X`).  Two hypotheses are needed, both because the code breaks the property without them (section 7): a
device with a write cache has the table in one sector (`OneTableSector`; without it `fat_crosslink` is a
counterexample), and no error is reported during an unlink (`UnlinkUndisturbed`).  The `fat` run's
constants satisfy both.  Of the constants, `FatConstants` and `FatVolumes` are
assumed: a name's records fit in a cluster, the table's sectors are not data sectors, and the initial volumes
have their entries in the root's first cluster.

`LoopLemmas` holds what the others need of loops: induction over an initial segment of
the naturals, stated with a set where the library takes a predicate (`SetInduction`, `BoundedInduction`), the
existence of the function a loop's recursive definition describes (`RunExists`; `WalkExists` when each pass
is its own), and the slots of a ring.

Only model-checked: all liveness (`EveryReadyFiberRuns`, `JoinReturns`, `DueIsServed`,
`GuardComesDown`, `TurnEnds`, `FaultIsClaimed`), since the prover does neither fairness nor ENABLED;
of `Fat`, `NoLeak` and the refinement `FilesPromise` (section 8).

## 6. Not modelled

- The instruction decoder and the rendering of fault reports; names,
  counters, diagnostics and statistics no branch reads.
- FAT: formatting and the geometry checks of a mount, clusters of several sectors, nested
  directories (a subdirectory here stays empty), name encoding, timestamps, readdir.
- FAT errors: a data-sector write that is reported as failed is taken not to have landed (a table
  write may have); one that did land would leave, after a failed mkdir, an entry whose cluster
  `fat_op_create` has freed (fs/fat/fat.c:328).  The cursor moves with a successful transfer, while
  `chain_at` moves it before the write (fat.c:155): after a failed one it points at a cluster of the same
  chain either way.  A chain that the table breaks off in the middle (VFS_EIO) is not distinguished from one that
  ends; no volume of `FatVolumes` has one.
- Heap: `krealloc` is called with live pointers only.  For a freed one it checks the magic word and not
  `free` (mm/heap.c:204), and goes on; `kfree`, which does check, is modelled with stale pointers.
- VFS: mount points, path walking, ramfs; a handle is the reference it holds on an inode.
- Capabilities: the budgets of nested invocation, data files and the panel.  The readdir
  order at boot is any order.
- The window manager: no handler installed in this tree calls back into it, so its
  events have one actor; its geometry is arithmetic on the screen.
- The components `PROJECT.json` lists as not_modelled: those in the
  plan below are state machines still to come; platform drivers and boot code are
  register sequences whose correctness is the hardware's contract; the C compiler's
  translation is out of TLC's reach as a whole; lwIP and mbedTLS are vendored.

## 7. Findings and observations

One run shows a statement of the repository violated by the code (`PROJECT.json`, findings):

- `fat_crosslink`: `ensure_clusters` links a new cluster to the chain with no flush after
  marking it.  On a drive with a write cache the link may survive a power loss that the
  mark, in another sector of the table, does not; the chain then leads into free space, and
  the next boot gives the cluster to another file (fs/fat/fat.c:186, against :192 and fat.h:52).

Further disagreements, met with the same models under the constants named.  The
definitions in parentheses state what the documentation says; they stand at the end of
their modules and no run checks them.

- A boot item's "disabled for the rest of this boot" reaches the document when the next item's
  marker is written, and the item never runs again: core/agenda.c:1133 against :1112
  (`WantedRearms` with `Stored <- TwoBootItems`, `Whens = {"boot"}`, `MaxRuns = {2}`,
  `AGENDA_MAX_RUNS_TOTAL = 4`, nothing in `Operator` and `BodyEdits`).
- An action that removes an earlier item shifts the table under `run_item`'s pointer; its own
  marker stays on disk and the next boot retires it: core/agenda.c:1032 against :1029
  (`InnocentNotRetired`, the same constants with "remove" in `BodyEdits`).
- When two fibers arm guards, an escape may land on a call that has returned: an unwind over several
  frames leaves stale guards below it with their magic intact, and a later pop by index raises the
  guard stack over one of them (arch/x86_64/fault.c's `fault_guard_run`; `EscapeLandsOnLiveCall` without
  `OneArmer`, with 3 fibers, depth 4 and 2 escapes, or 2 fibers, depth 5 and 3 escapes).  Only the
  agenda arms guards in this kernel.
- `fault_guard_abort` resumes at the guard's saved context without the checks `fault_escape` makes of it
  (arch/x86_64/fault.c:1544 against :1607); in `Fault` control is lost when a stray store has hit it.
  Nothing in this kernel calls it.
- `krealloc` within ALIGN-1 of SIZE_MAX shrinks the block to nothing and reports success:
  mm/heap.c:206 against :127 (`OwnersHaveTheirMemory` with 127 in `RESIZES`).
- After a boot has recovered a capability from its backup, the next save or revert first copies
  the damaged record over that backup; a power loss then leaves no good version:
  core/capability.c:1262 against include/capability.h:175 (`WorkingVersionKept` with
  `MaxErrors = 0`, `MaxCrashes = 1`, `MaxRot = 1`).
- Of the capability store too: a delete cut short after the record leaves its backup, which a later
  interrupted first save of that name brings back; a save that failed although its record
  landed, tried again and interrupted, can lose both files; the boot's one pass may keep a caller
  of something removed later in it, and since a first save of that name asks no callers
  (core/capability.c:1240), the caller may stay dead though nothing goes wrong any more (three names,
  each calling the next); a current record that cannot be read is overwritten without a backup
  (core/capability.c:1261), so that a power loss then leaves no version.  `hurt` marks the names concerned.
  A record that does not fit ends the save with "nothing was saved" after the backup has been replaced by
  the current version (:1274); the version before it, which a revert would have brought back, is gone.  A version number is used again
  after a delete or a recovery, which include/capability.h:178 excludes.
- An unlink that fails after erasing the entry leaves the inode cached, and a file created in that
  slot is given it (fs/fat/fat.c:349; hence no "unlink" in `Flaky`).  A write to an empty
  file that finds the volume full keeps the clusters it had claimed.  `vfs_open` ignores a failed
  truncate on O_TRUNC (fs/vfs/vfs.c:176): a write of the agenda then reports success over a document with an
  old tail (`FlushResults`, "tail"); `Capability` takes the truncate to succeed.
- `faultchat_reset` counts the faults so far as seen, while include/faultchat.h:466 says "the next
  pump treats the current newest fault as new"; the kernel never calls it.
- `fiber_exit` switches without `fiber_check_stacks` (core/fiber.c:543), while
  README.os.md:806 says the bands are re-verified on every switch (`EverySwitchVerifiesStacks`).
- A double fault with nothing armed is recorded as one thing and reported as
  another: idt.c:392 against :362 (`OneAccount`).
- Two overlapping patches rolled back in the order they were applied leave the first one's
  bytes in place: tools/patch_tools.c:398 against :5 and :18 (`NothingLiveMeansPristine`,
  with `STATE_PATCH_MAX_SLOTS = 2`).
- `fault_patch_apply` answers ENOSPC counting reverted slots: fault.c:1942 against fault.h:807
  (`EnospcMeansAllLive`).
- A once-item with `max_runs` 1 fires again at each boot: core/agenda.c:1124 against :1106
  (`OnceIsDurable` with `MaxRuns = {1}`; the console says "disabled until the next boot" for it,
  so `StoppedStaysStopped` does not count it as stopped for good).
- `agenda_run_now` does not look at `max_runs`: core/agenda.c:1149 against agenda.h:43
  (`MaxRunsHeld`).
- Saving the item in flight drops its crash marker: core/agenda.c:845 against agenda.h:319
  (`NoSecondKill` with "save" in `BodyEdits`).
- A request that does not fit may evict an earlier attempt of the turn in flight:
  net/chat.c:460 against chat.h:77 (`InFlightNeverEvicted`).
- The 16-bit epoch wraps, and a rollback then also takes a remembered turn with the same
  number: net/chat.c:543 against :538 (`FailureUndoesItselfOnly` with `EPOCHS = 3`).
- An armed text field takes a line from Telegram too, and `active_chat_id` outlives it: the next
  console sentence is answered to that chat (kernel/main.c:753 against :775), and is executed even if
  truncated (:740 against :736).  `OnlyTelegramAnswered` as an invariant of `LoopSpec` with the
  constants of `MCLoop.cfg`; `ReplyGoesToAsker` says that this is the only way to be answered in
  another chat.
- `idle_work` lowers the guard flag before the agenda item that may fault, so the sentence
  polled in the same pass is refused as re-entrant: kernel/main.c:489 against :494 and chat.h:137
  (`RefusedOnlyInside`, likewise); the text sent to Telegram for it is that of an earlier turn
  (main.c:788 against chat.c:1132).  `~struck` excepts this pass in `OperatorNotRefused` and
  in the text of `ReplyGoesToAsker`.
- A fault that escapes out of an agenda sentence leaves that turn's messages in the history:
  core/agenda.c:1024 against include/chat.h:80 (`OnlyFinishedTurnsRemembered`, likewise; within `Chat`,
  where a turn ends by itself, it holds).
- `telegram.sent` set by a tool of another turn silences the next auto-reply: main.c:786
  against :784.

## 8. Plan

In order; each item is a module, its properties and its place in a run.

1. `Capability`: nested invocation under one budget (core/capability.c, `invoke_one`,
   `run_compose`).
2. `Vfs` (mount points, path walking, fs/native), composing `Fat` and the in-memory file system
   behind one interface.
3. `Tool` dispatch and its depth; `Apps` (a panel that closes under a timer); `Input` lines and
   PS/2 packets.
4. `Dvm` (bounds of verified programs), `Sse` and `Json` (a stream cut anywhere parses to the same
   events), `Fetch` (timeouts, redirects, budgets), `Block` (late answers).

Invariants that a theorem covers for every instance leave their run to make place for those of
new modules.

Proofs: of `Fat`, `NoLeak` (which needs what each plan ends with, where `ChainsHold` needs only that it
stays good, and that no entry is behind the directory's end mark) and the refinement of `Files` (which
needs the bytes, and what each table may make of them).
