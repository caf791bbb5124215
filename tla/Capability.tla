----------------------------- MODULE Capability -----------------------------
(***************************************************************************)
(* The capability store (core/capability.c): what is saved, reverted and   *)
(* deleted, which file is written in which order, what the next boot makes *)
(* of the files a loss of power left, and which code a call runs.  The     *)
(* files keep the promise of module Files (INSTANCE F).  A record is one   *)
(* unit of data: the hash in front of it tells a record that is whole from *)
(* one that is not.  Opening with O_TRUNC is taken to empty the file.      *)
(***************************************************************************)
EXTENDS Integers, Sequences, FiniteSets

CONSTANTS
  Caps,       \* capability names
  Texts,      \* what may be saved: [arity, call, narg], see Program, Compose
  CAP_MAX,    \* slots of the registry
  VERSIONS,   \* bound: versions of one name
  MaxOps,     \* bound: saves, reverts and deletes
  MaxErrors,  \* bound: writes, creations and removals that fail
  MaxCrashes, \* bound: losses of power
  MaxRot      \* bound: records damaged in place

VARIABLES
  file, doubt, busy,   \* the store on disk, see Files
  reg,      \* g_cap: name -> its record and which file it was read from
  prog,     \* g_prog: the record the loaded program was assembled from
  job,      \* the save, revert or delete in progress
  may,      \* history: name -> what a boot may register for it
  hurt,     \* history: names with a damaged or unreadable record, whose last
            \* save or delete met an error, or that a boot left out or
            \* registered without what they call
  ops, errors, crashes, rots

(* A name is not "-", which stands for calling nothing.                    *)
ASSUME CapabilityAssumption ==
  /\ IsFiniteSet(Caps) /\ "-" \notin Caps
  /\ Texts \subseteq [arity : Nat, call : Caps \cup {"-"}, narg : Nat]
  /\ CAP_MAX \in Nat /\ VERSIONS \in Nat

Nowhere == [name |-> "-", ver |-> 0, arity |-> 0, call |-> "-", narg |-> 0]
Rotten == [Nowhere EXCEPT !.name = "rotten"]
CapFile(n) == <<n, "cap">>
BakFile(n) == <<n, "bak">>
Paths == Caps \X {"cap", "bak"}

vars == <<file, doubt, busy, reg, prog, job, may, hurt, ops, errors, crashes, rots>>

-----------------------------------------------------------------------------
(* A program takes `arity` arguments and calls nothing; a composition has  *)
(* one step, which calls a capability with `narg` arguments.               *)
Program(a) == [arity |-> a, call |-> "-", narg |-> 0]
Compose(a, c, k) == [arity |-> a, call |-> c, narg |-> k]
IsCompose(r) == r.call # "-"
Version(n, t, v) ==
  [name |-> n, ver |-> v, arity |-> t.arity, call |-> t.call, narg |-> t.narg]
TextOf(r) == [arity |-> r.arity, call |-> r.call, narg |-> r.narg]

Records == {Version(n, t, v) : n \in Caps, t \in Texts, v \in 1..VERSIONS}
F == INSTANCE Files WITH Names <- Paths, Contents <-
       {[is |-> "none", data |-> <<>>], [is |-> "file", data |-> <<>>]} \cup
       {[is |-> "file", data |-> <<r>>] : r \in Records \cup {Rotten}}

(* record_parse: anything but a whole record is refused.                   *)
Parsed(c) == IF c.data = <<>> \/ c.data = <<Rotten>> THEN Nowhere ELSE c.data[1]

Absent == [rec |-> Nowhere, from_backup |-> FALSE]
Held(R) == {n \in Caps : R[n] # Absent}

(* load_one on the record file of n and, when that is refused, on the      *)
(* backup beside it.  A backup alone is not looked at.                     *)
LoadOne(f, n) ==
  LET cap == Parsed(f[CapFile(n)])
      bak == Parsed(f[BakFile(n)])
  IN IF f[CapFile(n)] = F!None THEN Absent
     ELSE IF cap # Nowhere THEN [rec |-> cap, from_backup |-> FALSE]
     ELSE IF bak # Nowhere THEN [rec |-> bak, from_backup |-> TRUE]
     ELSE Absent

(* The step of a composition resolves to nothing, or to something that     *)
(* takes another number of arguments.                                      *)
Dead(R, n) ==
  LET r == R[n].rec
  IN IsCompose(r) /\ (R[r.call] = Absent \/ R[r.call].rec.arity # r.narg)

(* capability_init: the files in the order of the directory while there is *)
(* a slot, then one pass in that order that removes the dead.              *)
Load(f, seq) ==
  LET pass[k \in 0..Len(seq)] ==
        IF k = 0 THEN [n \in Caps |-> Absent]
        ELSE LET R == pass[k - 1]
             IN IF Cardinality(Held(R)) < CAP_MAX
                THEN [R EXCEPT ![seq[k]] = LoadOne(f, seq[k])] ELSE R
  IN pass[Len(seq)]

Sweep(R, seq) ==
  LET pass[k \in 0..Len(seq)] ==
        IF k = 0 THEN R
        ELSE LET Q == pass[k - 1]
             IN IF Dead(Q, seq[k]) THEN [Q EXCEPT ![seq[k]] = Absent] ELSE Q
  IN pass[Len(seq)]

capability_init(f, seq) == Sweep(Load(f, seq), seq)

Orders == {s \in [1..Cardinality(Caps) -> Caps] :
             \A n \in Caps : \E i \in DOMAIN s : s[i] = n}

-----------------------------------------------------------------------------
(* The file operations a save or a delete still has to do, in order.       *)
Resting == [op |-> "none", name |-> "-", todo |-> <<>>, rec |-> Nowhere]
NoProg == Nowhere
Known == Held(reg)

Put(p, d) == [path |-> p, to |-> F!File(d)]
Remove(p) == IF file[p] = F!None THEN <<>> ELSE <<[path |-> p, to |-> F!None]>>

(* file_write_all: open with O_CREAT and O_TRUNC, then write.              *)
WriteAll(p, d) ==
  (IF file[p] = F!File(<<>>) THEN <<>> ELSE <<Put(p, <<>>)>>) \o <<Put(p, d)>>

(* arity_change_breaks_callers: its own old version is a caller too.       *)
BreaksCallers(n, arity) ==
  \E c \in Known : reg[c].rec.call = n /\ reg[c].rec.narg # arity

(* The checks capability_save makes before it touches anything.            *)
HasSlot(n) == n \in Known \/ Cardinality(Known) < CAP_MAX
StepResolves(n, t) ==
  IsCompose(t) =>
    IF t.call = n THEN t.narg = t.arity
    ELSE t.call \in Known /\ reg[t.call].rec.arity = t.narg
KeepsCallers(n, t) ==
  n \in Known /\ reg[n].rec.arity # t.arity => ~BreaksCallers(n, t.arity)

(* Mutant: the callers of a capability are not asked before it changes.    *)
AcceptableAnyArity(n, t) == HasSlot(n) /\ StepResolves(n, t)

Acceptable(n, t) == HasSlot(n) /\ StepResolves(n, t) /\ KeepsCallers(n, t)

(* Mutant: the record first, the backup of the old one after it.           *)
SaveStepsBackupLast(n, r) ==
  WriteAll(CapFile(n), <<r>>) \o
  (IF n \in Known /\ file[CapFile(n)].data # <<>>
   THEN WriteAll(BakFile(n), file[CapFile(n)].data) ELSE <<>>)

(* The order of the writes: the current record to the backup, if there is  *)
(* one that can be read, and only then the new record.                     *)
SaveSteps(n, r) ==
  (IF n \in Known /\ file[CapFile(n)].data # <<>>
   THEN WriteAll(BakFile(n), file[CapFile(n)].data) ELSE <<>>)
  \o WriteAll(CapFile(n), <<r>>)

(* capability_save up to its first write.  A program is assembled into     *)
(* g_prog on the way, before its callers are asked.  A current record that *)
(* cannot be read is not backed up, and the save goes on without.          *)
Save(n, t) ==
  LET r == Version(n, t, reg[n].rec.ver + 1)
      alone == WriteAll(CapFile(n), <<r>>)
      Starts(todo) ==
        /\ job' = [op |-> "save", name |-> n, todo |-> todo, rec |-> r]
        /\ may' = [may EXCEPT ![n] = @ \cup {r}]
  IN /\ job = Resting /\ r.ver <= VERSIONS /\ HasSlot(n)
     /\ ops < MaxOps /\ ops' = ops + 1
     /\ prog' = IF IsCompose(t) THEN prog ELSE NoProg
     /\ \/ /\ Acceptable(n, t) /\ Starts(SaveSteps(n, r))
           /\ UNCHANGED <<hurt, errors>>
        \/ /\ Acceptable(n, t) /\ SaveSteps(n, r) # alone /\ Starts(alone)
           /\ errors < MaxErrors /\ errors' = errors + 1
           /\ hurt' = hurt \cup {n}
        \/ /\ ~Acceptable(n, t) /\ prog' # prog
           /\ UNCHANGED <<job, may, hurt, errors>>
     /\ UNCHANGED <<file, doubt, busy, reg, crashes, rots>>

(* capability_revert: what the backup holds is saved as the next version.  *)
Revert(n) ==
  LET old == Parsed(file[BakFile(n)])
  IN n \in Known /\ old # Nowhere /\ Save(n, TextOf(old))

(* capability_delete: refused while another composition calls it.          *)
Delete(n) ==
  /\ job = Resting /\ n \in Known
  /\ ops < MaxOps /\ ops' = ops + 1
  /\ \A c \in Known \ {n} : reg[c].rec.call # n
  /\ job' = [op |-> "delete", name |-> n, rec |-> Nowhere,
             todo |-> Remove(CapFile(n)) \o Remove(BakFile(n))]
  /\ may' = [may EXCEPT ![n] = @ \cup {Nowhere}]
  /\ UNCHANGED <<file, doubt, busy, reg, prog, hurt, errors, crashes, rots>>

-----------------------------------------------------------------------------
Op == Head(job.todo)

Issue ==
  /\ job.todo # <<>>
  /\ busy' = [name |-> <<Op.path>>, to |-> Op.to]
  /\ F!Begin(Op.path)
  /\ UNCHANGED <<reg, prog, job, may, hurt, ops, errors, crashes, rots>>

Complete ==
  /\ busy # F!NoOp
  /\ F!Succeed(Op.path)
  /\ job' = [job EXCEPT !.todo = Tail(@)]
  /\ UNCHANGED <<reg, prog, may, hurt, ops, errors, crashes, rots>>

Failed(next) ==
  /\ busy # F!NoOp /\ errors < MaxErrors
  /\ Op.to = F!File(<<>>) => file[Op.path] = F!None
  /\ F!Fail(Op.path)
  /\ errors' = errors + 1
  /\ job' = next
  /\ hurt' = hurt \cup {job.name}
  /\ UNCHANGED <<reg, prog, may, ops, crashes, rots>>

(* Mutant: a save goes on when a write has failed.                         *)
OpFailsGoesOn == Failed([job EXCEPT !.todo = Tail(@)])

(* A save gives up at the first write or creation that fails; a delete     *)
(* goes on, whichever of its two removals failed.                          *)
OpFails ==
  Failed(IF job.op = "save" THEN Resting ELSE [job EXCEPT !.todo = Tail(@)])

(* record_write, once the backup is down: a record that does not fit ends  *)
(* the save before the record file is opened.  In front of an empty file   *)
(* nothing was written yet, and giving up is what a refused Save does.     *)
RecordTooLong ==
  /\ job.op = "save" /\ busy = F!NoOp
  /\ job.todo # <<>> /\ Op = Put(CapFile(job.name), <<>>)
  /\ job' = Resting
  /\ UNCHANGED <<file, doubt, busy, reg, prog, may, hurt, ops, errors, crashes, rots>>

(* The last lines of capability_save and capability_delete, once the files *)
(* are down: the registry, and registry_changed, which drops the program.  *)
Register(prg) ==
  LET n == job.name
  IN /\ job.op # "none" /\ job.todo = <<>> /\ busy = F!NoOp
     /\ reg' = [reg EXCEPT ![n] = [rec |-> job.rec, from_backup |-> FALSE]]
     /\ prog' = prg
     /\ job' = Resting
     /\ may' = IF doubt[CapFile(n)] \in {{F!None}, {F!File(<<job.rec>>)}}
               THEN [may EXCEPT ![n] = {job.rec}] ELSE may
     /\ hurt' = IF job.op = "save" /\ Cardinality(doubt[BakFile(n)]) = 1
                THEN hurt \ {n} ELSE hurt
     /\ UNCHANGED <<file, doubt, busy, ops, errors, crashes, rots>>

(* Mutant: the loaded program outlives a change of the registry.           *)
FinishKeepsProgram == Register(prog)

Finish == Register(NoProg)

(* Power is lost and the machine boots.                                    *)
Boot ==
  /\ crashes < MaxCrashes /\ crashes' = crashes + 1
  /\ F!PowerLoss
  /\ \E seq \in Orders : reg' = capability_init(file', seq)
  /\ may' = [n \in Caps |-> {LoadOne(file', n).rec}]
  /\ prog' = NoProg /\ job' = Resting
  /\ hurt' = hurt \cup {n \in Caps : \/ job.op = "delete" /\ n = job.name
                                    \/ reg'[n] # LoadOne(file', n)
                                    \/ Dead(reg', n)}
  /\ UNCHANGED <<ops, errors, rots>>

(* A stored record is damaged where it lies; a boot may then register what *)
(* the other file holds.                                                   *)
Rot(p) ==
  /\ job = Resting /\ rots < MaxRot /\ rots' = rots + 1
  /\ file[p].data \notin {<<>>, <<Rotten>>}
  /\ file' = [file EXCEPT ![p] = F!File(<<Rotten>>)]
  /\ doubt' = [doubt EXCEPT ![p] = {F!File(<<Rotten>>)}]
  /\ hurt' = hurt \cup {p[1]}
  /\ may' = [may EXCEPT ![p[1]] = @ \cup {LoadOne(file', p[1]).rec}]
  /\ UNCHANGED <<busy, reg, prog, job, ops, errors, crashes>>

(* program_load on the way into a program: the loaded image if it has the  *)
(* name and version, else the file the record was registered from.         *)
Loaded(n) ==
  LET r == reg[n].rec
      p == IF reg[n].from_backup THEN BakFile(n) ELSE CapFile(n)
      stored == Parsed(file[p])
  IN IF prog.name = r.name /\ prog.ver = r.ver THEN prog
     ELSE IF stored.name = r.name /\ stored.ver = r.ver THEN stored
     ELSE NoProg

Call(n) ==
  /\ job = Resting /\ n \in Known /\ ~IsCompose(reg[n].rec)
  /\ prog' = Loaded(n)
  /\ UNCHANGED <<file, doubt, busy, reg, job, may, hurt, ops, errors, crashes, rots>>

(* A file whose last operation failed is read from the disk again.         *)
Reread(p) ==
  /\ job = Resting /\ doubt[p] # {file[p]}
  /\ F!Reread(p)
  /\ UNCHANGED <<reg, prog, job, may, hurt, ops, errors, crashes, rots>>

Init ==
  /\ file = [p \in Paths |-> F!None]
  /\ doubt = [p \in Paths |-> {F!None}]
  /\ busy = F!NoOp
  /\ reg = [n \in Caps |-> Absent]
  /\ prog = NoProg /\ job = Resting
  /\ may = [n \in Caps |-> {Nowhere}]
  /\ hurt = {} /\ errors = 0 /\ crashes = 0 /\ rots = 0 /\ ops = 0

Next ==
  \/ \E n \in Caps, t \in Texts : Save(n, t)
  \/ \E n \in Caps : Revert(n) \/ Delete(n) \/ Call(n)
  \/ \E p \in Paths : Rot(p) \/ Reread(p)
  \/ Issue \/ Complete \/ OpFails \/ RecordTooLong \/ Finish \/ Boot

Spec == Init /\ [][Next]_vars

-----------------------------------------------------------------------------
(* A boot, after any loss of power, reads for every name a version whose  *)
(* save had begun and which no later save that returned success replaced;  *)
(* it finds none only if there was none or it was being deleted (the       *)
(* comment "THE ORDER BELOW IS THE CONSISTENCY GUARANTEE").  Excepted are  *)
(* names in `hurt`: see WorkingVersionKept.                                *)
BootKeepsVersions ==
  [][crashes' # crashes =>
       \A n \in Caps \ hurt : LoadOne(file', n).rec \in may[n]]_vars

(* The same of every name, also after a record was found damaged: "the     *)
(* working version is never the thing at risk".                            *)
WorkingVersionKept ==
  [][crashes' # crashes => \A n \in Caps : LoadOne(file', n).rec \in may[n]]_vars

(* While nothing is being saved, the record of every registered name is    *)
(* on the disk for good, in its file or in its backup ("the registry never *)
(* advertises something the store does not hold").                         *)
RegistryIsStored ==
  job = Resting =>
    \A n \in Known \ hurt :
      \/ doubt[CapFile(n)] = {F!File(<<reg[n].rec>>)}
      \/ doubt[BakFile(n)] = {F!File(<<reg[n].rec>>)}

(* Every registered composition calls something registered, with as many   *)
(* arguments as it takes, through any sequence of saves, reverts, deletes  *)
(* and boots; and a boot refuses no stored composition, whatever save or   *)
(* delete of another name the loss of power interrupted.                   *)
StepsResolve ==
  [][hurt = {} => \A n \in Caps :
       /\ ~Dead(reg', n)
       /\ crashes' # crashes => reg'[n] = LoadOne(file', n)]_vars

(* The loaded program is used for a name and version only if it was        *)
(* assembled from the record registered under them.                        *)
CallRunsRegistered ==
  job = Resting =>
    \A n \in Known : prog.name = n /\ prog.ver = reg[n].rec.ver
                        => prog = reg[n].rec
=============================================================================
