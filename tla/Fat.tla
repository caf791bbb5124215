-------------------------------- MODULE Fat --------------------------------
(***************************************************************************)
(* The disk file system (fs/fat/fat.c, fat_dir.c, fat_vol.c) under the     *)
(* handles of fs/vfs/vfs.c and over a block device (drivers/block), down   *)
(* to single sector writes and flushes.                                    *)
(*                                                                         *)
(* A cluster is one sector of UNITS units: a unit is a byte of a file or   *)
(* a record of a directory.  The volume is one directory, the root, with   *)
(* files and empty subdirectories in it.  A device without a write cache   *)
(* makes each write durable at once; one with a cache may, when power is   *)
(* lost, have kept any subset of the writes since the last flush.  The     *)
(* system is single-threaded, so an operation is decided when it is        *)
(* called: it is the sequence of writes, flushes and in-core changes its   *)
(* code makes, taken one at a time, each of which may report an error or   *)
(* be the last before power is lost.                                       *)
(***************************************************************************)
EXTENDS Integers, Sequences, SequencesExt, FiniteSets, FiniteSetsExt, TLC

CONSTANTS
  FileNames,  \* names used for files
  DirNames,   \* names used for subdirectories
  Width,      \* name -> records its entry set takes (long-name records + 1)
  UNITS,      \* units of a cluster
  CLUSTERS,   \* clusters are numbered 2..CLUSTERS+1; cluster 2 is the root
  MAX_SIZE,   \* longest file callers make
  Devices,    \* [cache: BOOLEAN, fatsec: cluster -> sector of its FAT entry]
  Volumes,    \* initial volumes: file -> size, or -1 when it is absent
  Flaky,      \* operations during which the device may report an error
  Writes,     \* <<off, len>> of the writes callers make
  Sizes,      \* sizes files are truncated to
  MaxOps, MaxFaults    \* bounds: operations, device errors plus power losses

Names == FileNames \cup DirNames
Clus == 2..(CLUSTERS + 1)
Root == 2
FREE == 0
EOC == -1

ASSUME FatConstants ==
  /\ FileNames \cap DirNames = {}
  /\ UNITS \in Nat \ {0} /\ CLUSTERS \in Nat \ {0} /\ MAX_SIZE \in Nat
  /\ Sizes \subseteq 0..MAX_SIZE /\ Writes \subseteq Nat \X Nat
  /\ \A n \in Names : Width[n] \in 1..UNITS
  /\ \A d \in Devices : /\ d.cache \in BOOLEAN /\ DOMAIN d.fatsec = Clus
                        /\ \A c \in Clus : d.fatsec[c] \notin Clus

(* The volumes to start from: the files are in the root's first cluster    *)
(* and the data area has room for two clusters of each.                    *)
ASSUME FatVolumes ==
  /\ IsFiniteSet(FileNames) /\ Cardinality(FileNames) <= UNITS
  /\ 1 + 2 * Cardinality(FileNames) <= CLUSTERS
  /\ \A v \in Volumes : /\ \A n \in FileNames : v.size[n] \in -1..UNITS
                        /\ v.long \subseteq {n \in FileNames : v.size[n] > 0}

VARIABLES
  dev,      \* the block device
  disk,     \* sector -> contents that survive a loss of power
  now,      \* sector -> contents as reads return them
  log,      \* writes since the last flush, oldest first
  hint,     \* v->alloc_hint
  icache,   \* directory index -> the in-core inode of that entry
  open,     \* directory indexes some handle is open on
  job,      \* the operation in progress
  seen,     \* history: name -> what callers found there when last at rest
  doubt,    \* history: name -> what a failure or crash may leave there
  errors, crashes, ops    \* how much has happened

vars == <<dev, disk, now, log, hint, icache, open, job, seen, doubt,
          errors, crashes, ops>>

-----------------------------------------------------------------------------
(* Sectors.  The data sector of a cluster is the cluster's number; a FAT   *)
(* sector is whatever dev.fatsec says.                                     *)

Unit(kind, name, first, size) ==
  [kind |-> kind, name |-> name, first |-> first, size |-> size]
Nobody == "-"
Zero == Unit("zero", Nobody, 0, 0)
Deleted == Unit("deleted", Nobody, 0, 0)
Dots == Unit("dots", Nobody, 0, 0)
Stale == Unit("byte", Nobody, 0, 0)         \* left by a file long gone
Byte(n, gen) == Unit("byte", n, gen, 0)     \* written for n before / since boot
Lfn(n) == Unit("lfn", n, 0, 0)
IsEntry(u) == u.kind \in {"file", "dir"}

FatSectors(d) == {d.fatsec[c] : c \in Clus}
FatOf(d, img) == [c \in Clus |-> img[d.fatsec[c]][c]]

(* The images a loss of power may leave: each write since the last flush   *)
(* has reached the medium or has not.                                      *)
Images(img, writes) ==
  LET hit(kept, s) == {k \in kept : writes[k].sec = s}
  IN {[s \in DOMAIN img |-> IF hit(kept, s) = {} THEN img[s]
                            ELSE writes[Max(hit(kept, s))].val] :
        kept \in SUBSET DOMAIN writes}

-----------------------------------------------------------------------------
(* Chains and the directory.                                               *)

(* The clusters of the chain from c, as chain_at and ensure_clusters       *)
(* follow it: up to the first entry that names no cluster, with the guard  *)
(* against loops.                                                          *)
Chain(fat, c) ==
  LET after(s) == IF s = <<>> THEN c ELSE fat[Last(s)]
      follow(s) == IF after(s) \in Clus THEN Append(s, after(s)) ELSE s
      walk[k \in 0..CLUSTERS] == IF k = 0 THEN <<>> ELSE follow(walk[k - 1])
  IN walk[CLUSTERS]

(* What a scan of s takes: its elements that are in S, in their order.     *)
Taken(s, S) ==
  LET scan[k \in 0..Len(s)] ==
        IF k = 0 THEN <<>>
        ELSE IF s[k] \in S THEN Append(scan[k - 1], s[k]) ELSE scan[k - 1]
  IN scan[Len(s)]

(* The free clusters in the order fat_alloc_cluster would take them.       *)
FreeFrom(fat, h) ==
  Taken([k \in 1..CLUSTERS |-> 2 + ((h - 2 + k - 1) % CLUSTERS)],
        {c \in Clus : fat[c] = FREE})

HintAfter(c) == IF c + 1 >= CLUSTERS + 2 THEN 2 ELSE c + 1

(* The root directory as one sequence of records, index 0 first.           *)
Records(fat, img) ==
  LET ch == Chain(fat, Root)
  IN [i \in 1..(Len(ch) * UNITS) |->
        img[ch[1 + ((i - 1) \div UNITS)]][1 + ((i - 1) % UNITS)]]

(* fat_dir_next: where the scan stops at a record whose first byte is 0.   *)
Visible(recs) ==
  LET ends == {i \in DOMAIN recs : recs[i] = Zero}
  IN IF ends = {} THEN DOMAIN recs ELSE 1..(Min(ends) - 1)

(* fat_dir_find: the entry of n, named by the records in front of it.      *)
Named(recs, i, n) ==
  /\ IsEntry(recs[i]) /\ recs[i].name = n
  /\ \A k \in 1..(Width[n] - 1) : i - k \in DOMAIN recs /\ recs[i - k] = Lfn(n)
FindIn(fat, img, n) ==
  LET recs == Records(fat, img)
      at   == {i \in Visible(recs) : Named(recs, i, n)}
  IN IF at = {} THEN 0 ELSE Min(at)

Fat == FatOf(dev, now)
Dir == Records(Fat, now)
Find(n) == FindIn(Fat, now, n)
SlotClus(i) == Chain(Fat, Root)[1 + ((i - 1) \div UNITS)]
SlotUnit(i) == 1 + ((i - 1) % UNITS)

-----------------------------------------------------------------------------
(* What a caller finds under a name: through the in-core inode when there  *)
(* is one.                                                                 *)
NoInode == [first |-> -1, size |-> 0, cur |-> 0, curi |-> 0]
InodeOf(e) == [first |-> e.first, size |-> e.size, cur |-> 0, curi |-> 0]
Slots == 1..(CLUSTERS * UNITS)
NoCache == [i \in Slots |-> NoInode]
Inode(i) == IF icache[i] = NoInode THEN InodeOf(Dir[i]) ELSE icache[i]

Lost == [is |-> "lost", data |-> <<>>]
None == [is |-> "none", data |-> <<>>]
Directory == [is |-> "dir", data |-> <<>>]
File(d) == [is |-> "file", data |-> d]

(* fat_op_read of the whole file: rw_bytes over the chain.                 *)
Bytes(fat, img, first, size) ==
  LET ch == Chain(fat, first)
  IN IF size > Len(ch) * UNITS THEN Lost
     ELSE File([p \in 1..size |->
                  img[ch[1 + ((p - 1) \div UNITS)]][1 + ((p - 1) % UNITS)]])

SeenIn(img, cache, n) ==
  LET fat  == FatOf(dev, img)
      i    == FindIn(fat, img, n)
      e    == Records(fat, img)[i]
      in   == IF cache[i] = NoInode THEN InodeOf(e) ELSE cache[i]
  IN IF i = 0 THEN None
     ELSE IF e.kind = "dir" THEN Directory
     ELSE Bytes(fat, img, in.first, in.size)
Look(img, cache) == [n \in Names |-> SeenIn(img, cache, n)]

-----------------------------------------------------------------------------
(* The steps an operation is made of.  `undo` is what the code does when   *)
(* the step fails.                                                         *)
Data(c, u) == [k |-> "data", c |-> c, u |-> u, undo |-> <<>>]
Xfer(c, u, i, pos) == [k |-> "xfer", c |-> c, u |-> u, i |-> i, pos |-> pos,
                       undo |-> <<>>]
SetFat(c, v, h) == [k |-> "fat", c |-> c, v |-> v, hint |-> h, undo |-> <<>>]
Barrier == [k |-> "barrier", undo |-> <<>>]
Core(i, in) == [k |-> "core", i |-> i, in |-> in, undo |-> <<>>]
Refuse == [k |-> "refuse", undo |-> <<>>]
OnFailure(steps, undo) == [j \in DOMAIN steps |-> [steps[j] EXCEPT !.undo = undo]]

AllOf(u) == [j \in 1..UNITS |-> u]
At(j, u) == [k \in {j} |-> u]
(* A sector is read, changed in the units u gives, and written whole.      *)
Merge(u, old) == [j \in DOMAIN old |-> IF j \in DOMAIN u THEN u[j] ELSE old[j]]
ClustersFor(bytes) == (bytes + UNITS - 1) \div UNITS

(* fat_alloc_cluster of c: zero it, then claim it.                         *)
Alloc(c) == <<Data(c, AllOf(Zero)), SetFat(c, EOC, "next")>>

(* fat_free_chain from the head on.                                        *)
FreeChain(fat, c) ==
  LET ch == Chain(fat, c) IN [k \in DOMAIN ch |-> SetFat(ch[k], FREE, "low")]

(* ensure_clusters: the steps, and the inode and table they leave.         *)
Ensure(i, in, bytes) ==
  LET ch     == Chain(Fat, in.first)
      free   == FreeFrom(Fat, hint)
      short  == ClustersFor(bytes) - Len(ch)
      broken == ch # <<>> /\ Fat[Last(ch)] # EOC
      n      == IF short <= 0 \/ broken THEN 0 ELSE Min({short, Len(free)})
      full   == ch \o SubSeq(free, 1, n)
      claimed == IF in.first = 0 /\ n > 0
                 THEN [in EXCEPT !.first = free[1], !.cur = free[1], !.curi = 0]
                 ELSE in
      join(j) == IF j = 1 THEN <<Core(i, claimed)>>
                 ELSE <<SetFat(full[j - 1], full[j], "keep")>>
  IN [steps |-> FlattenSeq([k \in 1..n |->
                   Alloc(full[Len(ch) + k]) \o join(Len(ch) + k)])
                \o (IF short > n THEN <<Refuse>> ELSE <<>>),
      in    |-> claimed,
      fat   |-> [c \in Clus |->
                   IF \E j \in Len(ch)..(Len(full) - 1) : j > 0 /\ full[j] = c
                   THEN full[1 + CHOOSE j \in DOMAIN full : full[j] = c]
                   ELSE IF n > 0 /\ c = Last(full) THEN EOC ELSE Fat[c]]]

(* chain_at for a transfer that starts at cluster position p0: from the    *)
(* cursor when it is not past p0, else from the first cluster; 0 when the  *)
(* chain is too short.                                                     *)
ChainAt(in, fat, p0, pos) ==
  LET resume == in.cur # 0 /\ in.curi <= p0
      ch     == Chain(fat, IF resume THEN in.cur ELSE in.first)
      k      == pos + 1 - (IF resume THEN in.curi ELSE 0)
  IN IF k \in DOMAIN ch THEN ch[k] ELSE 0

(* rw_bytes, writing u to bytes [from, to), one sector at a time.          *)
Put(i, in, fat, from, to, u) ==
  IF from >= to THEN <<>>
  ELSE LET p0 == from \div UNITS
           p1 == (to - 1) \div UNITS
           in_cluster(pos) ==
             {j \in 1..UNITS : pos * UNITS + j \in (from + 1)..to}
           at(pos) == ChainAt(in, fat, p0, pos)
       IN [k \in 1..(p1 - p0 + 1) |->
             LET pos == p0 + k - 1
             IN IF at(pos) = 0 THEN Refuse
                ELSE Xfer(at(pos), [j \in in_cluster(pos) |-> u], i, pos)]

(* Mutant: the size is published with the data still in the drive's cache. *)
CommitUnflushed(i, first, size) ==
  <<IF IsEntry(Dir[i])
    THEN Data(SlotClus(i), At(SlotUnit(i),
                [Dir[i] EXCEPT !.first = first, !.size = size]))
    ELSE Refuse,
    Barrier>>

(* commit: everything down, then the entry, then the entry down.           *)
Commit(i, first, size) ==
  <<Barrier,
    IF IsEntry(Dir[i])
    THEN Data(SlotClus(i), At(SlotUnit(i),
                [Dir[i] EXCEPT !.first = first, !.size = size]))
    ELSE Refuse,
    Barrier>>

-----------------------------------------------------------------------------
(* fat_dir_add of an entry set, into the table and hint given: the steps   *)
(* and the index of the entry.                                             *)
FreeRun(units, w) ==
  {j \in 1..UNITS : /\ j - w + 1 >= 1
                    /\ \A k \in (j - w + 1)..j : units[k] \in {Zero, Deleted}}

(* The leftover records of a sector that holds the end of the directory    *)
(* are retired, or a set placed after them would be invisible.             *)
Retire(c) ==
  LET zeros == {j \in 1..UNITS : now[c][j] = Zero}
  IN IF zeros = {} THEN <<>>
     ELSE <<Data(c, [j \in Min(zeros)..UNITS |-> Deleted])>>

(* dir_extend: the new cluster is zeroed, marked and durable before the    *)
(* directory's chain leads to it.                                          *)
DirExtend(ch, c) == Alloc(c) \o <<Barrier, SetFat(Last(ch), c, "keep")>>

DirAdd(n, entry, fat, h) ==
  LET w    == Width[n]
      ch   == Chain(fat, Root)
      fits == {k \in DOMAIN ch : FreeRun(now[ch[k]], w) # {}}
      k    == IF fits = {} THEN Len(ch) + 1 ELSE Min(fits)
      free == FreeFrom(fat, h)
      at   == IF fits = {} THEN w ELSE Min(FreeRun(now[ch[k]], w))
      set(c) == Data(c, [j \in (at - w + 1)..at |->
                           IF j = at THEN entry ELSE Lfn(n)])
      retired == FlattenSeq([j \in 1..(k - 1) |-> Retire(ch[j])])
  IN [index |-> (k - 1) * UNITS + at,
      steps |-> retired \o
                (IF fits # {} THEN <<set(ch[k])>>
                 ELSE IF free = <<>> THEN <<Refuse>>
                 ELSE DirExtend(ch, free[1]) \o <<set(free[1])>>)]

(* inode_get after a create: the inode cached under that index, if any     *)
(* (a full volume's fat_dir_add gives an index past the last).             *)
Cached(i, entry) ==
  Core(i, IF i \in Slots /\ icache[i] # NoInode THEN icache[i] ELSE InodeOf(entry))

CreatePlan(n) ==
  LET e   == Unit("file", n, 0, 0)
      add == DirAdd(n, e, Fat, hint)
  IN add.steps \o <<Barrier, Cached(add.index, e)>>

(* fat_op_create of a directory: its cluster is valid before its name is.  *)
MkdirPlan(n) ==
  LET c    == FreeFrom(Fat, hint)[1]
      e    == Unit("dir", n, c, 0)
      add  == DirAdd(n, e, [Fat EXCEPT ![c] = EOC], HintAfter(c))
      undo == <<SetFat(c, FREE, "low")>>
  IN Alloc(c)
     \o OnFailure(<<Data(c, AllOf(Dots)), Barrier>> \o add.steps, undo)
     \o <<Barrier, Cached(add.index, e)>>

(* Mutant: the clusters are freed before the name is gone.                 *)
UnlinkFreeFirst(i) ==
  LET w == Width[Dir[i].name]
      erase(j) == Data(SlotClus(j), At(SlotUnit(j), Deleted))
  IN FreeChain(Fat, Dir[i].first) \o <<erase(i), Barrier>>
     \o [k \in 1..(w - 1) |-> erase(i - k)]
     \o <<Barrier, Core(i, NoInode)>>

(* fat_op_unlink: the entry is erased and flushed inside fat_dir_remove    *)
(* (the short record first), then the clusters are freed and the inode     *)
(* dropped.                                                                *)
UnlinkPlan(i) ==
  LET w == Width[Dir[i].name]
      erase(j) == Data(SlotClus(j), At(SlotUnit(j), Deleted))
  IN <<erase(i), Barrier>>
     \o [k \in 1..(w - 1) |-> erase(i - k)]
     \o FreeChain(Fat, Dir[i].first)
     \o <<Barrier, Core(i, NoInode)>>

WritePlan(i, off, len, u) ==
  LET in   == icache[i]
      e    == Ensure(i, in, off + len)
      hole == Put(i, e.in, e.fat, in.size, off, Zero)     \* zero_range
      size == Max({off + len, in.size})
  IN e.steps \o hole
     \o Put(i, e.in, e.fat, off, off + len, u)
     \o Commit(i, e.in.first, size)
     \o <<Core(i, [e.in EXCEPT !.size = size])>>

GrowPlan(i, size) ==
  LET in == icache[i]
      e  == Ensure(i, in, size)
  IN e.steps \o Put(i, e.in, e.fat, in.size, size, Zero)
     \o Commit(i, e.in.first, size)
     \o <<Core(i, [e.in EXCEPT !.size = size])>>

(* Mutant: the chain is cut and its tail forgotten.                        *)
ShrinkKeepsTail(i, size) ==
  LET in   == icache[i]
      keep == ClustersFor(size)
      to   == IF keep = 0 THEN [in EXCEPT !.first = 0] ELSE in
      cut  == [to EXCEPT !.size = size, !.cur = 0, !.curi = 0]
      last == ChainAt(cut, Fat, keep - 1, keep - 1)
  IN <<Core(i, to)>>
     \o OnFailure(Commit(i, to.first, size), <<Core(i, in)>>)
     \o <<Core(i, cut)>>
     \o (IF keep = 0 \/ last = 0 THEN <<>> ELSE <<SetFat(last, EOC, "keep")>>)
     \o <<Barrier>>

(* fat_op_truncate to a smaller size: the size is committed, then the      *)
(* chain is terminated, then what is behind its new end is freed.  The     *)
(* chains of the volumes are whole, so a walk that ends early has come to  *)
(* the chain's end.                                                        *)
ShrinkPlan(i, size) ==
  LET in   == icache[i]
      keep == ClustersFor(size)
      to   == IF keep = 0 THEN [in EXCEPT !.first = 0] ELSE in
      cut  == [to EXCEPT !.size = size, !.cur = 0, !.curi = 0]
      last == ChainAt(cut, Fat, keep - 1, keep - 1)
      trim == IF keep = 0 THEN FreeChain(Fat, in.first)
              ELSE IF last = 0 THEN <<>>
              ELSE <<Core(i, [cut EXCEPT !.cur = last, !.curi = keep - 1])>>
                   \o (IF Fat[last] = EOC THEN <<>>
                       ELSE IF Fat[last] = FREE THEN <<Refuse>>
                       ELSE <<SetFat(last, EOC, "keep"), Barrier>>
                            \o FreeChain(Fat, Fat[last]))
  IN <<Core(i, to)>>
     \o OnFailure(Commit(i, to.first, size), <<Core(i, in)>>)
     \o <<Core(i, cut)>> \o trim \o <<Barrier>>

-----------------------------------------------------------------------------
(* Calls.                                                                  *)
Idle == [op |-> "idle", name |-> <<>>, to |-> None,
         steps |-> <<>>, ok |-> TRUE]

Contents ==
  {None, Directory} \cup
  {File(d) : d \in UNION {[1..k -> {Zero} \cup {Byte(n, g) : n \in FileNames,
                                                         g \in 0..1}] :
                          k \in 0..MAX_SIZE}}

P == INSTANCE Files WITH
       Contents <- Contents,
       file <- seen,
       doubt <- doubt,
       busy <- [name |-> job.name, to |-> job.to]

Call(op, n, to, plan) ==
  /\ ops < MaxOps /\ ops' = ops + 1
  /\ job' = [op |-> op, name |-> <<n>>, to |-> to,
             steps |-> plan, ok |-> TRUE]
  /\ doubt' = [doubt EXCEPT ![n] = P!Widen(@, to)]
  /\ UNCHANGED <<dev, disk, now, log, hint, icache, open, seen, errors, crashes>>

Create(n) ==
  /\ job = Idle /\ n \in FileNames /\ Find(n) = 0
  /\ Call("create", n, File(<<>>), CreatePlan(n))

Mkdir(n) ==
  /\ job = Idle /\ n \in DirNames /\ Find(n) = 0
  /\ FreeFrom(Fat, hint) # <<>>
  /\ Call("mkdir", n, Directory, MkdirPlan(n))

(* fat_op_unlink: refused while a handle is open.                          *)
Unlink(n) ==
  /\ job = Idle /\ Find(n) # 0 /\ Find(n) \notin open
  /\ Call("unlink", n, None, UnlinkPlan(Find(n)))

Write(n, off, len) ==
  LET i    == Find(n)
      old  == seen[n].data
      size == Max({off + len, Len(old)})
  IN /\ job = Idle /\ i # 0 /\ i \in open /\ len > 0 /\ off + len <= MAX_SIZE
     /\ Call("write", n,
             File([p \in 1..size |-> IF p \in (off + 1)..(off + len)
                                     THEN Byte(n, 1)
                                     ELSE IF p <= Len(old) THEN old[p] ELSE Zero]),
             WritePlan(i, off, len, Byte(n, 1)))

Truncate(n, size) ==
  LET i == Find(n) old == seen[n].data
  IN /\ job = Idle /\ i # 0 /\ i \in open /\ size # icache[i].size
     /\ Call("truncate", n,
             File([p \in 1..size |-> IF p <= Len(old) THEN old[p] ELSE Zero]),
             IF size > icache[i].size THEN GrowPlan(i, size)
             ELSE ShrinkPlan(i, size))

(* vfs_open and vfs_close: a handle holds a reference to the inode.        *)
Open(n) ==
  LET i == Find(n)
  IN /\ job = Idle /\ i # 0 /\ i \notin open /\ Dir[i].kind = "file"
     /\ open' = open \cup {i}
     /\ icache' = [icache EXCEPT ![i] = Inode(i)]
     /\ UNCHANGED <<dev, disk, now, log, hint, job, seen, doubt, errors, crashes, ops>>

Close(i) ==
  /\ job = Idle /\ i \in open /\ open' = open \ {i}
  /\ UNCHANGED <<dev, disk, now, log, hint, icache, job, seen, doubt,
                 errors, crashes, ops>>

(* fat_op_read to the end of the file leaves the cursor on its last        *)
(* cluster.                                                                *)
Read(i) ==
  /\ job = Idle /\ i \in open /\ icache[i].size > 0
  /\ LET pos == (icache[i].size - 1) \div UNITS
         c   == ChainAt(icache[i], Fat, pos, pos)
     IN /\ c # 0
        /\ icache' = [icache EXCEPT ![i].cur = c, ![i].curi = pos]
  /\ UNCHANGED <<dev, disk, now, log, hint, open, job, seen, doubt,
                 errors, crashes, ops>>

(* icache_trim, while some other entry is looked up in a full cache: a     *)
(* file nobody has open loses its inode.                                   *)
Trim(i) ==
  /\ job = Idle /\ icache[i] # NoInode /\ i \notin open
  /\ Dir[i].kind # "dir"
  /\ LET kept == [icache EXCEPT ![i] = NoInode]
     IN icache' = kept /\ seen' = Look(now, kept)
  /\ UNCHANGED <<dev, disk, now, log, hint, open, job, doubt,
                 errors, crashes, ops>>

-----------------------------------------------------------------------------
(* Steps of the operation in progress.                                     *)
Step == Head(job.steps)

(* fat_sector_write.                                                       *)
SectorWrite(sec, val) ==
  /\ now' = [now EXCEPT ![sec] = val]
  /\ IF dev.cache THEN log' = Append(log, [sec |-> sec, val |-> val])
                       /\ UNCHANGED disk
     ELSE disk' = [disk EXCEPT ![sec] = val] /\ UNCHANGED log

FatWrite == LET s == dev.fatsec[Step.c]
            IN SectorWrite(s, [now[s] EXCEPT ![Step.c] = Step.v])

Going(kinds) == job.steps # <<>> /\ Step.k \in kinds
Proceed == job' = [job EXCEPT !.steps = Tail(@)]
GiveUp == job' = [job EXCEPT !.steps = Step.undo, !.ok = FALSE]

DoData ==
  /\ Going({"data", "xfer"}) /\ Proceed
  /\ SectorWrite(Step.c, Merge(Step.u, now[Step.c]))
  /\ icache' = IF Step.k = "data" THEN icache
               ELSE [icache EXCEPT ![Step.i].cur = Step.c,
                                   ![Step.i].curi = Step.pos]
  /\ UNCHANGED <<dev, hint, open, seen, doubt, errors, crashes, ops>>

DoFat ==
  /\ Going({"fat"}) /\ Proceed
  /\ FatWrite
  /\ hint' = CASE Step.hint = "next" -> HintAfter(Step.c)
               [] Step.hint = "low" -> Min({hint, Step.c})
               [] OTHER -> hint
  /\ UNCHANGED <<dev, icache, open, seen, doubt, errors, crashes, ops>>

(* fat_barrier: block_flush.                                               *)
DoBarrier ==
  /\ Going({"barrier"}) /\ Proceed
  /\ disk' = now /\ log' = <<>>
  /\ UNCHANGED <<dev, now, hint, icache, open, seen, doubt, errors, crashes, ops>>

DoCore ==
  /\ Going({"core"}) /\ Proceed
  /\ icache' = [icache EXCEPT ![Step.i] = Step.in]
  /\ UNCHANGED <<dev, disk, now, log, hint, open, seen, doubt, errors, crashes, ops>>

DoRefuse ==
  /\ Going({"refuse"}) /\ GiveUp /\ errors' = errors + 1
  /\ UNCHANGED <<dev, disk, now, log, hint, icache, open, seen, doubt,
                 crashes, ops>>

(* The device reports an error.  fat_set writes every copy of the table    *)
(* and the first is the one that is read: an error on a later copy comes   *)
(* after the entry has changed.  A data sector whose write is reported as  *)
(* failed is taken not to have changed, and the cursor not to have moved.  *)
IoError ==
  /\ Going({"data", "xfer", "fat", "barrier"}) /\ GiveUp
  /\ job.op \in Flaky /\ errors + crashes < MaxFaults /\ errors' = errors + 1
  /\ \/ UNCHANGED <<disk, now, log>>
     \/ Step.k = "fat" /\ FatWrite
  /\ UNCHANGED <<dev, hint, icache, open, seen, doubt, crashes, ops>>

Return ==
  /\ job # Idle /\ job.steps = <<>>
  /\ job' = Idle /\ seen' = Look(now, icache)
  /\ doubt' = IF job.ok THEN [doubt EXCEPT ![job.name[1]] = {job.to}] ELSE doubt
  /\ UNCHANGED <<dev, disk, now, log, hint, icache, open, errors, crashes, ops>>

(* Power is lost and the volume is mounted again.                          *)
Crash ==
  /\ errors + crashes < MaxFaults /\ crashes' = crashes + 1
  /\ \E img \in Images(disk, log) :
       /\ now' = img /\ disk' = img
       /\ seen' = Look(img, NoCache)
       /\ doubt' = [n \in Names |-> {SeenIn(img, NoCache, n)}]
  /\ log' = <<>> /\ hint' = 2
  /\ icache' = NoCache /\ open' = {} /\ job' = Idle
  /\ UNCHANGED <<dev, errors, ops>>

-----------------------------------------------------------------------------
(* A volume as earlier boots may have left it: each file that has bytes in *)
(* a cluster of its own after the root, the files in v.long with one more  *)
(* linked behind it (a write that extended them was cut short by a loss of *)
(* power), and everything that is not a file's full of old bytes.          *)
FileSeq == SetToSeq(FileNames)
Home(v, n) ==
  IF v.size[n] <= 0 THEN 0
  ELSE Root + CHOOSE k \in DOMAIN FileSeq : FileSeq[k] = n
Tail2(n) == Root + Len(FileSeq) + CHOOSE k \in DOMAIN FileSeq : FileSeq[k] = n
Formatted(d, v) ==
  LET present == Taken(FileSeq, {n \in FileNames : v.size[n] >= 0})
      entry(n) == Unit("file", n, Home(v, n), v.size[n])
      homes    == {<<Home(v, n), n>> : n \in FileNames}
      units(c) ==
        [j \in 1..UNITS |->
           IF c = Root THEN IF j <= Len(present) THEN entry(present[j]) ELSE Zero
           ELSE IF \E h \in homes : h[1] = c /\ j <= v.size[h[2]]
           THEN Byte((CHOOSE h \in homes : h[1] = c)[2], 0) ELSE Stale]
      table == [c \in Clus |->
                  IF \E n \in v.long : Home(v, n) = c
                  THEN Tail2(CHOOSE n \in v.long : Home(v, n) = c)
                  ELSE IF \/ c = Root \/ (\E h \in homes : h[1] = c)
                          \/ (\E n \in v.long : Tail2(n) = c) THEN EOC
                  ELSE FREE]
  IN [s \in Clus \cup FatSectors(d) |->
        IF s \in Clus THEN units(s)
        ELSE [c \in {x \in Clus : d.fatsec[x] = s} |-> table[c]]]

Init ==
  /\ dev \in Devices
  /\ \E v \in Volumes : disk = Formatted(dev, v)
  /\ now = disk /\ log = <<>> /\ hint = 2
  /\ icache = NoCache /\ open = {} /\ job = Idle
  /\ errors = 0 /\ crashes = 0 /\ ops = 0
  /\ seen = Look(now, icache)
  /\ doubt = [n \in Names |-> {seen[n]}]

Next ==
  \/ \E n \in Names : Create(n) \/ Mkdir(n) \/ Unlink(n) \/ Open(n)
  \/ \E n \in FileNames, w \in Writes : Write(n, w[1], w[2])
  \/ \E n \in FileNames, size \in Sizes : Truncate(n, size)
  \/ \E i \in Slots : Close(i) \/ Trim(i) \/ Read(i)
  \/ DoData \/ DoFat \/ DoBarrier \/ DoCore \/ DoRefuse \/ IoError
  \/ Return \/ Crash

Spec == Init /\ [][Next]_vars

-----------------------------------------------------------------------------
(* What the file system does is what Files promises: an operation that     *)
(* returned success has done all of what was asked and a later crash does  *)
(* not undo it; one that failed, or that a power loss cut short, leaves    *)
(* its own file at its old size (each byte old or new) or wholly new,      *)
(* never with old bytes of another file in its tail; and no other file is  *)
(* touched by any of it (fat.h, "what survives an unclean shutdown").      *)
FilesPromise == P!Spec

(* The clusters each live entry has a claim on, and the root's: by its     *)
(* record on the disk, and at rest by its in-core inode too.               *)
Claims ==
  LET fat  == Fat
      recs == Dir
      by(first) == Range(Chain(fat, first))
  IN {<<0, by(Root)>>} \cup
     {<<i, by(recs[i].first) \cup
           (IF job = Idle /\ icache[i] # NoInode THEN by(icache[i].first)
            ELSE {})>> : i \in {x \in Visible(recs) : IsEntry(recs[x])}}

(* No cluster is in the chains of two names, or of a name and of the       *)
(* directory, after any sequence of operations, errors and power losses.   *)
NoSharedClusters ==
  \A a, b \in Claims : a[1] # b[1] => a[2] \cap b[2] = {}

(* And no live entry points into free space that a later allocation would  *)
(* hand to a different file: the order in which unlink and truncate take   *)
(* their steps keeps it so through every error and power loss.             *)
ChainsSound ==
  /\ NoSharedClusters
  /\ \A a \in Claims : \A c \in a[2] : Fat[c] # FREE

(* Without an error, a refusal or a power loss no cluster leaks: whatever  *)
(* is marked in use is in the chain of a live name or of the directory     *)
(* (beyond those the volume was mounted with).                             *)
NoLeak ==
  (job = Idle /\ errors = 0 /\ crashes = 0) =>
    {c \in Clus : Fat[c] # FREE} = UNION {a[2] : a \in Claims}
=============================================================================
