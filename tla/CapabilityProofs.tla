-------------------------- MODULE CapabilityProofs --------------------------
(***************************************************************************)
(* What is proved of Capability, for every set of names and texts, every   *)
(* size of the registry, and any number of saves, reverts, deletes, failed *)
(* writes, losses of power and damaged records.                            *)
(***************************************************************************)
EXTENDS Capability, LoopLemmas, FiniteSetTheorems

(* What a file of the store may hold.                                      *)
None     == F!None
Empty    == F!File(<<>>)
Whole(r) == F!File(<<r>>)
Held1    == Records \cup {Rotten}
Cs       == {None, Empty} \cup {Whole(r) : r \in Held1}

(* The operations on files that a job is made of.                          *)
Clear(p)    == Put(p, <<>>)
Write(p, r) == Put(p, <<r>>)
Unlink(p)   == [path |-> p, to |-> None]

Versions == Records \cup {Nowhere}
Entries  == [rec : Versions, from_backup : BOOLEAN]
Steps    == [path : Paths, to : Cs]
Jobs     == [op : {"none", "save", "delete"}, name : Caps \cup {"-"},
             todo : Seq(Steps), rec : Versions]

TypeInv ==
  /\ file \in [Paths -> Cs] /\ doubt \in [Paths -> SUBSET Cs]
  /\ reg \in [Caps -> Entries] /\ prog \in Versions /\ job \in Jobs
  /\ may \in [Caps -> SUBSET Versions]
  /\ hurt \subseteq Caps

(* A file is one of the things it may turn out to be, and a record lies in *)
(* the files of its name.                                                  *)
FilesInv ==
  \A p \in Paths :
    /\ IsFiniteSet(doubt[p]) /\ file[p] \in doubt[p]
    /\ \A c \in doubt[p] : Parsed(c) # Nowhere => Parsed(c).name = p[1]

(* A slot in use holds a version of its name, and there are not too many.  *)
RegInv ==
  /\ \A n \in Known : reg[n].rec \in Records /\ reg[n].rec.name = n
  /\ Cardinality(Known) <= CAP_MAX

(* A version on the disk with the registered number is the registered one, *)
(* in the record file and in the file the entry was read from.             *)
Same(n, p) ==
  \A c \in doubt[p] : Parsed(c).ver = reg[n].rec.ver => Parsed(c) = reg[n].rec
SourceInv ==
  \A n \in Known : Same(n, CapFile(n)) /\ (reg[n].from_backup => Same(n, BakFile(n)))

CallInv ==
  \A n \in Known : prog.name = n /\ prog.ver = reg[n].rec.ver => prog = reg[n].rec

(* The operation in progress is the first of the job.                      *)
BusyInv ==
  \/ busy = F!NoOp
  \/ /\ job.todo # <<>> /\ busy = [name |-> <<Op.path>>, to |-> Op.to]
     /\ Op.to \in doubt[Op.path]

(* How far a save has come, and what that says of the two files of its     *)
(* name if nothing went wrong with them before.                            *)
Copying(n, r, x) ==
  job.todo \in {<<Clear(BakFile(n)), Write(BakFile(n), x), Clear(CapFile(n)), Write(CapFile(n), r)>>,
                <<Write(BakFile(n), x), Clear(CapFile(n)), Write(CapFile(n), r)>>}
SaveStage(n, r) ==
  \/ \E x \in Held1 :
       /\ Copying(n, r, x) /\ file[CapFile(n)] = Whole(x)
       /\ n \notin hurt => x = reg[n].rec
  \/ /\ job.todo = <<Clear(CapFile(n)), Write(CapFile(n), r)>>
     /\ n \notin hurt =>
          \/ file[CapFile(n)] = Whole(reg[n].rec) /\ file[BakFile(n)] = Whole(reg[n].rec)
          \/ /\ file[CapFile(n)] = None /\ Parsed(file[BakFile(n)]) = Nowhere
             /\ reg[n].rec = Nowhere
  \/ /\ job.todo = <<Write(CapFile(n), r)>>
     /\ n \notin hurt =>
          file[CapFile(n)] = Empty /\ Parsed(file[BakFile(n)]) = reg[n].rec
  \/ job.todo = <<>> /\ doubt[CapFile(n)] = {Whole(r)}

SaveInv(n, r) ==
  /\ n \in Caps /\ r \in Records /\ r.name = n /\ r.ver = reg[n].rec.ver + 1
  /\ HasSlot(n) /\ StepResolves(n, r) /\ KeepsCallers(n, r)
  /\ r \in may[n]
  /\ SaveStage(n, r)

(* How far a delete has come.                                              *)
DeleteStage(n) ==
  \/ /\ job.todo = <<Unlink(CapFile(n)), Unlink(BakFile(n))>>
     /\ n \notin hurt => reg[n].rec = LoadOne(file, n).rec
  \/ /\ job.todo = <<Unlink(CapFile(n))>>
     /\ n \notin hurt => reg[n].rec = LoadOne(file, n).rec /\ file[BakFile(n)] = None
  \/ /\ job.todo = <<Unlink(BakFile(n))>>
     /\ n \notin hurt => file[CapFile(n)] = None
  \/ /\ job.todo = <<>>
     /\ n \notin hurt => file[CapFile(n)] = None /\ file[BakFile(n)] = None

DeleteInv(n) ==
  /\ n \in Known /\ Nowhere \in may[n]
  /\ \A c \in Known \ {n} : reg[c].rec.call # n
  /\ DeleteStage(n)

JobInv ==
  \/ job = Resting
  \/ job.op = "save" /\ SaveInv(job.name, job.rec)
  \/ job.op = "delete" /\ job.rec = Nowhere /\ DeleteInv(job.name)

(* A file of a name that nothing has gone wrong with holds what it is      *)
(* found to hold, or what the operation in progress will leave in it.      *)
Settled(p) == doubt[p] = IF busy.name = <<p>> THEN {file[p], busy.to} ELSE {file[p]}

(* What is registered is what a boot would read; no backup lies alone.     *)
Agrees(n) ==
  /\ reg[n].rec = LoadOne(file, n).rec
  /\ file[CapFile(n)] = None => Parsed(file[BakFile(n)]) = Nowhere

SoundInv ==
  \A n \in Caps \ hurt :
    /\ Settled(CapFile(n)) /\ Settled(BakFile(n))
    /\ file[CapFile(n)] # Whole(Rotten)
    /\ reg[n].rec \in may[n]
    /\ n # job.name => Agrees(n)

(* No composition that nothing has gone wrong with calls into the void.    *)
LinkInv == \A n \in Caps \ hurt : ~Dead(reg, n)

IInv == TypeInv /\ FilesInv /\ RegInv /\ SourceInv /\ CallInv /\ BusyInv /\ JobInv
        /\ SoundInv /\ LinkInv

-----------------------------------------------------------------------------
(* Records, files and what is read from them.                              *)

(* A record of the store has the fields of a version and is neither        *)
(* damaged nor missing; reverting to it saves one of the texts.            *)
LEMMA RecordFacts ==
  /\ \A r \in Records :
       /\ r \in [name : Caps, ver : 1..VERSIONS, arity : Nat, call : Caps \cup {"-"}, narg : Nat]
       /\ r # Nowhere /\ r # Rotten /\ TextOf(r) \in Texts
  /\ Nowhere.ver = 0 /\ Nowhere.call = "-" /\ Nowhere # Rotten
<1>1. \A t \in Texts : t \in [arity : Nat, call : Caps \cup {"-"}, narg : Nat]
  BY CapabilityAssumption
<1>2. Nowhere.ver = 0 /\ Nowhere.call = "-" /\ Nowhere.name = "-" /\ Rotten.ver = 0 /\ Rotten.name = "rotten"
  BY DEF Nowhere, Rotten
<1>3. ASSUME NEW r \in Records
      PROVE  /\ r \in [name : Caps, ver : 1..VERSIONS, arity : Nat, call : Caps \cup {"-"}, narg : Nat]
             /\ TextOf(r) \in Texts
  <2>1. PICK n \in Caps, t \in Texts, v \in 1..VERSIONS : r = Version(n, t, v)
    BY DEF Records
  <2>2. TextOf(r) = t
    BY <1>1, <2>1 DEF Version, TextOf
  <2> QED BY <1>1, <2>1, <2>2 DEF Version
<1>4. ASSUME NEW r \in Records PROVE r.ver # 0
  BY <1>3, CapabilityAssumption
<1> QED BY <1>2, <1>3, <1>4

(* What a save makes of a text.                                            *)
LEMMA VersionIs ==
  ASSUME NEW n \in Caps, NEW t \in Texts, NEW v \in 1..VERSIONS
  PROVE  /\ Version(n, t, v) \in Records
         /\ Version(n, t, v).name = n /\ Version(n, t, v).ver = v
         /\ Version(n, t, v).arity = t.arity /\ Version(n, t, v).call = t.call
         /\ Version(n, t, v).narg = t.narg
BY DEF Version, Records

(* The two files of a name.                                                *)
LEMMA PathFacts ==
  /\ \A n \in Caps : CapFile(n) \in Paths /\ BakFile(n) \in Paths
  /\ \A n, m : CapFile(n) # BakFile(m)
  /\ \A n, m : CapFile(n) = CapFile(m) => n = m
  /\ \A n, m : BakFile(n) = BakFile(m) => n = m
  /\ \A n : CapFile(n)[1] = n /\ BakFile(n)[1] = n
  /\ \A p \in Paths : p[1] \in Caps /\ (p = CapFile(p[1]) \/ p = BakFile(p[1]))
BY DEF Paths, CapFile, BakFile

(* record_parse takes a whole record for what it is and nothing else.      *)
LEMMA ContentFacts ==
  /\ None \in Cs /\ Empty \in Cs /\ None # Empty
  /\ \A r \in Held1 : Whole(r) \in Cs
  /\ \A r : Whole(r) # None /\ Whole(r) # Empty
  /\ \A r, s : Whole(r) = Whole(s) => r = s
  /\ Parsed(None) = Nowhere /\ Parsed(Empty) = Nowhere /\ Parsed(Whole(Rotten)) = Nowhere
  /\ \A r \in Records : Parsed(Whole(r)) = r
  /\ \A c \in Cs : \/ c = None \/ c = Empty \/ c = Whole(Rotten)
                   \/ \E r \in Records : c = Whole(r)
<1>1. \A r : <<r>> # <<>> /\ <<r>>[1] = r
  OBVIOUS
<1>2. \A r : Whole(r).is = "file" /\ Whole(r).data = <<r>>
  BY DEF Whole, F!File
<1>3. None.is = "none" /\ None.data = <<>> /\ Empty.is = "file" /\ Empty.data = <<>>
  BY DEF None, Empty, F!None, F!File
<1>4. \A r : Whole(r) # None /\ Whole(r) # Empty
  BY <1>1, <1>2, <1>3
<1>5. \A r, s : Whole(r) = Whole(s) => r = s
  <2> SUFFICES ASSUME NEW r, NEW s, Whole(r) = Whole(s) PROVE r = s
    OBVIOUS
  <2>1. <<r>> = <<s>>
    BY <1>2
  <2> QED BY <2>1, <1>1
<1>6. /\ Parsed(None) = Nowhere /\ Parsed(Empty) = Nowhere /\ Parsed(Whole(Rotten)) = Nowhere
  BY <1>2, <1>3 DEF Parsed
<1>7. ASSUME NEW r \in Records PROVE Parsed(Whole(r)) = r
  <2>1. r # Rotten
    BY RecordFacts
  <2>2. <<r>> # <<Rotten>>
    BY <2>1, <1>1
  <2> QED BY <1>1, <1>2, <2>2 DEF Parsed
<1>8. None # Empty
  BY <1>3
<1> QED BY <1>4, <1>5, <1>6, <1>7, <1>8 DEF Cs, Held1

(* What is parsed is a version or nothing.                                 *)
LEMMA ParsedIs ==
  ASSUME NEW c \in Cs
  PROVE  /\ Parsed(c) \in Versions
         /\ Parsed(c) # Nowhere => Parsed(c) \in Records /\ c = Whole(Parsed(c))
         /\ \A r \in Records : c = Whole(r) => Parsed(c) = r
<1>1. CASE c \in {None, Empty, Whole(Rotten)}
  BY <1>1, ContentFacts, RecordFacts DEF Versions
<1>2. CASE \E r \in Records : c = Whole(r)
  BY <1>2, ContentFacts, RecordFacts DEF Versions
<1> QED BY <1>1, <1>2, ContentFacts

(* The data of a file tells one with nothing in it.                        *)
LEMMA DataIs ==
  ASSUME NEW c \in Cs
  PROVE  /\ c.data = <<>> <=> c \in {None, Empty}
         /\ c.data # <<>> => \E x \in Held1 : c = Whole(x) /\ c.data = <<x>>
<1>1. \A r : Whole(r).data = <<r>> /\ <<r>> # <<>>
  BY DEF Whole, F!File
<1>2. None.data = <<>> /\ Empty.data = <<>>
  BY DEF None, Empty, F!None, F!File
<1> QED BY <1>1, <1>2 DEF Cs

(* load_one: the record file if it can be read, else the backup.           *)
LEMMA LoadOneIs ==
  ASSUME NEW f, NEW n, f[CapFile(n)] \in Cs, f[BakFile(n)] \in Cs
  PROVE  /\ LoadOne(f, n) \in Entries
         /\ f[CapFile(n)] = None => LoadOne(f, n) = Absent
         /\ \A r \in Records : f[CapFile(n)] = Whole(r) =>
              LoadOne(f, n) = [rec |-> r, from_backup |-> FALSE]
         /\ f[CapFile(n)] # None /\ Parsed(f[CapFile(n)]) = Nowhere =>
              /\ LoadOne(f, n).rec = Parsed(f[BakFile(n)])
              /\ LoadOne(f, n) # Absent => LoadOne(f, n).from_backup
         /\ LoadOne(f, n) # Absent => LoadOne(f, n).rec \in Records
         /\ LoadOne(f, n).rec = Nowhere => LoadOne(f, n) = Absent
<1> DEFINE c == f[CapFile(n)]
           b == f[BakFile(n)]
           e == LoadOne(f, n)
<1>1. e = IF c = None THEN Absent
          ELSE IF Parsed(c) # Nowhere THEN [rec |-> Parsed(c), from_backup |-> FALSE]
          ELSE IF Parsed(b) # Nowhere THEN [rec |-> Parsed(b), from_backup |-> TRUE]
          ELSE Absent
  BY DEF LoadOne, None
<1>2. c \in Cs /\ b \in Cs
  OBVIOUS
<1> HIDE DEF c, b, e
<1>3. /\ c = None => Parsed(c) = Nowhere
      /\ \A r \in Records : c = Whole(r) => Parsed(c) = r /\ c # None
      /\ Parsed(c) # Nowhere => Parsed(c) \in Records
      /\ Parsed(b) # Nowhere => Parsed(b) \in Records
      /\ \A r \in Records : r # Nowhere
  BY <1>2, ParsedIs, ContentFacts, RecordFacts
<1>4. /\ c = None => e = Absent
      /\ Parsed(c) # Nowhere => e = [rec |-> Parsed(c), from_backup |-> FALSE]
      /\ c # None /\ Parsed(c) = Nowhere /\ Parsed(b) # Nowhere => e = [rec |-> Parsed(b), from_backup |-> TRUE]
      /\ c # None /\ Parsed(c) = Nowhere /\ Parsed(b) = Nowhere => e = Absent
  BY <1>1, <1>3
<1>5. Absent.rec = Nowhere /\ Absent.from_backup = FALSE /\ Absent \in Entries
  BY DEF Absent, Entries, Versions
<1>6. \A r \in Records, x \in BOOLEAN :
        /\ [rec |-> r, from_backup |-> x] \in Entries
        /\ [rec |-> r, from_backup |-> x].rec = r
        /\ [rec |-> r, from_backup |-> x].from_backup = x
        /\ [rec |-> r, from_backup |-> x] # Absent
  BY <1>3, <1>5 DEF Entries, Versions
<1>7. CASE c = None
  BY <1>3, <1>4, <1>5, <1>7 DEF e, c
<1>8. CASE Parsed(c) # Nowhere
  BY <1>3, <1>4, <1>5, <1>6, <1>8 DEF e, c
<1>9. CASE c # None /\ Parsed(c) = Nowhere
  <2>1. e \in Entries /\ e.rec = Parsed(b) /\ (e # Absent => e.from_backup /\ e.rec \in Records)
        /\ (e.rec = Nowhere => e = Absent)
    BY <1>3, <1>4, <1>5, <1>6, <1>9
  <2> QED BY <1>3, <1>9, <2>1 DEF e, c, b
<1> QED BY <1>7, <1>8, <1>9

(* The file system's promise for files of at most one unit: a step cut     *)
(* short leaves the old or the new contents.                               *)
LEMMA MixIs ==
  ASSUME NEW was \in Cs, NEW to \in Cs
  PROVE  F!Mix(was, to) = {was, to}
<1> DEFINE Cut(new) == [p \in DOMAIN was.data |-> IF p \in new THEN to.data[p] ELSE was.data[p]]
           Half == {F!File(Cut(new)) : new \in SUBSET (DOMAIN was.data \cap DOMAIN to.data)}
<1>1. F!Mix(was, to) = {to} \cup (IF was.is = "file" /\ to.is = "file" THEN Half ELSE {was})
  BY DEF F!Mix
<1>2. CASE ~(was.is = "file" /\ to.is = "file")
  BY <1>1, <1>2
<1>3. CASE was.is = "file" /\ to.is = "file"
  <2>1. \A c \in Cs : c.is = "file" => c = Empty \/ \E r \in Held1 : c = Whole(r)
    BY DEF Cs, None, F!None
  <2>2. CASE was = Empty
    <3>1. was.data = <<>> /\ DOMAIN was.data = {}
      BY <2>2 DEF Empty, F!File
    <3>2. ASSUME NEW new PROVE F!File(Cut(new)) = was
      <4>1. Cut(new) = <<>>
        BY <3>1
      <4> QED BY <4>1, <2>2 DEF Empty, F!File
    <3>a. {} \in SUBSET (DOMAIN was.data \cap DOMAIN to.data)
      OBVIOUS
    <3> HIDE DEF Cut
    <3>3. Half = {was}
      <4>1. Half \subseteq {was}
        BY <3>2, Zenon
      <4>2. F!File(Cut({})) \in Half
        BY <3>a, Zenon
      <4> QED BY <4>1, <4>2
    <3> QED BY <1>1, <1>3, <3>3
  <2>3. ASSUME NEW r \in Held1, was = Whole(r) PROVE F!Mix(was, to) = {was, to}
    <3>1. was.data = <<r>> /\ DOMAIN was.data = {1} /\ was.data[1] = r
      BY <2>3 DEF Whole, F!File
    <3>2. ASSUME NEW new, new \in SUBSET (DOMAIN was.data \cap DOMAIN to.data), 1 \notin new
          PROVE  F!File(Cut(new)) = was
      <4>1. Cut(new) = [p \in {1} |-> was.data[p]]
        BY <3>1, <3>2
      <4>2. Cut(new) = <<r>>
        BY <3>1, <4>1
      <4> QED BY <4>2, <2>3 DEF Whole, F!File
    <3>3. ASSUME NEW new, new \in SUBSET (DOMAIN was.data \cap DOMAIN to.data), 1 \in new
          PROVE  F!File(Cut(new)) = to
      <4>1. 1 \in DOMAIN to.data
        BY <3>3
      <4>2. to # Empty
        BY <4>1 DEF Empty, F!File
      <4>3. PICK s \in Held1 : to = Whole(s)
        BY <1>3, <2>1, <4>2
      <4>4. to.data = <<s>> /\ to.data[1] = s
        BY <4>3 DEF Whole, F!File
      <4>5. Cut(new) = [p \in {1} |-> to.data[p]]
        BY <3>1, <3>3
      <4>6. Cut(new) = <<s>>
        BY <4>4, <4>5
      <4> QED BY <4>6, <4>3 DEF Whole, F!File
    <3>4. {} \in SUBSET (DOMAIN was.data \cap DOMAIN to.data)
      OBVIOUS
    <3> HIDE DEF Cut
    <3>5. F!File(Cut({})) \in Half
      BY <3>4, Zenon
    <3>6. F!File(Cut({})) = was
      <4>1. 1 \notin {}
        OBVIOUS
      <4> QED BY <3>2, <3>4, <4>1, Zenon
    <3>7. Half \subseteq {was, to} /\ was \in Half
      BY <3>2, <3>3, <3>5, <3>6
    <3> QED BY <1>1, <1>3, <3>7
  <2> QED BY <1>3, <2>1, <2>2, <2>3
<1> QED BY <1>2, <1>3

(* The same for a file that may turn out to hold several things.           *)
LEMMA WidenIs ==
  ASSUME NEW S \in SUBSET Cs, S # {}, NEW to \in Cs
  PROVE  F!Widen(S, to) = S \cup {to}
<1>1. \A c \in S : F!Mix(c, to) = {c, to}
  BY MixIs
<1>2. F!Widen(S, to) = UNION {F!Mix(c, to) : c \in S}
  BY DEF F!Widen
<1> QED BY <1>1, <1>2

(* Lists of up to four operations, one after the other.                    *)
LEMMA ListFacts ==
  /\ \A a : Head(<<a>>) = a /\ Tail(<<a>>) = <<>> /\ <<a>> # <<>>
  /\ \A a, b : Head(<<a, b>>) = a /\ Tail(<<a, b>>) = <<b>> /\ <<a, b>> # <<>>
  /\ \A a, b, c : Head(<<a, b, c>>) = a /\ Tail(<<a, b, c>>) = <<b, c>> /\ <<a, b, c>> # <<>>
  /\ \A a, b, c, d : /\ Head(<<a, b, c, d>>) = a /\ Tail(<<a, b, c, d>>) = <<b, c, d>>
                     /\ <<a, b, c, d>> # <<>>
  /\ \A a : <<>> \o <<a>> = <<a>> /\ <<a>> \o <<>> = <<a>>
  /\ \A a, b : <<>> \o <<a, b>> = <<a, b>> /\ <<a>> \o <<b>> = <<a, b>>
  /\ \A a, b, c : <<a>> \o <<b, c>> = <<a, b, c>>
  /\ \A a, b, c, d : <<a, b>> \o <<c, d>> = <<a, b, c, d>>
  /\ <<>> \o <<>> = <<>>
<1>1. \A a : Head(<<a>>) = a /\ Tail(<<a>>) = <<>> /\ <<a>> # <<>>
  OBVIOUS
<1>2. \A a, b : Head(<<a, b>>) = a /\ Tail(<<a, b>>) = <<b>> /\ <<a, b>> # <<>>
  OBVIOUS
<1>3. \A a, b, c : Head(<<a, b, c>>) = a /\ Tail(<<a, b, c>>) = <<b, c>> /\ <<a, b, c>> # <<>>
  OBVIOUS
<1>4. \A a, b, c, d : Head(<<a, b, c, d>>) = a /\ <<a, b, c, d>> # <<>>
  OBVIOUS
<1>5. \A a, b, c, d : Tail(<<a, b, c, d>>) = <<b, c, d>>
  OBVIOUS
<1>6. \A a : <<>> \o <<a>> = <<a>> /\ <<a>> \o <<>> = <<a>>
  OBVIOUS
<1>7. ASSUME NEW a, NEW b PROVE <<>> \o <<a, b>> = <<a, b>> /\ <<a>> \o <<b>> = <<a, b>>
  <2> DEFINE S == {a, b}
             u == <<a>> \o <<b>>
  <2>1. <<a>> \in Seq(S) /\ <<b>> \in Seq(S) /\ <<a, b>> \in Seq(S) /\ <<>> \in Seq(S)
    OBVIOUS
  <2>2. u \in Seq(S) /\ Len(u) = 2 /\ u[1] = a /\ u[2] = b
    BY <2>1
  <2> HIDE DEF u
  <2>3. u = <<a, b>>
    BY <2>2
  <2>4. <<>> \o <<a, b>> = <<a, b>>
    BY <2>1
  <2> QED BY <2>3, <2>4 DEF u
<1>8. ASSUME NEW a, NEW b, NEW c PROVE <<a>> \o <<b, c>> = <<a, b, c>>
  <2> DEFINE S == {a, b, c}
             u == <<a>> \o <<b, c>>
  <2>1. <<a>> \in Seq(S) /\ <<b, c>> \in Seq(S)
    OBVIOUS
  <2>2. u \in Seq(S) /\ Len(u) = 3 /\ u[1] = a /\ u[2] = b /\ u[3] = c
    BY <2>1
  <2> HIDE DEF u
  <2>3. u = <<a, b, c>>
    BY <2>2
  <2> QED BY <2>3 DEF u
<1>9. ASSUME NEW a, NEW b, NEW c, NEW d PROVE <<a, b>> \o <<c, d>> = <<a, b, c, d>>
  <2> DEFINE S == {a, b, c, d}
             u == <<a, b>> \o <<c, d>>
  <2>1. <<a, b>> \in Seq(S) /\ <<c, d>> \in Seq(S)
    OBVIOUS
  <2>2. u \in Seq(S) /\ Len(u) = 4 /\ u[1] = a /\ u[2] = b /\ u[3] = c /\ u[4] = d
    BY <2>1
  <2> HIDE DEF u
  <2>3. u = <<a, b, c, d>>
    BY <2>2
  <2> QED BY <2>3 DEF u
<1>10. <<>> \o <<>> = <<>>
  OBVIOUS
<1> QED BY <1>1, <1>2, <1>3, <1>4, <1>5, <1>6, <1>7, <1>8, <1>9, <1>10

-----------------------------------------------------------------------------
(* The boot.                                                               *)

Registries == [Caps -> Entries]

(* Held names are few enough to be counted.                                *)
LEMMA HeldFinite ==
  ASSUME NEW R PROVE IsFiniteSet(Held(R)) /\ Cardinality(Held(R)) \in Nat
<1>1. Held(R) \in SUBSET Caps
  BY DEF Held
<1> QED BY <1>1, CapabilityAssumption, FS_Subset, FS_CardinalityType

(* The order of a directory: every name is somewhere in it.                *)
LEMMA OrderIs ==
  ASSUME NEW seq \in Orders
  PROVE  /\ Len(seq) \in Nat /\ \A k \in 1..Len(seq) : seq[k] \in Caps
         /\ \A n \in Caps : \E k \in 1..Len(seq) : seq[k] = n
<1>1. Cardinality(Caps) \in Nat
  BY CapabilityAssumption, FS_CardinalityType
<1>2. seq \in [1..Cardinality(Caps) -> Caps] /\ \A n \in Caps : \E i \in DOMAIN seq : seq[i] = n
  BY DEF Orders
<1>3. seq \in Seq(Caps)
  BY <1>1, <1>2
<1>4. Len(seq) = Cardinality(Caps)
  BY <1>1, <1>2, <1>3
<1> QED BY <1>1, <1>2, <1>4

(* One pass of the first loop of capability_init.                          *)
Taken(f, R, n) ==
  IF Cardinality(Held(R)) < CAP_MAX THEN [R EXCEPT ![n] = LoadOne(f, n)] ELSE R

(* The first loop registers what it reads until the slots run out, and     *)
(* everything it reads if there are slots enough.                          *)
LEMMA LoadIs ==
  ASSUME NEW f \in [Paths -> Cs], NEW seq \in Orders
  PROVE  /\ Load(f, seq) \in Registries
         /\ \A n \in Caps : Load(f, seq)[n] \in {Absent, LoadOne(f, n)}
         /\ Cardinality(Held(Load(f, seq))) <= CAP_MAX
         /\ Cardinality({n \in Caps : LoadOne(f, n) # Absent}) <= CAP_MAX =>
              \A n \in Caps : Load(f, seq)[n] = LoadOne(f, n)
<1> DEFINE N == Len(seq)
           e == [n \in Caps |-> Absent]
           G == [k \in 1..N |-> [R \in Registries |-> Taken(f, R, seq[k])]]
           D(g) == [k \in 0..N |-> IF k = 0 THEN e ELSE Taken(f, g[k - 1], seq[k])]
           L == {n \in Caps : LoadOne(f, n) # Absent}
           pass == CHOOSE g : g = D(g)
<1>1. N \in Nat /\ (\A k \in 1..N : seq[k] \in Caps) /\ \A n \in Caps : \E k \in 1..N : seq[k] = n
  BY OrderIs
<1> HIDE DEF N
<1>2. \A n \in Caps : LoadOne(f, n) \in Entries
  BY LoadOneIs, PathFacts
<1>3. Absent \in Entries /\ e \in Registries /\ \A n \in Caps : e[n] = Absent
  BY DEF Absent, Entries, Versions, Registries
<1> HIDE DEF e
<1>4. \A R \in Registries, n \in Caps : Taken(f, R, n) \in Registries
  BY <1>2 DEF Taken, Registries
<1>5. G \in [1..N -> [Registries -> Registries]]
  BY <1>1, <1>4
<1>6. \A k \in 1..N, R \in Registries : G[k][R] = Taken(f, R, seq[k])
  OBVIOUS
<1> HIDE DEF G
<1>7. PICK g \in [0..N -> Registries] : g[0] = e /\ \A i \in 1..N : g[i] = G[i][g[i - 1]]
  <2>1. e \in Registries
    BY <1>3
  <2> HIDE DEF D, L, pass
  <2> QED BY <1>1, <1>5, <2>1, WalkExists, SMTT(40)
<1>8. ASSUME NEW k \in 0..N PROVE g[k] = IF k = 0 THEN e ELSE Taken(f, g[k - 1], seq[k])
  <2>1. CASE k = 0
    BY <1>7, <2>1
  <2>2. CASE k # 0
    <3>1. k \in 1..N /\ k - 1 \in 0..N
      BY <1>1, <2>2
    <3>2. g[k - 1] \in Registries /\ g[k] = G[k][g[k - 1]]
      BY <1>7, <3>1
    <3> QED BY <2>2, <3>1, <3>2, <1>6
  <2> QED BY <2>1, <2>2
<1>9. g = D(g)
  <2>1. g = [k \in 0..N |-> g[k]]
    BY <1>7
  <2>2. \A k \in 0..N : D(g)[k] = IF k = 0 THEN e ELSE Taken(f, g[k - 1], seq[k])
    OBVIOUS
  <2>3. D(g) = [k \in 0..N |-> D(g)[k]]
    OBVIOUS
  <2> HIDE DEF D
  <2>4. \A k \in 0..N : g[k] = D(g)[k]
    BY <1>8, <2>2, Zenon
  <2> QED BY <2>1, <2>3, <2>4
<1>10. pass = D(pass)
  <2> HIDE DEF D
  <2> QED BY <1>9, Zenon
<1>11. Load(f, seq) = pass[N]
  BY DEF Load, Taken, N, e
<1> HIDE DEF pass
<1>12. pass[0] = e /\ \A k \in 1..N : pass[k] = Taken(f, pass[k - 1], seq[k])
  <2>1. \A k \in 0..N : D(pass)[k] = IF k = 0 THEN e ELSE Taken(f, pass[k - 1], seq[k])
    OBVIOUS
  <2> HIDE DEF D
  <2>2. \A k \in 0..N : pass[k] = IF k = 0 THEN e ELSE Taken(f, pass[k - 1], seq[k])
    BY <1>10, <2>1, Zenon
  <2> QED BY <1>1, <2>2
<1> DEFINE Good(R, k) ==
             /\ R \in Registries /\ \A n \in Caps : R[n] \in {Absent, LoadOne(f, n)}
             /\ Cardinality(Held(R)) <= CAP_MAX
             /\ Cardinality(L) <= CAP_MAX => \A i \in 1..k : R[seq[i]] = LoadOne(f, seq[i])
           T == {k \in 0..N : Good(pass[k], k)}
<1>13. 0 \in T
  <2>1. Held(e) = {}
    BY <1>3 DEF Held
  <2>2. Cardinality(Held(e)) <= CAP_MAX
    BY <2>1, FS_EmptySet, CapabilityAssumption
  <2>3. Good(e, 0)
    BY <1>3, <2>2
  <2> QED BY <1>1, <1>12, <2>3
<1>14. ASSUME NEW k \in 0..(N - 1), k \in T PROVE k + 1 \in T
  <2> DEFINE R == pass[k]
             m == seq[k + 1]
             Q == Taken(f, R, m)
  <2>1. k + 1 \in 1..N /\ k + 1 \in 0..N /\ (k + 1) - 1 = k /\ m \in Caps
    BY <1>1
  <2>2. pass[k + 1] = Q
    <3> DEFINE j == k + 1
    <3>1. j \in 1..N /\ j - 1 = k
      BY <2>1
    <3> HIDE DEF j
    <3>2. pass[j] = Taken(f, pass[j - 1], seq[j])
      BY <1>12, <3>1
    <3> QED BY <3>1, <3>2 DEF j
  <2>3. Good(R, k)
    BY <1>14
  <2> HIDE DEF R, m
  <2>4. Good(Q, k + 1)
    <3>1. CASE Cardinality(Held(R)) < CAP_MAX
      <4>1. Q = [R EXCEPT ![m] = LoadOne(f, m)]
        BY <3>1 DEF Taken
      <4>2. Q \in Registries /\ Q[m] = LoadOne(f, m) /\ \A n \in Caps \ {m} : Q[n] = R[n]
        BY <4>1, <1>2, <2>1, <2>3 DEF Registries
      <4> HIDE DEF Q
      <4>3. Held(Q) \in SUBSET (Held(R) \cup {m})
        BY <4>2 DEF Held
      <4>4. IsFiniteSet(Held(R)) /\ Cardinality(Held(R)) \in Nat /\ Cardinality(Held(Q)) \in Nat
        BY HeldFinite
      <4>5. IsFiniteSet(Held(R) \cup {m}) /\ Cardinality(Held(R) \cup {m}) <= Cardinality(Held(R)) + 1
        <5>1. /\ IsFiniteSet(Held(R) \cup {m})
              /\ Cardinality(Held(R) \cup {m}) =
                   IF m \in Held(R) THEN Cardinality(Held(R)) ELSE Cardinality(Held(R)) + 1
          BY <4>4, FS_AddElement, Zenon
        <5> QED BY <4>4, <5>1
      <4>a. Cardinality(Held(R) \cup {m}) \in Nat
        BY <4>5, FS_CardinalityType
      <4>6. Cardinality(Held(Q)) <= Cardinality(Held(R) \cup {m})
        BY <4>3, <4>5, FS_Subset
      <4>7. Cardinality(Held(Q)) <= CAP_MAX
        BY <3>1, <4>4, <4>5, <4>a, <4>6, CapabilityAssumption
      <4>8. \A n \in Caps : Q[n] \in {Absent, LoadOne(f, n)}
        BY <2>1, <2>3, <4>2
      <4>9. ASSUME Cardinality(L) <= CAP_MAX, NEW i \in 1..(k + 1) PROVE Q[seq[i]] = LoadOne(f, seq[i])
        <5>1. CASE seq[i] = m
          BY <4>2, <5>1
        <5>2. CASE seq[i] # m
          <6>1. i \in 1..k /\ i \in 1..N
            BY <1>1, <5>2 DEF m
          <6> QED BY <6>1, <5>2, <1>1, <2>3, <4>2, <4>9
        <5> QED BY <5>1, <5>2
      <4> QED BY <4>2, <4>7, <4>8, <4>9
    <3>2. CASE ~(Cardinality(Held(R)) < CAP_MAX)
      <4>1. Q = R
        BY <3>2 DEF Taken
      <4>2. ASSUME Cardinality(L) <= CAP_MAX PROVE R[m] = LoadOne(f, m)
        <5>1. Held(R) \in SUBSET L /\ L \in SUBSET Caps
          BY <2>3 DEF Held
        <5>2. IsFiniteSet(L)
          BY <5>1, CapabilityAssumption, FS_Subset
        <5>3. Cardinality(L) \in Nat /\ Cardinality(Held(R)) \in Nat
          BY <5>2, FS_CardinalityType, HeldFinite
        <5>4. Cardinality(Held(R)) <= Cardinality(L)
          BY <5>1, <5>2, FS_Subset
        <5>5. Cardinality(L) = Cardinality(Held(R))
          BY <3>2, <4>2, <5>3, <5>4, CapabilityAssumption
        <5>6. L = Held(R)
          BY <5>1, <5>2, <5>5, FS_Subset
        <5> QED BY <5>6, <2>1, <2>3 DEF Held
      <4>3. ASSUME Cardinality(L) <= CAP_MAX, NEW i \in 1..(k + 1) PROVE R[seq[i]] = LoadOne(f, seq[i])
        <5>1. CASE i = k + 1
          BY <4>2, <4>3, <5>1 DEF m
        <5>2. CASE i # k + 1
          <6>1. i \in 1..k
            BY <1>1, <5>2
          <6> QED BY <6>1, <2>3, <4>3
        <5> QED BY <5>1, <5>2
      <4> QED BY <4>1, <4>3, <2>3
    <3> QED BY <3>1, <3>2
  <2> QED BY <2>1, <2>2, <2>4
<1> HIDE DEF T
<1>15. \A k \in 0..N : k \in T
  BY <1>1, <1>13, <1>14, BoundedInduction
<1>16. Good(pass[N], N)
  <2>1. N \in T
    BY <1>1, <1>15
  <2> HIDE DEF Good
  <2> QED BY <2>1 DEF T
<1>17. Cardinality(L) <= CAP_MAX => \A n \in Caps : pass[N][n] = LoadOne(f, n)
  BY <1>1, <1>16
<1> QED BY <1>11, <1>16, <1>17

(* The second loop only takes entries out, and none if none is dead.       *)
LEMMA SweepIs ==
  ASSUME NEW R \in Registries, NEW seq \in Orders
  PROVE  /\ Sweep(R, seq) \in Registries
         /\ \A n \in Caps : Sweep(R, seq)[n] \in {Absent, R[n]}
         /\ (\A n \in Caps : ~Dead(R, n)) => Sweep(R, seq) = R
<1> DEFINE N == Len(seq)
           Swept(Q, n) == IF Dead(Q, n) THEN [Q EXCEPT ![n] = Absent] ELSE Q
           G == [k \in 1..N |-> [Q \in Registries |-> Swept(Q, seq[k])]]
           D(g) == [k \in 0..N |-> IF k = 0 THEN R ELSE Swept(g[k - 1], seq[k])]
           pass == CHOOSE g : g = D(g)
<1>1. N \in Nat /\ \A k \in 1..N : seq[k] \in Caps
  BY OrderIs
<1> HIDE DEF N
<1>3. Absent \in Entries
  BY DEF Absent, Entries, Versions
<1>4. \A Q \in Registries, n \in Caps : Swept(Q, n) \in Registries
  BY <1>3 DEF Registries
<1>a. Sweep(R, seq) = pass[N]
  BY DEF Sweep, N
<1>b. \A Q \in Registries, n \in Caps :
        /\ \A m \in Caps : Swept(Q, n)[m] \in {Absent, Q[m]}
        /\ ~Dead(Q, n) => Swept(Q, n) = Q
  BY DEF Registries
<1> HIDE DEF Swept
<1>5. G \in [1..N -> [Registries -> Registries]]
  BY <1>1, <1>4
<1>6. \A k \in 1..N, Q \in Registries : G[k][Q] = Swept(Q, seq[k])
  OBVIOUS
<1> HIDE DEF G
<1>7. PICK g \in [0..N -> Registries] : g[0] = R /\ \A i \in 1..N : g[i] = G[i][g[i - 1]]
  BY <1>1, <1>5, WalkExists
<1>8. ASSUME NEW k \in 0..N PROVE g[k] = IF k = 0 THEN R ELSE Swept(g[k - 1], seq[k])
  <2>1. CASE k = 0
    BY <1>7, <2>1
  <2>2. CASE k # 0
    <3>1. k \in 1..N /\ k - 1 \in 0..N
      BY <1>1, <2>2
    <3>2. g[k - 1] \in Registries /\ g[k] = G[k][g[k - 1]]
      BY <1>7, <3>1
    <3> QED BY <2>2, <3>1, <3>2, <1>6
  <2> QED BY <2>1, <2>2
<1>9. g = D(g)
  <2>1. g = [k \in 0..N |-> g[k]]
    BY <1>7
  <2>2. \A k \in 0..N : D(g)[k] = IF k = 0 THEN R ELSE Swept(g[k - 1], seq[k])
    OBVIOUS
  <2>3. D(g) = [k \in 0..N |-> D(g)[k]]
    OBVIOUS
  <2> HIDE DEF D
  <2>4. \A k \in 0..N : g[k] = D(g)[k]
    BY <1>8, <2>2, Zenon
  <2> QED BY <2>1, <2>3, <2>4
<1>10. pass = D(pass)
  <2> HIDE DEF D
  <2> QED BY <1>9, Zenon
<1> HIDE DEF pass
<1>12. pass[0] = R /\ \A k \in 1..N : pass[k] = Swept(pass[k - 1], seq[k])
  <2>1. \A k \in 0..N : D(pass)[k] = IF k = 0 THEN R ELSE Swept(pass[k - 1], seq[k])
    OBVIOUS
  <2> HIDE DEF D
  <2>2. \A k \in 0..N : pass[k] = IF k = 0 THEN R ELSE Swept(pass[k - 1], seq[k])
    BY <1>10, <2>1, Zenon
  <2> QED BY <1>1, <2>2
<1> DEFINE Good(Q) ==
             /\ Q \in Registries /\ \A n \in Caps : Q[n] \in {Absent, R[n]}
             /\ (\A n \in Caps : ~Dead(R, n)) => Q = R
           T == {k \in 0..N : Good(pass[k])}
<1>13. 0 \in T
  BY <1>1, <1>12
<1>14. ASSUME NEW k \in 0..(N - 1), k \in T PROVE k + 1 \in T
  <2>1. k + 1 \in 1..N /\ k + 1 \in 0..N /\ (k + 1) - 1 = k /\ seq[k + 1] \in Caps
    BY <1>1
  <2>2. pass[k + 1] = Swept(pass[k], seq[k + 1])
    <3> DEFINE j == k + 1
    <3>1. j \in 1..N /\ j - 1 = k
      BY <2>1
    <3> HIDE DEF j
    <3>2. pass[j] = Swept(pass[j - 1], seq[j])
      BY <1>12, <3>1
    <3> QED BY <3>1, <3>2 DEF j
  <2>3. Good(pass[k])
    BY <1>14
  <2>4. Good(Swept(pass[k], seq[k + 1]))
    <3> DEFINE Q == pass[k]
               m == seq[k + 1]
    <3>1. m \in Caps /\ Good(Q)
      BY <2>1, <2>3
    <3> HIDE DEF Q, m
    <3>2. Swept(Q, m) \in Registries /\ \A n \in Caps : Swept(Q, m)[n] \in {Absent, Q[n]}
      BY <3>1, <1>4, <1>b
    <3>3. (\A n \in Caps : ~Dead(R, n)) => Swept(Q, m) = R
      BY <3>1, <1>b
    <3>4. Good(Swept(Q, m))
      BY <3>1, <3>2, <3>3
    <3> QED BY <3>4 DEF Q, m
  <2> QED BY <2>1, <2>2, <2>4
<1> HIDE DEF T
<1>15. \A k \in 0..N : k \in T
  BY <1>1, <1>13, <1>14, BoundedInduction
<1>16. Good(pass[N])
  BY <1>1, <1>15 DEF T
<1> QED BY <1>16, <1>a

-----------------------------------------------------------------------------
(* One file operation of a job.                                            *)

(* The first operation of a job concerns a file of its name; it leaves     *)
(* nothing in it, the new record in the record file, or in the backup what *)
(* the record file holds.                                                  *)
LEMMA OpIs ==
  ASSUME TypeInv, JobInv, job.todo # <<>>
  PROVE  /\ job.name \in Caps /\ Op \in Steps
         /\ Op.path \in {CapFile(job.name), BakFile(job.name)}
         /\ \/ Op.to \in {None, Empty}
            \/ Op = Write(CapFile(job.name), job.rec) /\ job.op = "save" /\ job.rec \in Records
            \/ Op.path = BakFile(job.name) /\ Op.to = file[CapFile(job.name)]
<1> DEFINE n == job.name
           r == job.rec
<1>1. job.todo \in Seq(Steps)
  BY DEF TypeInv, Jobs
<1>2. Op \in Steps
  BY <1>1 DEF Op
<1>3. \A p, x : /\ Clear(p).path = p /\ Clear(p).to = Empty
                /\ Write(p, x).path = p /\ Write(p, x).to = Whole(x)
                /\ Unlink(p).path = p /\ Unlink(p).to = None
  BY DEF Clear, Write, Unlink, Put, Empty, Whole
<1>4. job # Resting
  BY DEF Resting
<1>5. CASE job.op = "save" /\ SaveInv(n, r)
  <2>1. n \in Caps /\ r \in Records /\ SaveStage(n, r)
    BY <1>5 DEF SaveInv
  <2>2. CASE \E x \in Held1 : Copying(n, r, x) /\ file[CapFile(n)] = Whole(x)
    BY <1>2, <1>3, <2>1, <2>2, ListFacts DEF Copying, Op
  <2>3. CASE job.todo = <<Clear(CapFile(n)), Write(CapFile(n), r)>>
    BY <1>2, <1>3, <2>1, <2>3, ListFacts DEF Op
  <2>4. CASE job.todo = <<Write(CapFile(n), r)>>
    BY <1>2, <1>3, <1>5, <2>1, <2>4, ListFacts DEF Op
  <2> QED BY <2>1, <2>2, <2>3, <2>4 DEF SaveStage
<1>6. CASE job.op = "delete" /\ DeleteInv(n)
  <2>1. n \in Caps /\ DeleteStage(n)
    BY <1>6 DEF DeleteInv, Known, Held
  <2>2. Op \in {Unlink(CapFile(n)), Unlink(BakFile(n))}
    BY <2>1, ListFacts DEF DeleteStage, Op
  <2> QED BY <1>2, <1>3, <2>1, <2>2
<1> QED BY <1>4, <1>5, <1>6 DEF JobInv

(* A version is registered under a number that is not 0.                   *)
LEMMA KnownIs ==
  ASSUME TypeInv, RegInv
  PROVE  /\ \A n \in Known : n \in Caps /\ reg[n].rec \in Records /\ reg[n].rec.name = n
                             /\ reg[n].rec.ver \in Nat \ {0} /\ reg[n].rec # Nowhere
         /\ \A n \in Caps \ Known : reg[n] = Absent /\ reg[n].rec = Nowhere
<1>1. \A n \in Known : n \in Caps /\ reg[n].rec \in Records /\ reg[n].rec.name = n
  BY DEF RegInv, Known, Held
<1>2. \A r \in Records : r.ver \in Nat \ {0} /\ r # Nowhere
  BY RecordFacts, CapabilityAssumption
<1>3. \A n \in Caps \ Known : reg[n] = Absent /\ reg[n].rec = Nowhere
  BY DEF Known, Held, Absent
<1> QED BY <1>1, <1>2, <1>3

(* What an operation adds to the contents that a file may turn out to have *)
(* is no other version under the registered number.                        *)
LEMMA OpToIs ==
  ASSUME TypeInv, FilesInv, RegInv, SourceInv, JobInv, job.todo # <<>>
  PROVE  /\ Parsed(Op.to) # Nowhere => Parsed(Op.to).name = Op.path[1]
         /\ job.name \in Known =>
              (Parsed(Op.to).ver = reg[job.name].rec.ver => Parsed(Op.to) = reg[job.name].rec)
<1> DEFINE n == job.name
<1>1. /\ n \in Caps /\ Op.path \in {CapFile(n), BakFile(n)} /\ Op.path[1] = n
  BY OpIs, PathFacts
<1>2. CASE Op.to \in {None, Empty}
  BY <1>2, ContentFacts, RecordFacts, KnownIs
<1>3. CASE Op = Write(CapFile(n), job.rec) /\ job.op = "save" /\ job.rec \in Records
  <2>1. Op.to = Whole(job.rec) /\ Parsed(Op.to) = job.rec
    BY <1>3, ContentFacts DEF Write, Put, Whole
  <2>2. job.rec.name = n /\ job.rec.ver = reg[n].rec.ver + 1
    BY <1>3 DEF JobInv, SaveInv, Resting
  <2>3. n \in Known => reg[n].rec.ver \in Nat
    BY KnownIs
  <2> QED BY <1>1, <2>1, <2>2, <2>3
<1>4. CASE Op.path = BakFile(n) /\ Op.to = file[CapFile(n)]
  <2>1. CapFile(n) \in Paths /\ CapFile(n)[1] = n
    BY <1>1, PathFacts
  <2>2. Op.to \in doubt[CapFile(n)]
    BY <1>4, <2>1 DEF FilesInv
  <2>3. Parsed(Op.to) # Nowhere => Parsed(Op.to).name = n
    BY <2>1, <2>2 DEF FilesInv
  <2>4. n \in Known =>
              (Parsed(Op.to).ver = reg[n].rec.ver => Parsed(Op.to) = reg[n].rec)
    BY <2>2 DEF SourceInv, Same
  <2> QED BY <1>1, <2>3, <2>4
<1> QED BY <1>2, <1>3, <1>4, OpIs

(* A step that adds to the outcomes of a file no more than what the first  *)
(* operation leaves in it keeps every record under its name and number.    *)
LEMMA FilesMoved ==
  ASSUME TypeInv, FilesInv, RegInv, SourceInv, JobInv, job.todo # <<>>, reg' = reg,
         \A p \in Paths : IsFiniteSet(doubt'[p]) /\ file'[p] \in doubt'[p],
         \A p \in Paths : doubt'[p] \subseteq doubt[p] \cup {Op.to},
         \A p \in Paths \ {Op.path} : doubt'[p] \subseteq doubt[p]
  PROVE  FilesInv' /\ SourceInv'
<1> DEFINE n == job.name
<1>1. /\ n \in Caps /\ Op.path \in {CapFile(n), BakFile(n)}
      /\ Parsed(Op.to) # Nowhere => Parsed(Op.to).name = Op.path[1]
      /\ n \in Known => (Parsed(Op.to).ver = reg[n].rec.ver => Parsed(Op.to) = reg[n].rec)
  BY OpIs, OpToIs
<1>2. FilesInv'
  BY <1>1 DEF FilesInv
<1>3. Known' = Known
  BY DEF Known, Held
<1>4. ASSUME NEW m \in Known, NEW p \in {CapFile(m), BakFile(m)}, Same(m, p)
      PROVE  Same(m, p)'
  <2>1. p \in Paths
    BY PathFacts DEF Known, Held
  <2>2. CASE p = Op.path
    <3>1. m = n
      BY <1>1, <2>2, PathFacts
    <3> QED BY <1>1, <1>4, <2>1, <3>1 DEF Same
  <2>3. CASE p # Op.path
    BY <1>4, <2>1, <2>3 DEF Same
  <2> QED BY <2>2, <2>3
<1>5. SourceInv'
  BY <1>3, <1>4 DEF SourceInv
<1> QED BY <1>2, <1>5

(* Operations only of the job's name: the others' files are as they were.  *)
LEMMA OthersApart ==
  ASSUME TypeInv, JobInv, job.todo # <<>>, NEW m \in Caps, m # job.name
  PROVE  CapFile(m) # Op.path /\ BakFile(m) # Op.path
BY OpIs, PathFacts

(* The operation is in progress for its own file only.                     *)
LEMMA BusyName == \A p, q : (<<p>> = <<q>> => p = q) /\ <<>> # <<p>>
<1>1. ASSUME NEW p, NEW q, <<p>> = <<q>> PROVE p = q
  <2>1. <<p>>[1] = <<q>>[1]
    BY <1>1
  <2> QED BY <2>1
<1> QED BY <1>1

(* A file operation begins.                                                *)
LEMMA IssueKeeps ==
  ASSUME IInv, Issue
  PROVE  IInv'
<1> DEFINE p0 == Op.path
<1>0. /\ TypeInv /\ FilesInv /\ RegInv /\ SourceInv /\ CallInv /\ JobInv
      /\ SoundInv /\ LinkInv
  BY DEF IInv
<1>1. /\ job.todo # <<>> /\ busy = F!NoOp /\ busy' = [name |-> <<Op.path>>, to |-> Op.to]
      /\ doubt' = [doubt EXCEPT ![Op.path] = F!Widen(@, busy'.to)]
      /\ file' = file
      /\ UNCHANGED <<reg, prog, job, may, hurt>>
  BY DEF Issue, F!Begin
<1>2. /\ job.name \in Caps /\ Op.path \in Paths /\ Op.to \in Cs
  BY <1>0, <1>1, OpIs DEF Steps
<1>3. doubt[Op.path] \in SUBSET Cs /\ doubt[Op.path] # {}
  BY <1>0, <1>2 DEF TypeInv, FilesInv
<1>4. F!Widen(doubt[Op.path], Op.to) = doubt[Op.path] \cup {Op.to}
  BY <1>2, <1>3, WidenIs
<1>5. /\ doubt' \in [Paths -> SUBSET Cs]
      /\ doubt'[Op.path] = doubt[Op.path] \cup {Op.to}
      /\ \A p \in Paths \ {Op.path} : doubt'[p] = doubt[p]
  BY <1>0, <1>1, <1>2, <1>3, <1>4 DEF TypeInv
<1>6. TypeInv'
  BY <1>0, <1>1, <1>5 DEF TypeInv
<1>7. FilesInv' /\ SourceInv'
  <2>1. \A p \in Paths : IsFiniteSet(doubt'[p]) /\ file'[p] \in doubt'[p]
    <3>1. IsFiniteSet(doubt[Op.path]) /\ IsFiniteSet(doubt[Op.path] \cup {Op.to})
      BY <1>0, <1>2, FS_AddElement DEF FilesInv
    <3> QED BY <1>0, <1>1, <1>2, <1>5, <3>1 DEF FilesInv
  <2> QED BY <1>0, <1>1, <1>5, <2>1, FilesMoved
<1>8. RegInv' /\ CallInv' /\ LinkInv'
  BY <1>0, <1>1 DEF RegInv, CallInv, LinkInv, Known
<1>9. BusyInv'
  BY <1>1, <1>2, <1>5 DEF BusyInv, Op
<1>10. JobInv'
  BY <1>0, <1>1 DEF JobInv, SaveInv, SaveStage, Copying, DeleteInv, DeleteStage,
                    HasSlot, StepResolves, KeepsCallers, BreaksCallers, Known
<1>11. SoundInv'
  <2> SUFFICES ASSUME NEW n \in Caps \ hurt
               PROVE  /\ Settled(CapFile(n))' /\ Settled(BakFile(n))'
                      /\ file[CapFile(n)] # Whole(Rotten) /\ reg[n].rec \in may[n]
                      /\ n # job.name => Agrees(n)
    BY <1>1 DEF SoundInv, Agrees
  <2>1. /\ Settled(CapFile(n)) /\ Settled(BakFile(n))
        /\ file[CapFile(n)] # Whole(Rotten) /\ reg[n].rec \in may[n]
        /\ n # job.name => Agrees(n)
    BY <1>0 DEF SoundInv
  <2>2. ASSUME NEW p \in Paths, Settled(p) PROVE Settled(p)'
    <3>1. doubt[p] = {file[p]}
      BY <1>1, <2>2, BusyName DEF Settled, F!NoOp
    <3>2. busy'.name = <<Op.path>> /\ busy'.to = Op.to
      BY <1>1
    <3>3. CASE p = Op.path
      BY <1>1, <1>5, <3>1, <3>2, <3>3 DEF Settled
    <3>4. CASE p # Op.path
      BY <1>1, <1>5, <3>1, <3>2, <3>4, BusyName DEF Settled
    <3> QED BY <3>3, <3>4
  <2> QED BY <2>1, <2>2, PathFacts
<1> QED BY <1>6, <1>7, <1>8, <1>9, <1>10, <1>11 DEF IInv

(* A file operation that has succeeded.                                    *)
LEMMA CompleteKeeps ==
  ASSUME IInv, Complete
  PROVE  IInv'
<1>0. /\ TypeInv /\ FilesInv /\ RegInv /\ SourceInv /\ CallInv /\ JobInv
      /\ SoundInv /\ LinkInv
  BY DEF IInv
<1>1. /\ job.todo # <<>> /\ busy = [name |-> <<Op.path>>, to |-> Op.to]
      /\ Op.to \in doubt[Op.path]
  BY DEF IInv, BusyInv, Complete
<1>2. /\ busy' = F!NoOp
      /\ file' = [file EXCEPT ![Op.path] = Op.to]
      /\ doubt' = [doubt EXCEPT ![Op.path] = {Op.to}]
      /\ job' = [job EXCEPT !.todo = Tail(@)]
      /\ UNCHANGED <<reg, prog, may, hurt>>
  BY <1>1 DEF Complete, F!Succeed
<1>3. /\ job.name \in Caps /\ Op.path \in Paths /\ Op.to \in Cs
  BY <1>0, <1>1, OpIs DEF Steps
<1>4. /\ file' \in [Paths -> Cs] /\ doubt' \in [Paths -> SUBSET Cs]
      /\ file'[Op.path] = Op.to /\ doubt'[Op.path] = {Op.to}
      /\ \A p \in Paths \ {Op.path} : file'[p] = file[p] /\ doubt'[p] = doubt[p]
  BY <1>0, <1>2, <1>3 DEF TypeInv
<1>5. /\ job' \in Jobs /\ job'.op = job.op /\ job'.name = job.name /\ job'.rec = job.rec
      /\ job'.todo = Tail(job.todo)
  <2>1. job \in Jobs /\ job.todo \in Seq(Steps) /\ Tail(job.todo) \in Seq(Steps)
    BY <1>0, <1>1 DEF TypeInv, Jobs
  <2> QED BY <1>2, <2>1 DEF Jobs
<1>6. TypeInv'
  BY <1>0, <1>2, <1>4, <1>5 DEF TypeInv
<1>7. FilesInv' /\ SourceInv'
  <2>1. IsFiniteSet({Op.to})
    BY FS_Singleton
  <2>2. \A p \in Paths : IsFiniteSet(doubt'[p]) /\ file'[p] \in doubt'[p]
    BY <1>0, <1>4, <2>1, ZenonT(60) DEF FilesInv
  <2> QED BY <1>0, <1>1, <1>2, <1>4, <2>2, FilesMoved
<1>8. RegInv' /\ CallInv' /\ LinkInv'
  BY <1>0, <1>2 DEF RegInv, CallInv, LinkInv, Known
<1>9. BusyInv'
  BY <1>2 DEF BusyInv
<1>a. \A p, x : /\ Clear(p).path = p /\ Clear(p).to = Empty
                /\ Write(p, x).path = p /\ Write(p, x).to = Whole(x)
                /\ Unlink(p).path = p /\ Unlink(p).to = None
  BY DEF Clear, Write, Unlink, Put, Empty, Whole
<1>10. JobInv'
  <2>0. PICK n, r : n = job.name /\ r = job.rec
    OBVIOUS
  <2>1. /\ n \in Caps /\ CapFile(n) \in Paths /\ BakFile(n) \in Paths /\ CapFile(n) # BakFile(n)
    BY <1>3, <2>0, PathFacts
  <2>2. CASE job.op = "save" /\ SaveInv(n, r)
    <3>1. SaveStage(n, r)
      BY <2>2 DEF SaveInv
    <3>2. ASSUME NEW x \in Held1, Copying(n, r, x), file[CapFile(n)] = Whole(x),
                 n \notin hurt => x = reg[n].rec
          PROVE  SaveStage(n, r)'
      <4>1. CASE job.todo = <<Clear(BakFile(n)), Write(BakFile(n), x), Clear(CapFile(n)), Write(CapFile(n), r)>>
        <5>1. Op.path = BakFile(n) /\ job'.todo = <<Write(BakFile(n), x), Clear(CapFile(n)), Write(CapFile(n), r)>>
          BY <4>1, <1>5, <1>a, ListFacts DEF Op
        <5>2. file'[CapFile(n)] = Whole(x)
          BY <1>4, <2>1, <3>2, <5>1
        <5>3. Copying(n, r, x)'
          BY <5>1 DEF Copying
        <5> QED BY <1>2, <3>2, <5>2, <5>3 DEF SaveStage
      <4>2. CASE job.todo = <<Write(BakFile(n), x), Clear(CapFile(n)), Write(CapFile(n), r)>>
        <5>1. /\ Op.path = BakFile(n) /\ Op.to = Whole(x)
              /\ job'.todo = <<Clear(CapFile(n)), Write(CapFile(n), r)>>
          BY <4>2, <1>5, <1>a, ListFacts DEF Op
        <5>2. file'[CapFile(n)] = Whole(x) /\ file'[BakFile(n)] = Whole(x)
          BY <1>4, <2>1, <3>2, <5>1
        <5> QED BY <1>2, <3>2, <5>1, <5>2 DEF SaveStage
      <4> QED BY <3>2, <4>1, <4>2 DEF Copying
    <3>3. ASSUME job.todo = <<Clear(CapFile(n)), Write(CapFile(n), r)>>,
                 n \notin hurt =>
                   \/ file[CapFile(n)] = Whole(reg[n].rec) /\ file[BakFile(n)] = Whole(reg[n].rec)
                   \/ /\ file[CapFile(n)] = None /\ Parsed(file[BakFile(n)]) = Nowhere
                      /\ reg[n].rec = Nowhere
          PROVE  SaveStage(n, r)'
      <4>1. Op.path = CapFile(n) /\ Op.to = Empty /\ job'.todo = <<Write(CapFile(n), r)>>
        BY <3>3, <1>5, <1>a, ListFacts DEF Op
      <4>2. file'[CapFile(n)] = Empty /\ file'[BakFile(n)] = file[BakFile(n)]
        BY <1>4, <2>1, <4>1
      <4>3. file[BakFile(n)] \in Cs /\ reg[n].rec \in Versions
        BY <1>0, <2>1 DEF TypeInv, Entries
      <4>4. ASSUME n \notin hurt PROVE Parsed(file[BakFile(n)]) = reg[n].rec
        <5>1. CASE file[BakFile(n)] = Whole(reg[n].rec)
          <6>1. reg[n].rec # Nowhere
            BY <4>3, <5>1, ContentFacts, RecordFacts
          <6> QED BY <4>3, <5>1, <6>1, ContentFacts DEF Versions
        <5> QED BY <3>3, <4>4, <5>1
      <4> QED BY <1>2, <4>1, <4>2, <4>4 DEF SaveStage
    <3>4. ASSUME job.todo = <<Write(CapFile(n), r)>>
          PROVE  SaveStage(n, r)'
      <4>1. Op.path = CapFile(n) /\ Op.to = Whole(r) /\ job'.todo = <<>>
        BY <3>4, <1>5, <1>a, ListFacts DEF Op
      <4>2. doubt'[CapFile(n)] = {Whole(r)}
        BY <1>4, <4>1
      <4> QED BY <4>1, <4>2 DEF SaveStage
    <3>5. SaveStage(n, r)'
      BY <1>1, <3>1, <3>2, <3>3, <3>4 DEF SaveStage
    <3>6. SaveInv(n, r)'
      BY <1>2, <1>5, <2>2, <3>5 DEF SaveInv, HasSlot, StepResolves, KeepsCallers, BreaksCallers, Known
    <3> QED BY <1>5, <2>0, <2>2, <3>6 DEF JobInv
  <2>3. CASE job.op = "delete" /\ r = Nowhere /\ DeleteInv(n)
    <3>1. DeleteStage(n)
      BY <2>3 DEF DeleteInv
    <3>2. ASSUME job.todo = <<Unlink(CapFile(n)), Unlink(BakFile(n))>> PROVE DeleteStage(n)'
      <4>1. Op.path = CapFile(n) /\ Op.to = None /\ job'.todo = <<Unlink(BakFile(n))>>
        BY <3>2, <1>5, <1>a, ListFacts DEF Op
      <4> QED BY <1>4, <4>1 DEF DeleteStage
    <3>3. ASSUME job.todo = <<Unlink(CapFile(n))>>, n \notin hurt => file[BakFile(n)] = None
          PROVE  DeleteStage(n)'
      <4>1. Op.path = CapFile(n) /\ Op.to = None /\ job'.todo = <<>>
        BY <3>3, <1>5, <1>a, ListFacts DEF Op
      <4> QED BY <1>2, <1>4, <2>1, <3>3, <4>1 DEF DeleteStage
    <3>4. ASSUME job.todo = <<Unlink(BakFile(n))>>, n \notin hurt => file[CapFile(n)] = None
          PROVE  DeleteStage(n)'
      <4>1. Op.path = BakFile(n) /\ Op.to = None /\ job'.todo = <<>>
        BY <3>4, <1>5, <1>a, ListFacts DEF Op
      <4> QED BY <1>2, <1>4, <2>1, <3>4, <4>1 DEF DeleteStage
    <3>5. DeleteStage(n)'
      BY <1>1, <3>1, <3>2, <3>3, <3>4 DEF DeleteStage
    <3>6. DeleteInv(n)'
      BY <1>2, <2>3, <3>5 DEF DeleteInv, Known
    <3> QED BY <1>5, <2>0, <2>3, <3>6 DEF JobInv
  <2>4. job # Resting
    BY <1>1 DEF Resting
  <2> QED BY <1>0, <2>0, <2>2, <2>3, <2>4 DEF JobInv
<1>11. SoundInv'
  <2> SUFFICES ASSUME NEW n \in Caps \ hurt
               PROVE  /\ Settled(CapFile(n))' /\ Settled(BakFile(n))'
                      /\ file'[CapFile(n)] # Whole(Rotten)
                      /\ n # job.name => Agrees(n)'
    BY <1>0, <1>2, <1>5 DEF SoundInv
  <2>1. /\ Settled(CapFile(n)) /\ Settled(BakFile(n))
        /\ file[CapFile(n)] # Whole(Rotten)
        /\ n # job.name => Agrees(n)
    BY <1>0 DEF SoundInv
  <2>a. CapFile(n) \in Paths /\ BakFile(n) \in Paths
    BY PathFacts
  <2>2. ASSUME NEW p \in Paths, Settled(p) PROVE Settled(p)'
    <3>1. busy'.name # <<p>>
      BY <1>2, BusyName DEF F!NoOp
    <3>2. CASE p = Op.path
      BY <1>4, <3>1, <3>2 DEF Settled
    <3>3. CASE p # Op.path
      <4>1. busy.name # <<p>>
        BY <1>1, <3>3, BusyName
      <4> QED BY <1>4, <2>2, <3>1, <3>3, <4>1 DEF Settled
    <3> QED BY <3>2, <3>3
  <2>3. file'[CapFile(n)] # Whole(Rotten)
    <3>1. CASE CapFile(n) # Op.path
      BY <1>4, <2>1, <2>a, <3>1
    <3>2. CASE CapFile(n) = Op.path
      <4>1. Op.path # BakFile(job.name)
        BY <3>2, PathFacts
      <4>2. \/ Op.to \in {None, Empty}
            \/ Op.to = Whole(job.rec) /\ job.rec \in Records
        BY <1>0, <1>1, <1>a, <4>1, OpIs
      <4> QED BY <1>4, <3>2, <4>2, ContentFacts, RecordFacts
    <3> QED BY <3>1, <3>2
  <2>4. ASSUME n # job.name PROVE Agrees(n)'
    <3>1. file'[CapFile(n)] = file[CapFile(n)] /\ file'[BakFile(n)] = file[BakFile(n)]
      BY <1>0, <1>1, <1>4, <2>4, <2>a, OthersApart
    <3>2. LoadOne(file', n) = LoadOne(file, n)
      BY <3>1 DEF LoadOne
    <3> QED BY <1>2, <2>1, <2>4, <3>1, <3>2 DEF Agrees
  <2> QED BY <2>1, <2>a, <2>2, <2>3, <2>4
<1> QED BY <1>6, <1>7, <1>8, <1>9, <1>10, <1>11 DEF IInv

(* A file operation that has failed: a save is given up, a delete goes on. *)
LEMMA OpFailsKeeps ==
  ASSUME IInv, OpFails
  PROVE  IInv'
<1>0. /\ TypeInv /\ FilesInv /\ RegInv /\ SourceInv /\ CallInv /\ JobInv
      /\ SoundInv /\ LinkInv
  BY DEF IInv
<1>1. /\ job.todo # <<>> /\ busy = [name |-> <<Op.path>>, to |-> Op.to]
  BY DEF IInv, BusyInv, OpFails, Failed
<1>2. /\ busy' = F!NoOp /\ doubt' = doubt
      /\ job' = IF job.op = "save" THEN Resting ELSE [job EXCEPT !.todo = Tail(@)]
      /\ hurt' = hurt \cup {job.name}
      /\ UNCHANGED <<reg, prog, may>>
  BY DEF OpFails, Failed, F!Fail
<1>3. PICK c \in doubt[Op.path] : file' = [file EXCEPT ![Op.path] = c]
  BY DEF OpFails, Failed, F!Fail
<1>4. /\ job.name \in Caps /\ Op.path \in Paths /\ c \in Cs
  BY <1>0, <1>1, OpIs DEF Steps, TypeInv
<1>5. /\ file' \in [Paths -> Cs] /\ file'[Op.path] = c
      /\ \A p \in Paths \ {Op.path} : file'[p] = file[p]
  BY <1>0, <1>3, <1>4 DEF TypeInv
<1>6. /\ job' \in Jobs
      /\ job.op = "save" => job' = Resting
      /\ job.op # "save" => /\ job'.op = job.op /\ job'.name = job.name /\ job'.rec = job.rec
                            /\ job'.todo = Tail(job.todo)
  <2>1. job \in Jobs /\ job.todo \in Seq(Steps) /\ Tail(job.todo) \in Seq(Steps)
    BY <1>0, <1>1 DEF TypeInv, Jobs
  <2>2. Resting \in Jobs
    BY DEF Resting, Jobs, Versions
  <2> QED BY <1>2, <2>1, <2>2 DEF Jobs
<1>7. TypeInv'
  BY <1>0, <1>2, <1>4, <1>5, <1>6 DEF TypeInv
<1>8. FilesInv' /\ SourceInv'
  <2>1. \A p \in Paths : IsFiniteSet(doubt'[p]) /\ file'[p] \in doubt'[p]
    BY <1>0, <1>2, <1>5 DEF FilesInv
  <2> QED BY <1>0, <1>1, <1>2, <2>1, FilesMoved
<1>9. RegInv' /\ CallInv' /\ LinkInv' /\ BusyInv'
  BY <1>0, <1>2 DEF RegInv, CallInv, LinkInv, Known, BusyInv
<1>10. JobInv'
  <2>0. PICK n : n = job.name
    OBVIOUS
  <2>1. CASE job.op = "save"
    BY <1>6, <2>1 DEF JobInv
  <2>2. CASE job.op # "save"
    <3>1. job # Resting
      BY <1>1 DEF Resting
    <3>2. job.op = "delete" /\ job.rec = Nowhere /\ DeleteInv(n)
      BY <1>0, <2>0, <2>2, <3>1 DEF JobInv
    <3>3. /\ n \in hurt'
          /\ job'.todo \in {<<Unlink(BakFile(n))>>, <<>>}
      <4>1. job.todo \in {<<Unlink(CapFile(n)), Unlink(BakFile(n))>>,
                           <<Unlink(CapFile(n))>>, <<Unlink(BakFile(n))>>}
        BY <1>1, <3>2 DEF DeleteInv, DeleteStage
      <4>2. Tail(job.todo) \in {<<Unlink(BakFile(n))>>, <<>>}
        <5>1. CASE job.todo = <<Unlink(CapFile(n)), Unlink(BakFile(n))>>
          BY <5>1, ListFacts
        <5>2. CASE job.todo = <<Unlink(CapFile(n))>>
          BY <5>2, ListFacts
        <5>3. CASE job.todo = <<Unlink(BakFile(n))>>
          BY <5>3, ListFacts
        <5> QED BY <4>1, <5>1, <5>2, <5>3
      <4> QED BY <1>2, <1>6, <2>0, <2>2, <4>2
    <3>4. DeleteInv(n)'
      BY <1>2, <3>2, <3>3 DEF DeleteInv, DeleteStage, Known
    <3> QED BY <1>6, <2>0, <2>2, <3>2, <3>4 DEF JobInv
  <2> QED BY <2>1, <2>2
<1>11. SoundInv'
  <2> SUFFICES ASSUME NEW n \in Caps \ hurt'
               PROVE  /\ Settled(CapFile(n))' /\ Settled(BakFile(n))'
                      /\ file'[CapFile(n)] # Whole(Rotten) /\ reg[n].rec \in may[n]
                      /\ Agrees(n)'
    BY <1>2 DEF SoundInv
  <2>1. n \in Caps \ hurt /\ n # job.name
    BY <1>2
  <2>2. /\ Settled(CapFile(n)) /\ Settled(BakFile(n))
        /\ file[CapFile(n)] # Whole(Rotten) /\ reg[n].rec \in may[n]
        /\ Agrees(n)
    BY <1>0, <2>1 DEF SoundInv
  <2>3. /\ CapFile(n) \in Paths \ {Op.path} /\ BakFile(n) \in Paths \ {Op.path}
    BY <1>0, <1>1, <2>1, OthersApart, PathFacts
  <2>4. ASSUME NEW p \in Paths \ {Op.path}, Settled(p) PROVE Settled(p)'
    <3>1. busy'.name # <<p>> /\ busy.name # <<p>>
      BY <1>1, <1>2, <2>4, BusyName DEF F!NoOp
    <3> QED BY <1>2, <1>5, <2>4, <3>1 DEF Settled
  <2>5. file'[CapFile(n)] = file[CapFile(n)] /\ file'[BakFile(n)] = file[BakFile(n)]
    BY <1>5, <2>3
  <2>6. LoadOne(file', n) = LoadOne(file, n)
    BY <2>5 DEF LoadOne
  <2> QED BY <1>2, <2>2, <2>3, <2>4, <2>5, <2>6 DEF Agrees
<1> QED BY <1>7, <1>8, <1>9, <1>10, <1>11 DEF IInv

(* A save given up between the backup and the record file: the backup is a *)
(* copy of the record, so both read as what is registered.                 *)
LEMMA RecordTooLongKeeps ==
  ASSUME IInv, RecordTooLong
  PROVE  IInv'
<1>0. /\ TypeInv /\ FilesInv /\ RegInv /\ SourceInv /\ CallInv /\ BusyInv /\ JobInv
      /\ SoundInv /\ LinkInv
  BY DEF IInv
<1>a. PICK n, r : n = job.name /\ r = job.rec
  OBVIOUS
<1>1. /\ job.op = "save" /\ busy = F!NoOp /\ job.todo # <<>> /\ Op = Clear(CapFile(n))
      /\ job' = Resting
      /\ UNCHANGED <<file, doubt, busy, reg, prog, may, hurt>>
  BY <1>a DEF RecordTooLong, Clear
<1>2. SaveInv(n, r)
  BY <1>0, <1>1, <1>a DEF JobInv, Resting
<1>3. /\ n \in Caps /\ CapFile(n) \in Paths /\ BakFile(n) \in Paths
      /\ file[CapFile(n)] \in Cs /\ file[BakFile(n)] \in Cs
  BY <1>0, <1>2, PathFacts DEF SaveInv, TypeInv
<1>4. ASSUME n \notin hurt PROVE Agrees(n)
  <2>1. \/ file[CapFile(n)] = Whole(reg[n].rec)
        \/ /\ file[CapFile(n)] = None /\ Parsed(file[BakFile(n)]) = Nowhere
           /\ reg[n].rec = Nowhere
    <3>1. ASSUME NEW x \in Held1 PROVE ~Copying(n, r, x)
      <4>1. Copying(n, r, x) => Op \in {Clear(BakFile(n)), Write(BakFile(n), x)}
        BY ListFacts DEF Copying, Op
      <4> QED BY <1>1, <4>1, PathFacts DEF Clear, Write, Put
    <3>2. job.todo # <<Write(CapFile(n), r)>>
      <4>1. job.todo = <<Write(CapFile(n), r)>> => Op = Write(CapFile(n), r)
        BY ListFacts DEF Op
      <4>2. Write(CapFile(n), r) # Clear(CapFile(n))
        BY <1>2, ContentFacts DEF Write, Clear, Put, Empty, Whole, SaveInv, Held1
      <4> QED BY <1>1, <4>1, <4>2
    <3> QED BY <1>1, <1>2, <1>4, <3>1, <3>2 DEF SaveInv, SaveStage
  <2>2. CASE file[CapFile(n)] = Whole(reg[n].rec)
    <3>1. file[CapFile(n)] # Whole(Rotten) /\ file[CapFile(n)] # None
      BY <1>0, <1>3, <1>4, <2>2, ContentFacts DEF SoundInv
    <3>2. reg[n].rec \in Records
      BY <1>0, <1>3, <2>2, <3>1, KnownIs, ContentFacts DEF Cs, Held1
    <3>3. LoadOne(file, n).rec = reg[n].rec
      BY <1>3, <2>2, <3>2, LoadOneIs
    <3> QED BY <3>1, <3>3 DEF Agrees
  <2>3. CASE /\ file[CapFile(n)] = None /\ Parsed(file[BakFile(n)]) = Nowhere
             /\ reg[n].rec = Nowhere
    BY <1>3, <2>3, LoadOneIs DEF Agrees, Absent
  <2> QED BY <2>1, <2>2, <2>3
<1>5. TypeInv'
  <2>1. Resting \in Jobs
    BY DEF Resting, Jobs, Versions
  <2> QED BY <1>0, <1>1, <2>1 DEF TypeInv
<1>6. FilesInv' /\ RegInv' /\ SourceInv' /\ CallInv' /\ BusyInv' /\ JobInv' /\ LinkInv'
  BY <1>0, <1>1 DEF FilesInv, RegInv, SourceInv, Same, CallInv, BusyInv, JobInv, LinkInv, Known
<1>7. SoundInv'
  BY <1>0, <1>1, <1>a, <1>4 DEF SoundInv, Settled, Agrees
<1> QED BY <1>5, <1>6, <1>7 DEF IInv

-----------------------------------------------------------------------------
(* Between jobs.                                                           *)

(* Running a program loads it, from the file its entry was read from.      *)
LEMMA CallKeeps ==
  ASSUME IInv, NEW n \in Caps, Call(n)
  PROVE  IInv'
<1>0. /\ TypeInv /\ FilesInv /\ RegInv /\ SourceInv /\ CallInv /\ BusyInv /\ JobInv
      /\ SoundInv /\ LinkInv
  BY DEF IInv
<1>1. n \in Known /\ prog' = Loaded(n) /\ UNCHANGED <<file, doubt, busy, reg, job, may, hurt>>
  BY DEF Call
<1> DEFINE p == IF reg[n].from_backup THEN BakFile(n) ELSE CapFile(n)
           s == Parsed(file[p])
<1>2. p \in Paths /\ file[p] \in Cs /\ file[p] \in doubt[p] /\ Same(n, p)
  BY <1>0, <1>1, PathFacts DEF TypeInv, FilesInv, SourceInv
<1>3. /\ s \in Versions
      /\ s.ver = reg[n].rec.ver => s = reg[n].rec
  BY <1>2, ParsedIs DEF Same
<1>4. reg[n].rec \in Records /\ reg[n].rec.name = n
  BY <1>0, <1>1, KnownIs
<1>5. /\ prog' = IF prog.name = reg[n].rec.name /\ prog.ver = reg[n].rec.ver THEN prog
                 ELSE IF s.name = reg[n].rec.name /\ s.ver = reg[n].rec.ver THEN s
                 ELSE NoProg
  BY <1>1 DEF Loaded
<1> HIDE DEF s, p
<1>6. prog' \in {prog, reg[n].rec, Nowhere}
  BY <1>3, <1>5 DEF NoProg
<1>7. CallInv'
  <2> SUFFICES ASSUME NEW m \in Known, prog'.name = m, prog'.ver = reg[m].rec.ver
               PROVE  prog' = reg[m].rec
    BY <1>1 DEF CallInv, Known
  <2>1. CASE prog' = prog
    BY <1>0, <2>1 DEF CallInv
  <2>2. CASE prog' = reg[n].rec
    BY <1>4, <2>2
  <2>3. CASE prog' = Nowhere
    BY <1>0, <2>3, KnownIs, RecordFacts
  <2> QED BY <1>6, <2>1, <2>2, <2>3
<1>8. TypeInv'
  BY <1>0, <1>1, <1>4, <1>6 DEF TypeInv, Versions
<1>9. FilesInv' /\ RegInv' /\ SourceInv' /\ BusyInv' /\ LinkInv'
  BY <1>0, <1>1 DEF FilesInv, RegInv, SourceInv, Same, BusyInv, LinkInv, Known, Op
<1>10. JobInv'
  BY <1>0, <1>1 DEF JobInv, SaveInv, SaveStage, Copying, DeleteInv, DeleteStage,
                    HasSlot, StepResolves, KeepsCallers, BreaksCallers, Known
<1>11. SoundInv'
  BY <1>0, <1>1 DEF SoundInv, Settled, Agrees
<1> QED BY <1>7, <1>8, <1>9, <1>10, <1>11 DEF IInv

(* Nothing is in progress between jobs.                                    *)
LEMMA AtRest ==
  ASSUME BusyInv, job = Resting
  PROVE  /\ busy = F!NoOp /\ job.todo = <<>> /\ job.name = "-" /\ job.op = "none"
         /\ \A p : busy.name # <<p>>
<1>1. job.todo = <<>> /\ job.name = "-" /\ job.op = "none"
  BY DEF Resting
<1>2. busy = F!NoOp
  BY <1>1 DEF BusyInv
<1> QED BY <1>1, <1>2, BusyName DEF F!NoOp

(* A file in doubt, which only a hurt name has, is read again.             *)
LEMMA RereadKeeps ==
  ASSUME IInv, NEW p \in Paths, Reread(p)
  PROVE  IInv'
<1>0. /\ TypeInv /\ FilesInv /\ RegInv /\ SourceInv /\ CallInv /\ BusyInv /\ JobInv
      /\ SoundInv /\ LinkInv
  BY DEF IInv
<1>1. /\ job = Resting /\ doubt[p] # {file[p]}
      /\ UNCHANGED <<doubt, busy, reg, prog, job, may, hurt>>
  BY DEF Reread, F!Reread
<1>2. PICK c \in doubt[p] : file' = [file EXCEPT ![p] = c]
  BY DEF Reread, F!Reread
<1>3. /\ file' \in [Paths -> Cs] /\ file'[p] = c
      /\ \A q \in Paths \ {p} : file'[q] = file[q]
  BY <1>0, <1>2 DEF TypeInv
<1>4. /\ \A q : busy.name # <<q>>
  BY <1>0, <1>1, AtRest
<1>5. p[1] \in hurt
  <2>1. ASSUME p[1] \notin hurt PROVE Settled(p)
    <3>1. p[1] \in Caps \ hurt /\ (p = CapFile(p[1]) \/ p = BakFile(p[1]))
      BY <2>1, PathFacts
    <3> QED BY <1>0, <3>1 DEF SoundInv
  <2> QED BY <1>1, <1>4, <2>1 DEF Settled
<1>6. TypeInv' /\ FilesInv' /\ RegInv' /\ SourceInv' /\ CallInv' /\ LinkInv'
  BY <1>0, <1>1, <1>3 DEF TypeInv, FilesInv, RegInv, SourceInv, Same, CallInv, LinkInv, Known
<1>7. BusyInv' /\ JobInv'
  BY <1>0, <1>1 DEF BusyInv, JobInv, Op
<1>8. SoundInv'
  <2> SUFFICES ASSUME NEW n \in Caps \ hurt
               PROVE  /\ Settled(CapFile(n))' /\ Settled(BakFile(n))'
                      /\ file'[CapFile(n)] # Whole(Rotten) /\ reg[n].rec \in may[n]
                      /\ n # job.name => Agrees(n)'
    BY <1>1 DEF SoundInv
  <2>1. CapFile(n) \in Paths \ {p} /\ BakFile(n) \in Paths \ {p}
    BY <1>5, PathFacts
  <2>2. file'[CapFile(n)] = file[CapFile(n)] /\ file'[BakFile(n)] = file[BakFile(n)]
    BY <1>3, <2>1
  <2>3. LoadOne(file', n) = LoadOne(file, n)
    BY <2>2 DEF LoadOne
  <2> QED BY <1>0, <1>1, <2>2, <2>3 DEF SoundInv, Settled, Agrees
<1> QED BY <1>6, <1>7, <1>8 DEF IInv

(* A record is damaged where it lies.                                      *)
LEMMA RotKeeps ==
  ASSUME IInv, NEW p \in Paths, Rot(p)
  PROVE  IInv'
<1>0. /\ TypeInv /\ FilesInv /\ RegInv /\ SourceInv /\ CallInv /\ BusyInv /\ JobInv
      /\ SoundInv /\ LinkInv
  BY DEF IInv
<1>1. /\ job = Resting
      /\ file' = [file EXCEPT ![p] = Whole(Rotten)] /\ doubt' = [doubt EXCEPT ![p] = {Whole(Rotten)}]
      /\ hurt' = hurt \cup {p[1]}
      /\ may' = [may EXCEPT ![p[1]] = @ \cup {LoadOne(file', p[1]).rec}]
      /\ UNCHANGED <<busy, reg, prog, job>>
  BY DEF Rot, Whole
<1>2. Whole(Rotten) \in Cs /\ p[1] \in Caps
  BY ContentFacts, PathFacts DEF Held1
<1>3. /\ file' \in [Paths -> Cs] /\ doubt' \in [Paths -> SUBSET Cs]
      /\ file'[p] = Whole(Rotten) /\ doubt'[p] = {Whole(Rotten)}
      /\ \A q \in Paths \ {p} : file'[q] = file[q] /\ doubt'[q] = doubt[q]
  BY <1>0, <1>1, <1>2 DEF TypeInv
<1>4. LoadOne(file', p[1]).rec \in Versions
  BY <1>2, <1>3, PathFacts, LoadOneIs DEF Entries
<1>5. may' \in [Caps -> SUBSET Versions] /\ \A n \in Caps : may[n] \subseteq may'[n]
  BY <1>0, <1>1, <1>2, <1>4 DEF TypeInv
<1>6. TypeInv' /\ RegInv' /\ CallInv' /\ LinkInv'
  BY <1>0, <1>1, <1>2, <1>3, <1>5 DEF TypeInv, RegInv, CallInv, LinkInv, Known
<1>7. BusyInv' /\ JobInv'
  BY <1>0, <1>1, AtRest DEF BusyInv, JobInv
<1>8. FilesInv'
  <2>1. IsFiniteSet({Whole(Rotten)}) /\ Parsed(Whole(Rotten)) = Nowhere
    BY FS_Singleton, ContentFacts
  <2> QED BY <1>0, <1>3, <2>1, ZenonT(60) DEF FilesInv
<1>9. SourceInv'
  <2>1. ASSUME NEW n \in Known, NEW q \in Paths, Same(n, q) PROVE Same(n, q)'
    <3>1. reg[n].rec.ver # 0 /\ Parsed(Whole(Rotten)).ver = 0
      BY <1>0, KnownIs, ContentFacts, RecordFacts
    <3> QED BY <1>1, <1>3, <2>1, <3>1 DEF Same
  <2>2. \A n \in Known : CapFile(n) \in Paths /\ BakFile(n) \in Paths
    BY PathFacts DEF Known, Held
  <2>3. Known' = Known /\ reg' = reg
    BY <1>1 DEF Known
  <2> QED BY <1>0, <2>1, <2>2, <2>3 DEF SourceInv
<1>10. SoundInv'
  <2> SUFFICES ASSUME NEW n \in Caps \ hurt'
               PROVE  /\ Settled(CapFile(n))' /\ Settled(BakFile(n))'
                      /\ file'[CapFile(n)] # Whole(Rotten) /\ reg[n].rec \in may'[n]
                      /\ n # job.name => Agrees(n)'
    BY <1>1 DEF SoundInv
  <2>1. CapFile(n) \in Paths \ {p} /\ BakFile(n) \in Paths \ {p} /\ n \in Caps \ hurt
    BY <1>1, PathFacts
  <2>2. /\ file'[CapFile(n)] = file[CapFile(n)] /\ file'[BakFile(n)] = file[BakFile(n)]
        /\ doubt'[CapFile(n)] = doubt[CapFile(n)] /\ doubt'[BakFile(n)] = doubt[BakFile(n)]
    BY <1>3, <2>1
  <2>3. LoadOne(file', n) = LoadOne(file, n)
    BY <2>2 DEF LoadOne
  <2> QED BY <1>0, <1>1, <1>5, <2>1, <2>2, <2>3 DEF SoundInv, Settled, Agrees
<1> QED BY <1>6, <1>7, <1>8, <1>9, <1>10 DEF IInv

(* file_write_all truncates what is not empty yet, then writes.            *)
LEMMA WriteAllIs ==
  ASSUME NEW p, NEW x
  PROVE  /\ file[p] = Empty => WriteAll(p, <<x>>) = <<Write(p, x)>>
         /\ file[p] # Empty => WriteAll(p, <<x>>) = <<Clear(p), Write(p, x)>>
BY ListFacts DEF WriteAll, Empty, Write, Clear

(* The lists a save can start with.                                        *)
LEMMA SaveStepsAre ==
  ASSUME TypeInv, NEW n \in Caps, NEW r \in Records
  PROVE  /\ SaveSteps(n, r) \in Seq(Steps)
         /\ n \in Known /\ file[CapFile(n)] \notin {None, Empty} =>
              \E x \in Held1 :
                /\ file[CapFile(n)] = Whole(x)
                /\ SaveSteps(n, r) \in
                     {<<Clear(BakFile(n)), Write(BakFile(n), x), Clear(CapFile(n)), Write(CapFile(n), r)>>,
                      <<Write(BakFile(n), x), Clear(CapFile(n)), Write(CapFile(n), r)>>}
         /\ file[CapFile(n)] = Empty => SaveSteps(n, r) = <<Write(CapFile(n), r)>>
         /\ file[CapFile(n)] = None \/ (n \notin Known /\ file[CapFile(n)] # Empty) =>
              SaveSteps(n, r) = <<Clear(CapFile(n)), Write(CapFile(n), r)>>
<1> DEFINE c == file[CapFile(n)]
           copies == n \in Known /\ c.data # <<>>
<1>1. c \in Cs /\ CapFile(n) \in Paths /\ BakFile(n) \in Paths
  BY PathFacts DEF TypeInv
<1>2. \A p \in Paths, x \in Held1 : Clear(p) \in Steps /\ Write(p, x) \in Steps
  BY ContentFacts DEF Clear, Write, Put, Steps, Empty, Whole
<1>3. r \in Held1
  BY DEF Held1
<1>4. SaveSteps(n, r) = (IF copies THEN WriteAll(BakFile(n), c.data) ELSE <<>>)
                        \o WriteAll(CapFile(n), <<r>>)
  BY DEF SaveSteps
<1>5. c.data = <<>> <=> c \in {None, Empty}
  BY <1>1, DataIs
<1>6. /\ c = Empty => WriteAll(CapFile(n), <<r>>) = <<Write(CapFile(n), r)>>
      /\ c # Empty => WriteAll(CapFile(n), <<r>>) = <<Clear(CapFile(n)), Write(CapFile(n), r)>>
  BY WriteAllIs
<1>7. CASE copies
  <2>1. PICK x \in Held1 : c = Whole(x) /\ c.data = <<x>>
    BY <1>1, <1>7, DataIs
  <2>2. WriteAll(BakFile(n), c.data) \in {<<Write(BakFile(n), x)>>, <<Clear(BakFile(n)), Write(BakFile(n), x)>>}
    BY <2>1, WriteAllIs
  <2>3. WriteAll(CapFile(n), <<r>>) = <<Clear(CapFile(n)), Write(CapFile(n), r)>>
    BY <1>5, <1>6, <1>7
  <2>4. SaveSteps(n, r) \in
          {<<Clear(BakFile(n)), Write(BakFile(n), x), Clear(CapFile(n)), Write(CapFile(n), r)>>,
           <<Write(BakFile(n), x), Clear(CapFile(n)), Write(CapFile(n), r)>>}
    <3>1. CASE WriteAll(BakFile(n), c.data) = <<Write(BakFile(n), x)>>
      <4>1. SaveSteps(n, r) = <<Write(BakFile(n), x)>> \o <<Clear(CapFile(n)), Write(CapFile(n), r)>>
        BY <1>4, <1>7, <2>3, <3>1
      <4>2. SaveSteps(n, r) = <<Write(BakFile(n), x), Clear(CapFile(n)), Write(CapFile(n), r)>>
        BY <4>1, ListFacts
      <4> QED BY <4>2
    <3>2. CASE WriteAll(BakFile(n), c.data) = <<Clear(BakFile(n)), Write(BakFile(n), x)>>
      <4>1. SaveSteps(n, r) = <<Clear(BakFile(n)), Write(BakFile(n), x)>> \o <<Clear(CapFile(n)), Write(CapFile(n), r)>>
        BY <1>4, <1>7, <2>3, <3>2
      <4>2. SaveSteps(n, r) = <<Clear(BakFile(n)), Write(BakFile(n), x), Clear(CapFile(n)), Write(CapFile(n), r)>>
        BY <4>1, ListFacts
      <4> QED BY <4>2
    <3> QED BY <2>2, <3>1, <3>2
  <2>5. SaveSteps(n, r) \in Seq(Steps)
    <3>1. /\ Clear(BakFile(n)) \in Steps /\ Write(BakFile(n), x) \in Steps
          /\ Clear(CapFile(n)) \in Steps /\ Write(CapFile(n), r) \in Steps
      BY <1>1, <1>2, <1>3
    <3>2. /\ <<Clear(BakFile(n)), Write(BakFile(n), x), Clear(CapFile(n)), Write(CapFile(n), r)>> \in Seq(Steps)
          /\ <<Write(BakFile(n), x), Clear(CapFile(n)), Write(CapFile(n), r)>> \in Seq(Steps)
      BY <3>1
    <3> QED BY <2>4, <3>2
  <2> QED BY <1>5, <1>7, <2>1, <2>4, <2>5
<1>8. CASE ~copies
  <2>1. SaveSteps(n, r) = <<>> \o WriteAll(CapFile(n), <<r>>)
    BY <1>4, <1>8
  <2>2. CASE c = Empty
    <3>1. SaveSteps(n, r) = <<Write(CapFile(n), r)>>
      BY <1>6, <2>1, <2>2, ListFacts
    <3>2. SaveSteps(n, r) \in Seq(Steps)
      BY <1>1, <1>2, <1>3, <3>1
    <3> QED BY <1>1, <1>5, <1>8, <2>2, <3>1, <3>2, ContentFacts
  <2>3. CASE c # Empty
    <3>1. SaveSteps(n, r) = <<Clear(CapFile(n)), Write(CapFile(n), r)>>
      BY <1>6, <2>1, <2>3, ListFacts
    <3>2. SaveSteps(n, r) \in Seq(Steps)
      BY <1>1, <1>2, <1>3, <3>1
    <3> QED BY <1>1, <1>5, <1>8, <2>3, <3>1, <3>2
  <2> QED BY <2>2, <2>3
<1> QED BY <1>7, <1>8

(* capability_save up to its first write.                                  *)
LEMMA SaveKeeps ==
  ASSUME IInv, NEW n \in Caps, NEW t \in Texts, Save(n, t)
  PROVE  IInv'
<1>0. /\ TypeInv /\ FilesInv /\ RegInv /\ SourceInv /\ CallInv /\ BusyInv /\ JobInv
      /\ SoundInv /\ LinkInv
  BY DEF IInv
<1>a. PICK v, r : v = reg[n].rec.ver + 1 /\ r = Version(n, t, v)
  OBVIOUS
<1>1. /\ job = Resting /\ r.ver <= VERSIONS /\ HasSlot(n)
      /\ prog' = (IF IsCompose(t) THEN prog ELSE NoProg)
      /\ \/ /\ Acceptable(n, t) /\ hurt' = hurt
            /\ job' = [op |-> "save", name |-> n, todo |-> SaveSteps(n, r), rec |-> r]
            /\ may' = [may EXCEPT ![n] = @ \cup {r}]
         \/ /\ Acceptable(n, t) /\ hurt' = hurt \cup {n}
            /\ job' = [op |-> "save", name |-> n, rec |-> r,
                       todo |-> WriteAll(CapFile(n), <<r>>)]
            /\ may' = [may EXCEPT ![n] = @ \cup {r}]
         \/ UNCHANGED <<job, may, hurt>>
      /\ UNCHANGED <<file, doubt, busy, reg>>
      /\ hurt \subseteq hurt' /\ hurt' \subseteq Caps
  BY <1>0, <1>a DEF Save, TypeInv
<1>2. reg[n].rec.ver \in Nat
  BY <1>0, KnownIs, RecordFacts
<1>3. r.ver = v
  BY <1>a DEF Version
<1>4. v \in 1..VERSIONS
  BY <1>a, <1>1, <1>2, <1>3, CapabilityAssumption
<1>5. /\ r \in Records /\ r.name = n /\ r.ver = reg[n].rec.ver + 1
      /\ r.arity = t.arity /\ r.call = t.call /\ r.narg = t.narg
  BY <1>a, <1>4, VersionIs
<1>6. /\ busy = F!NoOp /\ n # job.name
  BY <1>0, <1>1, AtRest, CapabilityAssumption
<1>7. FilesInv' /\ RegInv' /\ SourceInv' /\ LinkInv' /\ BusyInv'
  BY <1>0, <1>1, <1>6 DEF FilesInv, RegInv, SourceInv, Same, LinkInv, Known, BusyInv
<1>8. CallInv'
  <2> SUFFICES ASSUME NEW m \in Known, prog'.name = m, prog'.ver = reg[m].rec.ver
               PROVE  prog' = reg[m].rec
    BY <1>1 DEF CallInv, Known
  <2>1. CASE prog' = prog
    BY <1>0, <2>1 DEF CallInv
  <2>2. CASE prog' = Nowhere
    BY <1>0, <2>2, KnownIs, RecordFacts
  <2> QED BY <1>1, <2>1, <2>2 DEF NoProg
<1>9. CASE UNCHANGED <<job, may, hurt>>
  <2>1. TypeInv'
    BY <1>0, <1>1, <1>9 DEF TypeInv, Versions, NoProg
  <2>2. JobInv'
    BY <1>1, <1>9 DEF JobInv
  <2>3. SoundInv'
    BY <1>0, <1>1, <1>9 DEF SoundInv, Settled, Agrees
  <2> QED BY <1>7, <1>8, <2>1, <2>2, <2>3 DEF IInv
<1>10. ASSUME NEW todo, todo \in Seq(Steps), Acceptable(n, t),
              job' = [op |-> "save", name |-> n, todo |-> todo, rec |-> r],
              may' = [may EXCEPT ![n] = @ \cup {r}],
              SaveStage(n, r)'
       PROVE  IInv'
  <2>1. /\ job'.op = "save" /\ job'.name = n /\ job'.rec = r /\ job'.todo = todo
    BY <1>10
  <2>2. /\ may' \in [Caps -> SUBSET Versions] /\ r \in may'[n]
        /\ \A m \in Caps : may[m] \subseteq may'[m]
    BY <1>0, <1>5, <1>10 DEF TypeInv, Versions
  <2>3. TypeInv'
    <3>1. job' \in Jobs
      BY <1>5, <1>10 DEF Jobs, Versions
    <3> QED BY <1>0, <1>1, <2>2, <3>1 DEF TypeInv, Versions, NoProg
  <2>4. SoundInv'
    <3> SUFFICES ASSUME NEW m \in Caps \ hurt'
                 PROVE  /\ Settled(CapFile(m))' /\ Settled(BakFile(m))'
                        /\ file[CapFile(m)] # Whole(Rotten) /\ reg[m].rec \in may'[m]
                        /\ m # n => Agrees(m)
      BY <1>1, <2>1 DEF SoundInv, Agrees
    <3>1. m # job.name
      BY <1>0, <1>1, AtRest, CapabilityAssumption
    <3> QED BY <1>0, <1>1, <2>2, <3>1 DEF SoundInv, Settled
  <2>5. JobInv'
    <3>1. HasSlot(n)' /\ StepResolves(n, r)' /\ KeepsCallers(n, r)'
      BY <1>1, <1>5, <1>10 DEF Acceptable, HasSlot, StepResolves, KeepsCallers, BreaksCallers,
                               IsCompose, Known
    <3>2. SaveInv(n, r)'
      BY <1>1, <1>5, <1>10, <2>2, <3>1 DEF SaveInv
    <3> QED BY <2>1, <3>2 DEF JobInv
  <2> QED BY <1>7, <1>8, <2>3, <2>4, <2>5 DEF IInv
<1>11. CASE /\ Acceptable(n, t) /\ hurt' = hurt
            /\ job' = [op |-> "save", name |-> n, todo |-> SaveSteps(n, r), rec |-> r]
            /\ may' = [may EXCEPT ![n] = @ \cup {r}]
  <2>1. job'.todo = SaveSteps(n, r)
    BY <1>11
  <2> DEFINE c == file[CapFile(n)]
             b == file[BakFile(n)]
  <2>2. /\ c \in Cs /\ b \in Cs
    BY <1>0, PathFacts DEF TypeInv
  <2>3. n \notin hurt => c # Whole(Rotten) /\ Agrees(n)
    BY <1>0, <1>6 DEF SoundInv
  <2>4. SaveStage(n, r)'
    <3>1. CASE n \in Known /\ c \notin {None, Empty}
      <4>1. PICK x \in Held1 :
              /\ c = Whole(x)
              /\ SaveSteps(n, r) \in
                   {<<Clear(BakFile(n)), Write(BakFile(n), x), Clear(CapFile(n)), Write(CapFile(n), r)>>,
                    <<Write(BakFile(n), x), Clear(CapFile(n)), Write(CapFile(n), r)>>}
        BY <1>0, <1>5, <3>1, SaveStepsAre
      <4>2. Copying(n, r, x)'
        BY <2>1, <4>1 DEF Copying
      <4>3. ASSUME n \notin hurt PROVE x = reg[n].rec
        <5>1. x \in Records
          BY <2>3, <4>1, <4>3 DEF Held1
        <5>2. LoadOne(file, n).rec = x
          BY <2>2, <4>1, <5>1, LoadOneIs
        <5> QED BY <2>3, <4>3, <5>2 DEF Agrees
      <4> QED BY <1>1, <4>1, <4>2, <4>3 DEF SaveStage
    <3>2. CASE c = Empty
      <4>1. job'.todo = <<Write(CapFile(n), r)>>
        BY <1>0, <1>5, <2>1, <3>2, SaveStepsAre
      <4>2. LoadOne(file, n).rec = Parsed(b)
        BY <2>2, <3>2, LoadOneIs, ContentFacts
      <4>3. n \notin hurt => Parsed(b) = reg[n].rec
        BY <2>3, <4>2 DEF Agrees
      <4> QED BY <1>1, <3>2, <4>1, <4>3 DEF SaveStage
    <3>3. CASE c = None \/ (n \notin Known /\ c # Empty)
      <4>1. job'.todo = <<Clear(CapFile(n)), Write(CapFile(n), r)>>
        BY <1>0, <1>5, <2>1, <3>3, SaveStepsAre
      <4>2. ASSUME n \notin hurt PROVE c = None
        <5>1. ASSUME c # None PROVE FALSE
          <6>1. n \notin Known /\ reg[n].rec = Nowhere
            BY <1>0, <3>3, <5>1, KnownIs
          <6>2. PICK x \in Records : c = Whole(x)
            BY <2>2, <2>3, <3>3, <4>2, <5>1, ContentFacts
          <6>3. LoadOne(file, n).rec = x
            BY <2>2, <6>2, LoadOneIs
          <6> QED BY <2>3, <4>2, <6>1, <6>3, RecordFacts DEF Agrees
        <5> QED BY <5>1
      <4>3. ASSUME n \notin hurt PROVE c = None /\ Parsed(b) = Nowhere /\ reg[n].rec = Nowhere
        <5>1. LoadOne(file, n).rec = Nowhere
          BY <2>2, <4>2, <4>3, LoadOneIs DEF Absent
        <5> QED BY <2>3, <4>2, <4>3, <5>1 DEF Agrees
      <4> QED BY <1>1, <4>1, <4>3 DEF SaveStage
    <3> QED BY <3>1, <3>2, <3>3
  <2>5. SaveSteps(n, r) \in Seq(Steps)
    BY <1>0, <1>5, SaveStepsAre
  <2> QED BY <1>10, <1>11, <2>4, <2>5
<1>12. CASE /\ Acceptable(n, t) /\ hurt' = hurt \cup {n}
            /\ job' = [op |-> "save", name |-> n, rec |-> r,
                       todo |-> WriteAll(CapFile(n), <<r>>)]
            /\ may' = [may EXCEPT ![n] = @ \cup {r}]
  <2>1. job'.todo = WriteAll(CapFile(n), <<r>>) /\ n \in hurt'
    BY <1>12
  <2>2. WriteAll(CapFile(n), <<r>>) \in {<<Write(CapFile(n), r)>>, <<Clear(CapFile(n)), Write(CapFile(n), r)>>}
    BY WriteAllIs
  <2>3. SaveStage(n, r)'
    BY <2>1, <2>2 DEF SaveStage
  <2>4. WriteAll(CapFile(n), <<r>>) \in Seq(Steps)
    <3>1. Clear(CapFile(n)) \in Steps /\ Write(CapFile(n), r) \in Steps
      BY <1>5, PathFacts, ContentFacts DEF Clear, Write, Put, Steps, Empty, Whole, Held1
    <3>2. /\ <<Clear(CapFile(n)), Write(CapFile(n), r)>> \in Seq(Steps)
          /\ <<Write(CapFile(n), r)>> \in Seq(Steps)
      BY <3>1
    <3> QED BY <2>2, <3>2
  <2> QED BY <1>10, <1>12, <2>3, <2>4
<1> QED BY <1>1, <1>9, <1>11, <1>12

(* capability_revert is a save of what the backup holds.                   *)
LEMMA RevertKeeps ==
  ASSUME IInv, NEW n \in Caps, Revert(n)
  PROVE  IInv'
<1> DEFINE old == Parsed(file[BakFile(n)])
<1>1. old # Nowhere /\ Save(n, TextOf(old))
  BY DEF Revert
<1>2. file[BakFile(n)] \in Cs
  BY PathFacts DEF IInv, TypeInv
<1>3. TextOf(old) \in Texts
  BY <1>1, <1>2, ParsedIs, RecordFacts
<1> HIDE DEF old
<1> QED BY <1>1, <1>3, SaveKeeps

(* capability_delete up to its first removal.                              *)
LEMMA DeleteKeeps ==
  ASSUME IInv, NEW n \in Caps, Delete(n)
  PROVE  IInv'
<1>0. /\ TypeInv /\ FilesInv /\ RegInv /\ SourceInv /\ CallInv /\ BusyInv /\ JobInv
      /\ SoundInv /\ LinkInv
  BY DEF IInv
<1> DEFINE c == file[CapFile(n)]
           b == file[BakFile(n)]
           todo == Remove(CapFile(n)) \o Remove(BakFile(n))
<1>1. /\ job = Resting /\ n \in Known
      /\ \A m \in Known \ {n} : reg[m].rec.call # n
      /\ job' = [op |-> "delete", name |-> n, rec |-> Nowhere, todo |-> todo]
      /\ may' = [may EXCEPT ![n] = @ \cup {Nowhere}]
      /\ UNCHANGED <<file, doubt, busy, reg, prog, hurt>>
  BY DEF Delete
<1>2. /\ busy = F!NoOp /\ n # job.name
  BY <1>0, <1>1, AtRest, CapabilityAssumption
<1>3. /\ c # None /\ b # None => todo = <<Unlink(CapFile(n)), Unlink(BakFile(n))>>
      /\ c # None /\ b = None => todo = <<Unlink(CapFile(n))>>
      /\ c = None /\ b # None => todo = <<Unlink(BakFile(n))>>
      /\ c = None /\ b = None => todo = <<>>
  <2>1. \A p : Remove(p) = IF file[p] = None THEN <<>> ELSE <<Unlink(p)>>
    BY DEF Remove, Unlink, None
  <2>2. /\ c = None => Remove(CapFile(n)) = <<>>
        /\ c # None => Remove(CapFile(n)) = <<Unlink(CapFile(n))>>
        /\ b = None => Remove(BakFile(n)) = <<>>
        /\ b # None => Remove(BakFile(n)) = <<Unlink(BakFile(n))>>
    BY <2>1
  <2>3. ASSUME c # None, b # None PROVE todo = <<Unlink(CapFile(n)), Unlink(BakFile(n))>>
    <3>1. todo = <<Unlink(CapFile(n))>> \o <<Unlink(BakFile(n))>>
      BY <2>2, <2>3
    <3> QED BY <3>1, ListFacts
  <2>4. ASSUME c # None, b = None PROVE todo = <<Unlink(CapFile(n))>>
    <3>1. todo = <<Unlink(CapFile(n))>> \o <<>>
      BY <2>2, <2>4
    <3> QED BY <3>1, ListFacts
  <2>5. ASSUME c = None, b # None PROVE todo = <<Unlink(BakFile(n))>>
    <3>1. todo = <<>> \o <<Unlink(BakFile(n))>>
      BY <2>2, <2>5
    <3> QED BY <3>1, ListFacts
  <2>6. ASSUME c = None, b = None PROVE todo = <<>>
    <3>1. todo = <<>> \o <<>>
      BY <2>2, <2>6
    <3> QED BY <3>1, ListFacts
  <2> HIDE DEF todo
  <2> QED BY <2>3, <2>4, <2>5, <2>6
<1>4. todo \in Seq(Steps)
  <2>1. Unlink(CapFile(n)) \in Steps /\ Unlink(BakFile(n)) \in Steps
    BY PathFacts, ContentFacts DEF Unlink, Steps
  <2>2. /\ <<Unlink(CapFile(n)), Unlink(BakFile(n))>> \in Seq(Steps)
        /\ <<Unlink(CapFile(n))>> \in Seq(Steps) /\ <<Unlink(BakFile(n))>> \in Seq(Steps)
        /\ <<>> \in Seq(Steps)
    BY <2>1
  <2> HIDE DEF todo
  <2> QED BY <1>3, <2>2
<1> HIDE DEF todo
<1>5. /\ job' \in Jobs /\ job'.op = "delete" /\ job'.name = n /\ job'.rec = Nowhere /\ job'.todo = todo
  BY <1>1, <1>4 DEF Jobs, Versions
<1>6. /\ may' \in [Caps -> SUBSET Versions] /\ Nowhere \in may'[n]
      /\ \A m \in Caps : may[m] \subseteq may'[m]
  BY <1>0, <1>1 DEF TypeInv, Versions
<1>7. FilesInv' /\ RegInv' /\ SourceInv' /\ CallInv' /\ LinkInv' /\ BusyInv'
  BY <1>0, <1>1, <1>2 DEF FilesInv, RegInv, SourceInv, Same, CallInv, LinkInv, Known, BusyInv
<1>8. TypeInv'
  BY <1>0, <1>1, <1>5, <1>6 DEF TypeInv
<1>9. SoundInv'
  <2> SUFFICES ASSUME NEW m \in Caps \ hurt
               PROVE  /\ Settled(CapFile(m))' /\ Settled(BakFile(m))'
                      /\ file[CapFile(m)] # Whole(Rotten) /\ reg[m].rec \in may'[m]
                      /\ m # n => Agrees(m)
    BY <1>1, <1>5 DEF SoundInv, Agrees
  <2>1. m # job.name
    BY <1>0, <1>1, AtRest, CapabilityAssumption
  <2> QED BY <1>0, <1>1, <1>6, <2>1 DEF SoundInv, Settled
<1>10. JobInv'
  <2>1. n \notin hurt => reg[n].rec = LoadOne(file, n).rec
    BY <1>0, <1>2 DEF SoundInv, Agrees
  <2>2. DeleteStage(n)'
    BY <1>1, <1>3, <1>5, <2>1 DEF DeleteStage
  <2>3. DeleteInv(n)'
    BY <1>1, <1>6, <2>2 DEF DeleteInv, Known
  <2> QED BY <1>5, <2>3 DEF JobInv
<1> QED BY <1>7, <1>8, <1>9, <1>10 DEF IInv

-----------------------------------------------------------------------------
(* What calls what.                                                        *)

(* A registry in which a slot with no record is a free slot.               *)
Listed(R) == R \in Registries /\ \A m \in Caps : R[m].rec = Nowhere <=> R[m] = Absent

(* g_cap itself is one.                                                    *)
LEMMA RegListed ==
  ASSUME TypeInv, RegInv
  PROVE  Listed(reg)
BY KnownIs DEF Listed, TypeInv, Registries, Absent, Known, Held

(* Whether a composition resolves depends only on the records registered.  *)
LEMMA SameLinks ==
  ASSUME NEW R, NEW Q, Listed(R), Listed(Q), \A m \in Caps : R[m].rec = Q[m].rec, NEW n \in Caps,
         ~Dead(Q, n)
  PROVE  ~Dead(R, n)
<1>1. R[n].rec \in Versions
  BY DEF Listed, Registries, Entries
<1>2. IsCompose(R[n].rec) => R[n].rec.call \in Caps
  BY <1>1, RecordFacts DEF IsCompose, Versions
<1> QED BY <1>2 DEF Dead, Listed

(* A save or a delete that is accepted breaks no composition, whether it   *)
(* is registered in the end or read by the next boot.                      *)
LEMMA LinksKept ==
  ASSUME TypeInv, RegInv, JobInv, job # Resting,
         NEW R, Listed(R), R[job.name].rec = job.rec,
         \A m \in Caps \ {job.name} : R[m].rec = reg[m].rec,
         NEW m \in Caps, m = job.name \/ ~Dead(reg, m)
  PROVE  ~Dead(R, m)
<1> DEFINE n == job.name
           x == R[m].rec
<1>1. Listed(reg)
  BY RegListed
<1>2. x \in Versions
  BY DEF Listed, Registries, Entries
<1> SUFFICES ASSUME IsCompose(x)
             PROVE  x.call \in Caps /\ R[x.call].rec # Nowhere /\ R[x.call].rec.arity = x.narg
  BY DEF Dead, Listed, Absent
<1>3. x \in Records /\ x.call \in Caps /\ x # Nowhere
  BY <1>2, RecordFacts DEF IsCompose, Versions
<1>4. ASSUME m # n PROVE x = reg[m].rec /\ m \in Known /\ reg[x.call] # Absent /\ reg[x.call].rec.arity = x.narg
  <2>1. x = reg[m].rec
    BY <1>4
  <2>2. ~Dead(reg, m)
    BY <1>4
  <2>3. m \in Known
    BY <1>3, <2>1 DEF Known, Held, Absent
  <2> QED BY <1>3, <2>1, <2>2, <2>3 DEF Dead
<1>5. CASE job.op = "save" /\ SaveInv(n, job.rec)
  <2>0. n \in Caps /\ job.rec \in Records /\ job.rec # Nowhere
        /\ StepResolves(n, job.rec) /\ KeepsCallers(n, job.rec)
    BY <1>5, RecordFacts DEF SaveInv
  <2>1. CASE m = n
    <3>1. x = job.rec
      BY <2>1
    <3>2. CASE x.call = n
      BY <1>3, <2>0, <3>1, <3>2 DEF StepResolves
    <3>3. CASE x.call # n
      <4>1. x.call \in Known /\ reg[x.call].rec.arity = x.narg
        BY <2>0, <3>1, <3>3 DEF StepResolves
      <4>2. reg[x.call].rec # Nowhere
        BY <4>1, KnownIs
      <4> QED BY <1>3, <3>3, <4>1, <4>2
    <3> QED BY <3>2, <3>3
  <2>2. CASE m # n
    <3>1. CASE x.call = n
      <4>1. n \in Known /\ reg[n].rec.arity = x.narg
        BY <1>4, <2>0, <2>2, <3>1 DEF Known, Held
      <4>2. job.rec.arity # reg[n].rec.arity => x.narg = job.rec.arity
        BY <1>4, <2>0, <2>2, <3>1, <4>1 DEF KeepsCallers, BreaksCallers
      <4> QED BY <1>3, <2>0, <3>1, <4>1, <4>2
    <3>2. CASE x.call # n
      <4>1. x.call \in Known
        BY <1>3, <1>4, <2>2 DEF Known, Held
      <4> QED BY <1>3, <1>4, <2>2, <3>2, <4>1, KnownIs
    <3> QED BY <3>1, <3>2
  <2> QED BY <2>1, <2>2
<1>6. CASE job.op = "delete" /\ job.rec = Nowhere /\ DeleteInv(n)
  <2>1. m # n
    BY <1>3, <1>6
  <2>2. x.call # n
    BY <1>4, <1>6, <2>1 DEF DeleteInv
  <2>3. x.call \in Known
    BY <1>3, <1>4, <2>1 DEF Known, Held
  <2> QED BY <1>3, <1>4, <2>1, <2>2, <2>3, KnownIs
<1> QED BY <1>5, <1>6 DEF JobInv

-----------------------------------------------------------------------------
(* The end of a job.                                                       *)

(* The registry after the last lines of a save or a delete.                *)
LEMMA FinishedIs ==
  ASSUME TypeInv, FilesInv, RegInv, JobInv, job.op # "none", job.todo = <<>>
  PROVE  LET n == job.name
             Q == [reg EXCEPT ![n] = [rec |-> job.rec, from_backup |-> FALSE]]
         IN /\ n \in Caps /\ job.op \in {"save", "delete"} /\ job.rec \in Versions
            /\ Q \in Registries /\ Q[n].rec = job.rec /\ ~Q[n].from_backup
            /\ \A m \in Caps \ {n} : Q[m] = reg[m]
            /\ Listed(Q)
            /\ \A m \in Held(Q) : m \in Caps /\ Q[m].rec \in Records /\ Q[m].rec.name = m
            /\ Cardinality(Held(Q)) <= CAP_MAX
            /\ job.op = "save" => /\ job.rec \in Records /\ doubt[CapFile(n)] = {Whole(job.rec)}
            /\ job.op = "delete" =>
                 /\ job.rec = Nowhere
                 /\ n \notin hurt => file[CapFile(n)] = None /\ file[BakFile(n)] = None
<1> DEFINE n == job.name
           Q == [reg EXCEPT ![n] = [rec |-> job.rec, from_backup |-> FALSE]]
<1>1. \/ job.op = "save" /\ SaveInv(n, job.rec)
      \/ job.op = "delete" /\ job.rec = Nowhere /\ DeleteInv(n)
  BY DEF JobInv, Resting
<1>2. n \in Caps /\ job.rec \in Versions /\ job.op \in {"save", "delete"}
  BY <1>1 DEF SaveInv, DeleteInv, Known, Held, Versions
<1>3. /\ Q \in Registries /\ Q[n] = [rec |-> job.rec, from_backup |-> FALSE]
      /\ \A m \in Caps \ {n} : Q[m] = reg[m]
  BY <1>2 DEF TypeInv, Registries, Entries
<1> HIDE DEF Q
<1>4. Q[n].rec = job.rec /\ ~Q[n].from_backup /\ (job.rec = Nowhere <=> Q[n] = Absent)
  <2>1. Q[n].rec = job.rec /\ Q[n].from_backup = FALSE
    BY <1>3
  <2>2. job.rec = Nowhere => Q[n] = Absent
    BY <1>3 DEF Absent
  <2>3. Absent.rec = Nowhere
    BY DEF Absent
  <2> QED BY <2>1, <2>2, <2>3
<1>5. Listed(Q)
  BY <1>2, <1>3, <1>4, RegListed DEF Listed
<1>6. job.op = "save" => /\ job.rec \in Records /\ job.rec.name = n /\ HasSlot(n)
                         /\ doubt[CapFile(n)] = {Whole(job.rec)}
  BY <1>1, ListFacts DEF SaveInv, SaveStage, Copying
<1>7. job.op = "delete" =>
                 /\ job.rec = Nowhere /\ n \in Known
                 /\ n \notin hurt => file[CapFile(n)] = None /\ file[BakFile(n)] = None
  BY <1>1, ListFacts DEF DeleteInv, DeleteStage
<1>8. \A m \in Held(Q) : m \in Caps /\ Q[m].rec \in Records /\ Q[m].rec.name = m
  <2> SUFFICES ASSUME NEW m \in Held(Q)
               PROVE  m \in Caps /\ Q[m].rec \in Records /\ Q[m].rec.name = m
    OBVIOUS
  <2>1. m \in Caps /\ Q[m] # Absent
    BY DEF Held
  <2>2. CASE m = n
    BY <1>2, <1>4, <1>6, <1>7, <2>1, <2>2
  <2>3. CASE m # n
    BY <1>3, <2>1, <2>3 DEF RegInv, Known, Held
  <2> QED BY <2>1, <2>2, <2>3
<1>9. Cardinality(Held(Q)) <= CAP_MAX
  <2>1. /\ IsFiniteSet(Known) /\ Cardinality(Known) \in Nat /\ Cardinality(Held(Q)) \in Nat
        /\ Cardinality(Known) <= CAP_MAX /\ CAP_MAX \in Nat
    BY HeldFinite, CapabilityAssumption DEF Known, RegInv
  <2>2. CASE n \in Known
    <3>1. Held(Q) \in SUBSET Known
      BY <1>3, <2>2 DEF Known, Held
    <3>2. Cardinality(Held(Q)) <= Cardinality(Known)
      BY <2>1, <3>1, FS_Subset
    <3> QED BY <2>1, <3>2
  <2>3. CASE n \notin Known
    <3>1. Held(Q) \in SUBSET (Known \cup {n})
      BY <1>3 DEF Known, Held
    <3>2. IsFiniteSet(Known \cup {n}) /\ Cardinality(Known \cup {n}) = Cardinality(Known) + 1
      BY <2>1, <2>3, FS_AddElement
    <3>3. Cardinality(Held(Q)) <= Cardinality(Known \cup {n})
      BY <3>1, <3>2, FS_Subset
    <3>4. Cardinality(Known) < CAP_MAX
      BY <1>2, <1>6, <1>7, <2>3 DEF HasSlot
    <3> QED BY <2>1, <3>2, <3>3, <3>4
  <2> QED BY <2>2, <2>3
<1> QED BY <1>2, <1>3, <1>4, <1>5, <1>6, <1>7, <1>8, <1>9 DEF Q

(* A finished job keeps the invariant, and nobody is hurt by it.           *)
LEMMA FinishKeeps ==
  ASSUME IInv, Finish
  PROVE  IInv' /\ hurt' \subseteq hurt
<1>0. /\ TypeInv /\ FilesInv /\ RegInv /\ SourceInv /\ CallInv /\ BusyInv /\ JobInv
      /\ SoundInv /\ LinkInv
  BY DEF IInv
<1>a. PICK n, r, op : n = job.name /\ r = job.rec /\ op = job.op
  OBVIOUS
<1>1. /\ op # "none" /\ job.todo = <<>> /\ busy = F!NoOp
      /\ reg' = [reg EXCEPT ![n] = [rec |-> r, from_backup |-> FALSE]]
      /\ prog' = Nowhere /\ job' = Resting
      /\ may' = IF doubt[CapFile(n)] \in {{None}, {Whole(r)}} THEN [may EXCEPT ![n] = {r}] ELSE may
      /\ hurt' = IF op = "save" /\ Cardinality(doubt[BakFile(n)]) = 1 THEN hurt \ {n} ELSE hurt
      /\ UNCHANGED <<file, doubt, busy>>
  BY <1>a DEF Finish, Register, NoProg, None, Whole
<1>2. /\ n \in Caps /\ op \in {"save", "delete"} /\ r \in Versions
      /\ reg' \in Registries /\ reg'[n].rec = r /\ ~reg'[n].from_backup
      /\ \A m \in Caps \ {n} : reg'[m] = reg[m]
      /\ Listed(reg')
      /\ \A m \in Held(reg') : m \in Caps /\ reg'[m].rec \in Records /\ reg'[m].rec.name = m
      /\ Cardinality(Held(reg')) <= CAP_MAX
      /\ op = "save" => r \in Records /\ doubt[CapFile(n)] = {Whole(r)}
      /\ op = "delete" => /\ r = Nowhere
                          /\ n \notin hurt => file[CapFile(n)] = None /\ file[BakFile(n)] = None
  BY <1>0, <1>a, <1>1, FinishedIs
<1>3. /\ CapFile(n) \in Paths /\ BakFile(n) \in Paths /\ \A p : busy.name # <<p>>
  BY <1>1, <1>2, PathFacts, BusyName DEF F!NoOp
<1>4. /\ file[CapFile(n)] \in doubt[CapFile(n)] /\ file[BakFile(n)] \in doubt[BakFile(n)]
      /\ IsFiniteSet(doubt[BakFile(n)])
  BY <1>0, <1>3 DEF FilesInv
<1>5. may' \in [Caps -> SUBSET Versions] /\ \A m \in Caps \ {n} : may'[m] = may[m]
  BY <1>0, <1>1, <1>2 DEF TypeInv
<1>6. hurt' \subseteq hurt /\ hurt \subseteq hurt' \cup {n}
  BY <1>1
<1>7. TypeInv'
  <2>1. Resting \in Jobs
    BY DEF Resting, Jobs, Versions
  <2> QED BY <1>0, <1>1, <1>2, <1>5, <1>6, <2>1 DEF TypeInv, Registries, Versions
<1>8. FilesInv' /\ BusyInv' /\ JobInv'
  BY <1>0, <1>1 DEF FilesInv, BusyInv, JobInv
<1>9. RegInv'
  BY <1>2 DEF RegInv, Known
<1>10. CallInv'
  <2> SUFFICES ASSUME NEW m \in Known', prog'.ver = reg'[m].rec.ver PROVE FALSE
    BY DEF CallInv
  <2>1. reg'[m].rec \in Records
    BY <1>2 DEF Known
  <2>2. reg'[m].rec.ver # 0 /\ Nowhere.ver = 0
    BY <2>1, RecordFacts, CapabilityAssumption
  <2> QED BY <1>1, <2>2
<1>11. SourceInv'
  <2> SUFFICES ASSUME NEW m \in Known'
               PROVE  Same(m, CapFile(m))' /\ (reg'[m].from_backup => Same(m, BakFile(m))')
    BY DEF SourceInv
  <2>1. m \in Caps /\ reg'[m] # Absent
    BY DEF Known, Held
  <2>2. CASE m = n
    <3>1. op = "save"
      BY <1>2, <2>1, <2>2 DEF Listed
    <3>2. Same(m, CapFile(m))'
      BY <1>1, <1>2, <2>2, <3>1, ContentFacts DEF Same
    <3> QED BY <1>2, <2>2, <3>2
  <2>3. CASE m # n
    <3>1. m \in Known /\ reg'[m] = reg[m]
      BY <1>2, <2>1, <2>3 DEF Known, Held
    <3> QED BY <1>0, <1>1, <3>1 DEF SourceInv, Same
  <2> QED BY <2>2, <2>3
<1>12. SoundInv'
  <2> SUFFICES ASSUME NEW m \in Caps \ hurt'
               PROVE  /\ doubt[CapFile(m)] = {file[CapFile(m)]} /\ doubt[BakFile(m)] = {file[BakFile(m)]}
                      /\ file[CapFile(m)] # Whole(Rotten)
                      /\ reg'[m].rec \in may'[m]
                      /\ reg'[m].rec = LoadOne(file, m).rec
                      /\ file[CapFile(m)] = None => Parsed(file[BakFile(m)]) = Nowhere
    BY <1>1, <1>3 DEF SoundInv, Settled, Agrees
  <2>1. CASE m # n
    <3>1. m \in Caps \ hurt /\ m # job.name /\ reg'[m] = reg[m] /\ may'[m] = may[m]
      BY <1>a, <1>2, <1>5, <1>6, <2>1
    <3> QED BY <1>0, <1>3, <3>1 DEF SoundInv, Settled, Agrees
  <2>2. ASSUME m = n, n \notin hurt
        PROVE  doubt[CapFile(m)] = {file[CapFile(m)]} /\ doubt[BakFile(m)] = {file[BakFile(m)]}
    BY <1>0, <1>2, <1>3, <2>2 DEF SoundInv, Settled
  <2>3. CASE m = n /\ op = "save"
    <3>1. /\ doubt[CapFile(n)] = {Whole(r)} /\ file[CapFile(n)] = Whole(r) /\ r \in Records
      BY <1>2, <1>4, <2>3
    <3>2. doubt[BakFile(n)] = {file[BakFile(n)]}
      <4>1. CASE n \notin hurt
        BY <2>2, <2>3, <4>1
      <4>2. CASE n \in hurt
        <5>1. Cardinality(doubt[BakFile(n)]) = 1
          BY <1>1, <2>3, <4>2
        <5>2. PICK y : doubt[BakFile(n)] = {y}
          BY <1>4, <5>1, FS_Singleton
        <5> QED BY <1>4, <5>2
      <4> QED BY <4>1, <4>2
    <3>3. may'[n] = {r}
      BY <1>0, <1>1, <1>2, <3>1 DEF TypeInv
    <3>4. file[CapFile(n)] \in Cs /\ file[BakFile(n)] \in Cs
      BY <1>0, <1>3 DEF TypeInv
    <3>5. LoadOne(file, n).rec = r
      BY <3>1, <3>4, LoadOneIs
    <3>6. Whole(r) # Whole(Rotten) /\ Whole(r) # None
      BY <3>1, ContentFacts, RecordFacts
    <3> QED BY <1>2, <2>3, <3>1, <3>2, <3>3, <3>5, <3>6
  <2>4. CASE m = n /\ op = "delete"
    <3>1. n \notin hurt /\ r = Nowhere /\ file[CapFile(n)] = None /\ file[BakFile(n)] = None
      BY <1>1, <1>2, <2>4
    <3>2. /\ doubt[CapFile(n)] = {None}
      BY <2>2, <2>4, <3>1
    <3>3. may'[n] = {Nowhere}
      BY <1>0, <1>1, <1>2, <3>1, <3>2 DEF TypeInv
    <3>4. LoadOne(file, n).rec = Nowhere
      BY <3>1, ContentFacts, LoadOneIs DEF Absent
    <3> QED BY <1>2, <2>2, <2>4, <3>1, <3>3, <3>4, ContentFacts
  <2> QED BY <1>2, <2>1, <2>3, <2>4
<1>13. LinkInv'
  <2> SUFFICES ASSUME NEW m \in Caps \ hurt' PROVE ~Dead(reg', m)
    BY DEF LinkInv
  <2>1. m = job.name \/ ~Dead(reg, m)
    BY <1>0, <1>a, <1>6 DEF LinkInv
  <2>2. job # Resting
    BY <1>a, <1>1 DEF Resting
  <2> QED BY <1>0, <1>a, <1>2, <2>1, <2>2, LinksKept
<1> QED BY <1>6, <1>7, <1>8, <1>9, <1>10, <1>11, <1>12, <1>13 DEF IInv
-----------------------------------------------------------------------------
(* The next boot.                                                          *)

(* A file of a sound name holds, after a loss of power, what it held, or   *)
(* what the operation in progress was to leave in it.                      *)
LEMMA LeftIs ==
  ASSUME IInv, NEW n \in Caps \ hurt, NEW p \in {CapFile(n), BakFile(n)}, NEW c \in doubt[p]
  PROVE  \/ c = file[p]
         \/ job.todo # <<>> /\ p = Op.path /\ c = Op.to /\ n = job.name
<1>1. TypeInv /\ JobInv /\ BusyInv /\ SoundInv
  BY DEF IInv
<1>2. Settled(p)
  BY <1>1 DEF SoundInv
<1>3. CASE busy.name # <<p>>
  BY <1>2, <1>3 DEF Settled
<1>4. CASE busy.name = <<p>>
  <2>1. c = file[p] \/ c = busy.to
    BY <1>2, <1>4 DEF Settled
  <2>2. job.todo # <<>> /\ busy.name = <<Op.path>> /\ busy.to = Op.to
    BY <1>1, <1>4, BusyName DEF BusyInv, F!NoOp
  <2>3. p = Op.path
    BY <1>4, <2>2, BusyName
  <2>4. n = job.name
    BY <1>1, <2>2, <2>3, OthersApart
  <2> QED BY <2>1, <2>2, <2>3, <2>4
<1> QED BY <1>3, <1>4

(* What the boot reads for a sound name: what is registered, or what the   *)
(* job in progress was about to register; and only a delete that was cut   *)
(* short leaves a backup alone.                                            *)
LEMMA BootReads ==
  ASSUME IInv, NEW f, NEW n \in Caps \ hurt,
         f[CapFile(n)] \in doubt[CapFile(n)], f[BakFile(n)] \in doubt[BakFile(n)]
  PROVE  /\ \/ LoadOne(f, n).rec = reg[n].rec
            \/ n = job.name /\ job # Resting /\ LoadOne(f, n).rec = job.rec
         /\ f[CapFile(n)] # Whole(Rotten)
         /\ \/ job.op = "delete" /\ n = job.name
            \/ f[CapFile(n)] = None => Parsed(f[BakFile(n)]) = Nowhere
<1> DEFINE cap == CapFile(n)
           bak == BakFile(n)
<1>0. TypeInv /\ FilesInv /\ RegInv /\ JobInv /\ BusyInv /\ SoundInv
  BY DEF IInv
<1>1. /\ cap \in Paths /\ bak \in Paths /\ cap # bak
      /\ f[cap] \in Cs /\ f[bak] \in Cs /\ file[cap] \in Cs /\ file[bak] \in Cs
  BY <1>0, PathFacts DEF TypeInv
<1>2. /\ f[cap] = file[cap] \/ (job.todo # <<>> /\ cap = Op.path /\ f[cap] = Op.to /\ n = job.name)
      /\ f[bak] = file[bak] \/ (job.todo # <<>> /\ bak = Op.path /\ f[bak] = Op.to /\ n = job.name)
  BY LeftIs
<1>3. file[cap] # Whole(Rotten)
  BY <1>0 DEF SoundInv
<1>4. ASSUME f[cap] = file[cap], f[bak] = file[bak] PROVE LoadOne(f, n) = LoadOne(file, n)
  BY <1>4 DEF LoadOne
<1>5. CASE n # job.name
  <2>1. f[cap] = file[cap] /\ f[bak] = file[bak]
    BY <1>2, <1>5
  <2>2. Agrees(n)
    BY <1>0, <1>5 DEF SoundInv
  <2> QED BY <1>3, <1>4, <2>1, <2>2 DEF Agrees
<1>6. ASSUME n = job.name PROVE job # Resting
  BY <1>6, CapabilityAssumption DEF Resting
<1>7. /\ \A r \in Records : Whole(r) # Whole(Rotten)
      /\ None # Whole(Rotten) /\ Empty # Whole(Rotten) /\ None # Empty
      /\ \A r : Whole(r) # None
  BY ContentFacts, RecordFacts
<1>8. /\ f[cap] = None => LoadOne(f, n).rec = Nowhere
      /\ f[cap] = Empty => LoadOne(f, n).rec = Parsed(f[bak])
      /\ \A r \in Records : f[cap] = Whole(r) => LoadOne(f, n).rec = r
  BY <1>1, LoadOneIs, ContentFacts DEF Absent
<1>9. CASE n = job.name /\ job.op = "save" /\ SaveInv(n, job.rec)
  <2> DEFINE r == job.rec
  <2>1. r \in Records /\ SaveStage(n, r)
    BY <1>9 DEF SaveInv
  <2>2. \A p, x : /\ Clear(p).path = p /\ Clear(p).to = Empty
                  /\ Write(p, x).path = p /\ Write(p, x).to = Whole(x)
    BY DEF Clear, Write, Put, Empty, Whole
  <2>3. CASE \E x \in Held1 : Copying(n, r, x) /\ file[cap] = Whole(x) /\ x = reg[n].rec
    <3>1. PICK x \in Held1 : Copying(n, r, x) /\ file[cap] = Whole(x) /\ x = reg[n].rec
      BY <2>3
    <3>2. Op.path = bak
      BY <2>2, <3>1, ListFacts DEF Op, Copying
    <3>3. f[cap] = Whole(x) /\ x \in Records
      BY <1>1, <1>2, <1>3, <3>1, <3>2 DEF Held1
    <3> QED BY <1>7, <1>8, <3>1, <3>3
  <2>4. CASE /\ job.todo = <<Clear(CapFile(n)), Write(CapFile(n), r)>>
             /\ \/ file[CapFile(n)] = Whole(reg[n].rec) /\ file[BakFile(n)] = Whole(reg[n].rec)
                \/ /\ file[CapFile(n)] = None /\ Parsed(file[BakFile(n)]) = Nowhere
                   /\ reg[n].rec = Nowhere
    <3>1. Op.path = cap /\ Op.to = Empty
      BY <2>2, <2>4, ListFacts DEF Op
    <3>2. f[bak] = file[bak] /\ f[cap] \in {file[cap], Empty}
      BY <1>1, <1>2, <3>1
    <3>3. CASE file[cap] = Whole(reg[n].rec) /\ file[bak] = Whole(reg[n].rec)
      <4>1. reg[n].rec \in Records
        BY <1>1, <1>3, <3>3, ContentFacts
      <4>2. Parsed(f[bak]) = reg[n].rec
        BY <3>2, <3>3, <4>1, ContentFacts
      <4> QED BY <1>7, <1>8, <3>2, <3>3, <4>1, <4>2
    <3>4. CASE /\ file[cap] = None /\ Parsed(file[bak]) = Nowhere /\ reg[n].rec = Nowhere
      BY <1>7, <1>8, <3>2, <3>4
    <3> QED BY <2>4, <3>3, <3>4
  <2>5. CASE /\ job.todo = <<Write(CapFile(n), r)>>
             /\ file[CapFile(n)] = Empty /\ Parsed(file[BakFile(n)]) = reg[n].rec
    <3>1. Op.path = cap /\ Op.to = Whole(r)
      BY <2>2, <2>5, ListFacts DEF Op
    <3>2. f[bak] = file[bak] /\ f[cap] \in {Empty, Whole(r)}
      BY <1>1, <1>2, <2>5, <3>1
    <3> QED BY <1>6, <1>7, <1>8, <1>9, <2>1, <2>5, <3>2
  <2>6. CASE job.todo = <<>> /\ doubt[CapFile(n)] = {Whole(r)}
    BY <1>6, <1>7, <1>8, <1>9, <2>1, <2>6
  <2> QED BY <2>1, <2>3, <2>4, <2>5, <2>6 DEF SaveStage
<1>10. CASE n = job.name /\ job.op = "delete" /\ job.rec = Nowhere /\ DeleteInv(n)
  <2>1. DeleteStage(n)
    BY <1>10 DEF DeleteInv
  <2>2. \A p : Unlink(p).path = p /\ Unlink(p).to = None
    BY DEF Unlink
  <2>3. CASE /\ job.todo \in {<<Unlink(cap), Unlink(bak)>>, <<Unlink(cap)>>}
             /\ reg[n].rec = LoadOne(file, n).rec
    <3>1. Op.path = cap /\ Op.to = None
      BY <2>2, <2>3, ListFacts DEF Op
    <3>2. f[bak] = file[bak] /\ f[cap] \in {file[cap], None}
      BY <1>1, <1>2, <3>1
    <3> QED BY <1>3, <1>4, <1>6, <1>7, <1>8, <1>10, <2>3, <3>2
  <2>4. CASE /\ job.todo \in {<<Unlink(bak)>>, <<>>} /\ file[cap] = None
    <3>1. job.todo # <<>> => Op.path = bak
      BY <2>2, <2>4, ListFacts DEF Op
    <3>2. f[cap] = None
      BY <1>1, <1>2, <2>4, <3>1
    <3> QED BY <1>6, <1>7, <1>8, <1>10, <3>2
  <2> QED BY <2>1, <2>3, <2>4 DEF DeleteStage
<1> QED BY <1>0, <1>5, <1>6, <1>9, <1>10 DEF JobInv

(* A loss of power settles every file on one of its outcomes.              *)
LEMMA PowerLossIs ==
  ASSUME TypeInv, FilesInv, F!PowerLoss
  PROVE  /\ file' \in [Paths -> Cs] /\ doubt' \in [Paths -> SUBSET Cs]
         /\ \A p \in Paths : file'[p] \in doubt[p] /\ doubt'[p] = {file'[p]}
         /\ busy' = F!NoOp
<1> DEFINE unsure == {p \in Paths : doubt[p] # {file[p]}}
<1>1. PICK f \in [unsure -> UNION {doubt[p] : p \in unsure}] :
        /\ \A p \in unsure : f[p] \in doubt[p]
        /\ file' = [p \in Paths |-> IF p \in unsure THEN f[p] ELSE file[p]]
        /\ doubt' = [p \in Paths |-> {file'[p]}]
        /\ busy' = F!NoOp
  BY DEF F!PowerLoss
<1>2. \A p \in Paths : file'[p] = IF p \in unsure THEN f[p] ELSE file[p]
  BY <1>1
<1>3. \A p \in Paths : file'[p] \in doubt[p] /\ doubt'[p] = {file'[p]}
  BY <1>1, <1>2 DEF FilesInv
<1>4. \A p \in Paths : file'[p] \in Cs
  BY <1>3 DEF TypeInv
<1>5. file' \in [Paths -> Cs] /\ doubt' \in [Paths -> SUBSET Cs]
  BY <1>1, <1>4
<1> QED BY <1>1, <1>3, <1>5

(* What the boot registers is what it reads, or nothing.                   *)
LEMMA BootIs ==
  ASSUME TypeInv, FilesInv, Boot
  PROVE  /\ reg' \in Registries
         /\ \A n \in Caps : reg'[n] \in {Absent, LoadOne(file', n)}
         /\ Cardinality(Held(reg')) <= CAP_MAX
<1>1. file' \in [Paths -> Cs]
  BY PowerLossIs DEF Boot
<1>2. PICK seq \in Orders : reg' = Sweep(Load(file', seq), seq)
  BY DEF Boot, capability_init
<1> DEFINE R == Load(file', seq)
<1>3. R \in Registries /\ (\A n \in Caps : R[n] \in {Absent, LoadOne(file', n)})
      /\ Cardinality(Held(R)) <= CAP_MAX
  BY <1>1, LoadIs
<1> HIDE DEF R
<1>4. reg' = Sweep(R, seq)
  BY <1>2 DEF R
<1>5. reg' \in Registries /\ \A n \in Caps : reg'[n] \in {Absent, R[n]}
  BY <1>3, <1>4, SweepIs
<1>6. Held(reg') \in SUBSET Held(R)
  BY <1>5 DEF Held
<1>7. Cardinality(Held(reg')) <= Cardinality(Held(R))
  BY <1>6, HeldFinite, FS_Subset
<1>8. Cardinality(Held(reg')) \in Nat /\ Cardinality(Held(R)) \in Nat
  BY HeldFinite
<1>9. Cardinality(Held(reg')) <= CAP_MAX
  BY <1>3, <1>7, <1>8, CapabilityAssumption
<1> QED BY <1>3, <1>5, <1>9

(* The machine comes back up.                                              *)
LEMMA BootKeeps ==
  ASSUME IInv, Boot
  PROVE  IInv'
<1>0. /\ TypeInv /\ FilesInv /\ RegInv /\ JobInv /\ SoundInv
  BY DEF IInv
<1>1. /\ may' = [n \in Caps |-> {LoadOne(file', n).rec}]
      /\ prog' = Nowhere /\ job' = Resting
      /\ hurt' = hurt \cup {n \in Caps : \/ job.op = "delete" /\ n = job.name
                                    \/ reg'[n] # LoadOne(file', n)
                                    \/ Dead(reg', n)}
  BY DEF Boot, NoProg
<1>2. /\ file' \in [Paths -> Cs] /\ doubt' \in [Paths -> SUBSET Cs]
      /\ \A p \in Paths : file'[p] \in doubt[p] /\ doubt'[p] = {file'[p]}
      /\ busy' = F!NoOp
  BY <1>0, PowerLossIs DEF Boot
<1>3. /\ reg' \in Registries
      /\ \A n \in Caps : reg'[n] \in {Absent, LoadOne(file', n)}
      /\ Cardinality(Held(reg')) <= CAP_MAX
  BY <1>0, BootIs
<1>4. ASSUME NEW n \in Caps
      PROVE  /\ CapFile(n) \in Paths /\ BakFile(n) \in Paths
             /\ file'[CapFile(n)] \in Cs /\ file'[BakFile(n)] \in Cs
             /\ LoadOne(file', n) \in Entries
  BY <1>2, PathFacts, LoadOneIs
<1>5. ASSUME NEW n \in Known'
      PROVE  /\ n \in Caps /\ reg'[n] = LoadOne(file', n) /\ reg'[n] # Absent
             /\ reg'[n].rec \in Records
  <2>1. n \in Caps /\ reg'[n] # Absent
    BY DEF Known, Held
  <2>2. reg'[n] = LoadOne(file', n)
    BY <1>3, <2>1
  <2> QED BY <1>4, <2>1, <2>2, LoadOneIs
<1>6. TypeInv'
  <2>1. Resting \in Jobs
    BY DEF Resting, Jobs, Versions
  <2>2. may' \in [Caps -> SUBSET Versions]
    BY <1>1, <1>4 DEF Entries
  <2>3. hurt' \subseteq Caps /\ prog' \in Versions
    BY <1>0, <1>1 DEF TypeInv, Versions
  <2> QED BY <1>1, <1>2, <1>3, <2>1, <2>2, <2>3 DEF TypeInv, Registries
<1>7. FilesInv'
  <2> SUFFICES ASSUME NEW p \in Paths
               PROVE  /\ IsFiniteSet(doubt'[p]) /\ file'[p] \in doubt'[p]
                      /\ \A c \in doubt'[p] : Parsed(c) # Nowhere => Parsed(c).name = p[1]
    BY DEF FilesInv
  <2>1. IsFiniteSet({file'[p]})
    BY FS_Singleton
  <2>2. doubt'[p] = {file'[p]} /\ file'[p] \in doubt[p]
    BY <1>2
  <2>3. Parsed(file'[p]) # Nowhere => Parsed(file'[p]).name = p[1]
    BY <1>0, <2>2 DEF FilesInv
  <2> QED BY <2>1, <2>2, <2>3
<1>8. BusyInv' /\ JobInv'
  BY <1>1, <1>2 DEF BusyInv, JobInv
<1>9. ASSUME NEW n \in Known'
      PROVE  /\ reg'[n].rec.name = n /\ Same(n, CapFile(n))'
             /\ reg'[n].from_backup => Same(n, BakFile(n))'
  <2> DEFINE c == file'[CapFile(n)]
             b == file'[BakFile(n)]
             e == LoadOne(file', n)
  <2>1. /\ n \in Caps /\ reg'[n] = e /\ e # Absent /\ e.rec \in Records /\ c \in Cs /\ b \in Cs
        /\ doubt'[CapFile(n)] = {c} /\ doubt'[BakFile(n)] = {b}
        /\ CapFile(n) \in Paths /\ BakFile(n) \in Paths
        /\ CapFile(n)[1] = n /\ BakFile(n)[1] = n
    BY <1>2, <1>4, <1>5, PathFacts
  <2>2. /\ Parsed(c) # Nowhere => Parsed(c).name = n
        /\ Parsed(b) # Nowhere => Parsed(b).name = n
    BY <1>7, <2>1 DEF FilesInv
  <2>3. e.rec # Nowhere /\ e.rec.ver # 0 /\ Nowhere.ver = 0
    BY <2>1, RecordFacts, CapabilityAssumption
  <2>4. CASE Parsed(c) # Nowhere
    <3>1. Parsed(c) \in Records /\ c = Whole(Parsed(c))
      BY <2>1, <2>4, ParsedIs
    <3>2. e = [rec |-> Parsed(c), from_backup |-> FALSE]
      BY <2>1, <3>1, LoadOneIs
    <3>3. e.rec = Parsed(c) /\ e.from_backup = FALSE
      BY <3>2
    <3> HIDE DEF e, c, b
    <3> QED BY <2>1, <2>2, <2>4, <3>3 DEF Same
  <2>5. CASE Parsed(c) = Nowhere
    <3>1. c # None
      BY <2>1, LoadOneIs
    <3>2. e.rec = Parsed(b)
      BY <2>1, <2>5, <3>1, LoadOneIs
    <3> HIDE DEF e, c, b
    <3> QED BY <2>1, <2>2, <2>3, <2>5, <3>2 DEF Same
  <2> QED BY <2>4, <2>5
<1>10. RegInv' /\ SourceInv'
  BY <1>3, <1>5, <1>9 DEF RegInv, SourceInv, Known
<1>11. CallInv'
  <2> SUFFICES ASSUME NEW n \in Known', prog'.ver = reg'[n].rec.ver PROVE FALSE
    BY DEF CallInv
  <2>1. reg'[n].rec.ver # 0 /\ Nowhere.ver = 0
    BY <1>5, RecordFacts, CapabilityAssumption
  <2> QED BY <1>1, <2>1
<1>12. SoundInv'
  <2> SUFFICES ASSUME NEW n \in Caps \ hurt'
               PROVE  /\ Settled(CapFile(n))' /\ Settled(BakFile(n))'
                      /\ file'[CapFile(n)] # Whole(Rotten)
                      /\ reg'[n].rec \in may'[n]
                      /\ reg'[n].rec = LoadOne(file', n).rec
                      /\ file'[CapFile(n)] = None => Parsed(file'[BakFile(n)]) = Nowhere
    BY DEF SoundInv, Agrees
  <2>1. n \in Caps \ hurt /\ ~(job.op = "delete" /\ n = job.name) /\ reg'[n] = LoadOne(file', n)
    BY <1>1
  <2>2. \A p : busy'.name # <<p>>
    BY <1>2, BusyName DEF F!NoOp
  <2>3. Settled(CapFile(n))' /\ Settled(BakFile(n))'
    BY <1>2, <1>4, <2>2 DEF Settled
  <2>4. file'[CapFile(n)] \in doubt[CapFile(n)] /\ file'[BakFile(n)] \in doubt[BakFile(n)]
    BY <1>2, <1>4
  <2>5. /\ file'[CapFile(n)] # Whole(Rotten)
        /\ file'[CapFile(n)] = None => Parsed(file'[BakFile(n)]) = Nowhere
    BY <2>1, <2>4, BootReads
  <2> QED BY <1>1, <2>1, <2>3, <2>5
<1>13. LinkInv'
  BY <1>1 DEF LinkInv
<1> QED BY <1>6, <1>7, <1>8, <1>10, <1>11, <1>12, <1>13 DEF IInv

(* If nothing has gone wrong before, what is on the disk fits into the     *)
(* registry and calls nothing that is not there, so the boot registers all *)
(* of it, whatever the loss of power interrupted.                          *)
LEMMA BootResolves ==
  ASSUME IInv, Boot, hurt = {}
  PROVE  \A n \in Caps : reg'[n] = LoadOne(file', n) /\ ~Dead(reg', n)
<1>0. /\ TypeInv /\ FilesInv /\ RegInv /\ JobInv /\ SoundInv /\ LinkInv
  BY DEF IInv
<1>1. /\ file' \in [Paths -> Cs] /\ \A p \in Paths : file'[p] \in doubt[p]
  BY <1>0, PowerLossIs DEF Boot
<1>2. PICK seq \in Orders : reg' = Sweep(Load(file', seq), seq)
  BY DEF Boot, capability_init
<1>3. PICK f : f = file'
  OBVIOUS
<1> DEFINE E == [n \in Caps |-> LoadOne(f, n)]
           L == {n \in Caps : LoadOne(f, n) # Absent}
<1>4. ASSUME NEW n \in Caps
      PROVE  /\ f[CapFile(n)] \in doubt[CapFile(n)] /\ f[BakFile(n)] \in doubt[BakFile(n)]
             /\ LoadOne(f, n) \in Entries /\ (LoadOne(f, n).rec = Nowhere <=> LoadOne(f, n) = Absent)
  <2>1. CapFile(n) \in Paths /\ BakFile(n) \in Paths
    BY PathFacts
  <2>2. f[CapFile(n)] \in Cs /\ f[BakFile(n)] \in Cs
    BY <1>1, <1>3, <2>1
  <2>3. Absent.rec = Nowhere
    BY DEF Absent
  <2> QED BY <1>1, <1>3, <2>1, <2>2, <2>3, LoadOneIs
<1>5. E \in Registries /\ Listed(E) /\ \A n \in Caps : E[n] = LoadOne(f, n)
  BY <1>4 DEF Registries, Listed
<1>6. ASSUME NEW n \in Caps
      PROVE  \/ E[n].rec = reg[n].rec
             \/ n = job.name /\ job # Resting /\ E[n].rec = job.rec
  BY <1>4, <1>5, BootReads
<1>7. Held(E) = L /\ Held(E) \subseteq Caps
  BY <1>5 DEF Held
<1> HIDE DEF E
<1>8. Listed(reg)
  BY <1>0, RegListed
<1>9. /\ IsFiniteSet(Known) /\ Cardinality(Known) \in Nat /\ Cardinality(Held(E)) \in Nat
      /\ Cardinality(Known) <= CAP_MAX /\ CAP_MAX \in Nat
  BY <1>0, HeldFinite, CapabilityAssumption DEF Known, RegInv
<1>10. (\A n \in Caps : ~Dead(E, n)) /\ Cardinality(Held(E)) <= CAP_MAX
  <2>1. CASE \A n \in Caps : E[n].rec = reg[n].rec
    <3>1. \A n \in Caps : ~Dead(E, n)
      BY <1>0, <1>5, <1>8, <2>1, SameLinks DEF LinkInv
    <3>2. Held(E) = Known
      BY <1>5, <1>8, <2>1 DEF Listed, Known, Held
    <3> QED BY <1>9, <3>1, <3>2
  <2>2. CASE ~(\A n \in Caps : E[n].rec = reg[n].rec)
    <3>1. job.name \in Caps /\ job # Resting /\ E[job.name].rec = job.rec
      BY <1>6, <2>2
    <3>2. \A n \in Caps \ {job.name} : E[n].rec = reg[n].rec
      BY <1>6
    <3>3. \A n \in Caps : ~Dead(E, n)
      BY <1>0, <1>5, <3>1, <3>2, LinksKept DEF LinkInv
    <3>4. HasSlot(job.name)
      BY <1>0, <3>1 DEF JobInv, SaveInv, DeleteInv, HasSlot
    <3>5. Held(E) \in SUBSET (Known \cup {job.name})
      BY <1>5, <1>8, <3>2 DEF Listed, Known, Held
    <3>6. CASE job.name \in Known
      <4>1. Held(E) \in SUBSET Known
        BY <3>5, <3>6
      <4>2. Cardinality(Held(E)) <= Cardinality(Known)
        BY <1>9, <4>1, FS_Subset
      <4> QED BY <1>9, <3>3, <4>2
    <3>7. CASE job.name \notin Known
      <4>1. IsFiniteSet(Known \cup {job.name})
            /\ Cardinality(Known \cup {job.name}) = Cardinality(Known) + 1
        BY <1>9, <3>7, FS_AddElement
      <4>2. Cardinality(Held(E)) <= Cardinality(Known \cup {job.name})
        BY <3>5, <4>1, FS_Subset
      <4>3. Cardinality(Known) < CAP_MAX
        BY <3>4, <3>7 DEF HasSlot
      <4> QED BY <1>9, <3>3, <4>1, <4>2, <4>3
    <3> QED BY <3>6, <3>7
  <2> QED BY <2>1, <2>2
<1>11. Load(f, seq) \in Registries /\ \A n \in Caps : Load(f, seq)[n] = LoadOne(f, n)
  BY <1>1, <1>3, <1>7, <1>10, LoadIs
<1>12. Load(f, seq) = E
  BY <1>5, <1>11 DEF Registries
<1>13. reg' = E
  BY <1>2, <1>3, <1>5, <1>10, <1>12, SweepIs
<1> QED BY <1>3, <1>5, <1>10, <1>13

-----------------------------------------------------------------------------
(* The theorems.                                                           *)

(* An empty store and an empty registry.                                   *)
LEMMA InitInv == Init => IInv
<1> SUFFICES ASSUME Init PROVE IInv
  OBVIOUS
<1>1. /\ file = [p \in Paths |-> None] /\ doubt = [p \in Paths |-> {None}] /\ busy = F!NoOp
      /\ reg = [n \in Caps |-> Absent] /\ prog = Nowhere /\ job = Resting
      /\ may = [n \in Caps |-> {Nowhere}] /\ hurt = {}
  BY DEF Init, NoProg, None
<1>2. None \in Cs /\ Parsed(None) = Nowhere /\ \A r : Whole(r) # None
  BY ContentFacts
<1>3. Absent \in Entries /\ Absent.rec = Nowhere /\ Resting \in Jobs /\ Nowhere \in Versions
  BY DEF Absent, Entries, Resting, Jobs, Versions
<1>4. TypeInv
  BY <1>1, <1>2, <1>3 DEF TypeInv
<1>5. Known = {}
  BY <1>1 DEF Known, Held
<1>6. FilesInv
  <2>1. IsFiniteSet({None})
    BY FS_Singleton
  <2> QED BY <1>1, <1>2, <2>1 DEF FilesInv
<1>7. RegInv /\ SourceInv /\ CallInv
  <2>1. Cardinality({}) = 0
    BY FS_EmptySet
  <2> QED BY <1>5, <2>1, CapabilityAssumption DEF RegInv, SourceInv, CallInv
<1>8. BusyInv /\ JobInv
  BY <1>1 DEF BusyInv, JobInv
<1>9. SoundInv
  <2> SUFFICES ASSUME NEW n \in Caps
               PROVE  /\ Settled(CapFile(n)) /\ Settled(BakFile(n))
                      /\ file[CapFile(n)] # Whole(Rotten) /\ reg[n].rec \in may[n] /\ Agrees(n)
    BY DEF SoundInv
  <2>1. CapFile(n) \in Paths /\ BakFile(n) \in Paths
    BY PathFacts
  <2>2. file[CapFile(n)] = None /\ file[BakFile(n)] = None
    BY <1>1, <2>1
  <2>3. \A p : busy.name # <<p>>
    BY <1>1, BusyName DEF F!NoOp
  <2>4. Settled(CapFile(n)) /\ Settled(BakFile(n))
    BY <1>1, <2>1, <2>3 DEF Settled
  <2>5. LoadOne(file, n) = Absent
    BY <1>2, <2>2, LoadOneIs
  <2> QED BY <1>1, <1>2, <1>3, <2>2, <2>4, <2>5 DEF Agrees
<1>10. LinkInv
  BY <1>1, <1>3, RecordFacts DEF LinkInv, Dead, IsCompose
<1> QED BY <1>4, <1>6, <1>7, <1>8, <1>9, <1>10 DEF IInv

(* Every action of the store keeps the invariant.                          *)
LEMMA NextKeeps == IInv /\ [Next]_vars => IInv'
<1> SUFFICES ASSUME IInv, [Next]_vars PROVE IInv'
  OBVIOUS
<1>1. ASSUME NEW n \in Caps, NEW t \in Texts, Save(n, t) PROVE IInv'
  BY <1>1, SaveKeeps
<1>2. ASSUME NEW n \in Caps, Revert(n) PROVE IInv'
  BY <1>2, RevertKeeps
<1>3. ASSUME NEW n \in Caps, Delete(n) PROVE IInv'
  BY <1>3, DeleteKeeps
<1>4. ASSUME NEW n \in Caps, Call(n) PROVE IInv'
  BY <1>4, CallKeeps
<1>5. ASSUME NEW p \in Paths, Rot(p) PROVE IInv'
  BY <1>5, RotKeeps
<1>6. ASSUME NEW p \in Paths, Reread(p) PROVE IInv'
  BY <1>6, RereadKeeps
<1>7. CASE Issue
  BY <1>7, IssueKeeps
<1>8. CASE Complete
  BY <1>8, CompleteKeeps
<1>9. CASE OpFails
  BY <1>9, OpFailsKeeps
<1>9a. CASE RecordTooLong
  BY <1>9a, RecordTooLongKeeps
<1>10. CASE Finish
  BY <1>10, FinishKeeps
<1>11. CASE Boot
  BY <1>11, BootKeeps
<1>12. CASE UNCHANGED vars
  BY <1>12, ZenonT(60) DEF vars, IInv, TypeInv, FilesInv, RegInv, SourceInv, Same, CallInv, BusyInv, Op,
     JobInv, SaveInv, SaveStage, Copying, DeleteInv, DeleteStage, HasSlot, StepResolves,
     KeepsCallers, BreaksCallers, SoundInv, Settled, Agrees, LinkInv, Known
<1> QED BY <1>1, <1>2, <1>3, <1>4, <1>5, <1>6, <1>7, <1>8, <1>9, <1>9a, <1>10, <1>11,
           <1>12 DEF Next

(* The invariant of core/capability.c: how the registry, the two files of  *)
(* every name and the job in progress belong together at every step.       *)
THEOREM Inductive == Spec => []IInv
BY InitInv, NextKeeps, PTL DEF Spec

(* Only the end of a job and a boot change the registry, and only a boot   *)
(* counts as a loss of power.                                              *)
LEMMA WhoRegisters ==
  ASSUME [Next]_vars
  PROVE  Boot \/ (crashes' = crashes /\ (Finish \/ reg' = reg))
BY DEF Next, vars, Save, Revert, Delete, Call, Rot, Reread, Issue, Complete, OpFails, Failed, RecordTooLong,
       Finish, Register

(* capability_save and capability_delete ("the registry never advertises   *)
(* something the store does not hold"): between jobs the record of every   *)
(* registered name, unless something has gone wrong with it, is on the     *)
(* disk for good, in its record file or in its backup.                     *)
THEOREM RegistryStored == Spec => []RegistryIsStored
<1>1. IInv => RegistryIsStored
  <2> SUFFICES ASSUME IInv, job = Resting, NEW n \in Known \ hurt
               PROVE  \/ doubt[CapFile(n)] = {Whole(reg[n].rec)}
                      \/ doubt[BakFile(n)] = {Whole(reg[n].rec)}
    BY DEF RegistryIsStored, Whole
  <2> DEFINE c == file[CapFile(n)]
             b == file[BakFile(n)]
  <2>0. TypeInv /\ RegInv /\ BusyInv /\ SoundInv
    BY DEF IInv
  <2>1. n \in Caps \ hurt /\ n # job.name /\ reg[n].rec \in Records
    BY <2>0, AtRest, KnownIs, CapabilityAssumption DEF Known, Held
  <2>2. Settled(CapFile(n)) /\ Settled(BakFile(n)) /\ reg[n].rec = LoadOne(file, n).rec
    BY <2>0, <2>1 DEF SoundInv, Agrees
  <2>3. doubt[CapFile(n)] = {c} /\ doubt[BakFile(n)] = {b}
    BY <2>0, <2>2, AtRest DEF Settled
  <2>4. c \in Cs /\ b \in Cs
    BY <2>0, <2>1, PathFacts DEF TypeInv
  <2>5. reg[n].rec # Nowhere /\ Absent.rec = Nowhere
    BY <2>1, RecordFacts DEF Absent
  <2>6. CASE Parsed(c) # Nowhere
    <3>1. Parsed(c) \in Records /\ c = Whole(Parsed(c))
      BY <2>4, <2>6, ParsedIs
    <3>2. LoadOne(file, n) = [rec |-> Parsed(c), from_backup |-> FALSE]
      BY <2>4, <3>1, LoadOneIs
    <3> QED BY <2>2, <2>3, <3>1, <3>2
  <2>7. CASE Parsed(c) = Nowhere
    <3>1. c # None
      BY <2>2, <2>4, <2>5, LoadOneIs
    <3>2. LoadOne(file, n).rec = Parsed(b)
      BY <2>4, <2>7, <3>1, LoadOneIs
    <3>3. b = Whole(Parsed(b))
      BY <2>2, <2>4, <2>5, <3>2, ParsedIs
    <3> QED BY <2>2, <2>3, <3>2, <3>3
  <2> QED BY <2>6, <2>7
<1> QED BY <1>1, Inductive, PTL

(* program_load: between jobs a loaded program that carries the name and   *)
(* the version of a registered capability was assembled from its record.   *)
THEOREM CallsRunRegistered == Spec => []CallRunsRegistered
<1>1. IInv => CallRunsRegistered
  BY DEF IInv, CallInv, CallRunsRegistered
<1> QED BY <1>1, Inductive, PTL

(* capability_init after any loss of power ("THE ORDER BELOW IS THE        *)
(* CONSISTENCY GUARANTEE"): for a name that nothing has gone wrong with it *)
(* reads the version registered last or the one being saved.               *)
THEOREM BootsKeepVersions == Spec => BootKeepsVersions
<1>1. IInv /\ [Next]_vars =>
        [crashes' # crashes => \A n \in Caps \ hurt : LoadOne(file', n).rec \in may[n]]_vars
  <2> SUFFICES ASSUME IInv, [Next]_vars, crashes' # crashes, NEW n \in Caps \ hurt
               PROVE  LoadOne(file', n).rec \in may[n]
    OBVIOUS
  <2>0. TypeInv /\ FilesInv /\ JobInv /\ SoundInv
    BY DEF IInv
  <2>1. Boot
    BY WhoRegisters
  <2>2. \A p \in Paths : file'[p] \in doubt[p]
    BY <2>0, <2>1, PowerLossIs DEF Boot
  <2>3. file'[CapFile(n)] \in doubt[CapFile(n)] /\ file'[BakFile(n)] \in doubt[BakFile(n)]
    BY <2>2, PathFacts
  <2>4. \/ LoadOne(file', n).rec = reg[n].rec
        \/ n = job.name /\ job # Resting /\ LoadOne(file', n).rec = job.rec
    BY <2>3, BootReads
  <2>5. reg[n].rec \in may[n]
    BY <2>0 DEF SoundInv
  <2>6. ASSUME n = job.name, job # Resting PROVE job.rec \in may[n]
    BY <2>0, <2>6 DEF JobInv, SaveInv, DeleteInv
  <2> QED BY <2>4, <2>5, <2>6
<1> QED BY <1>1, Inductive, PTL DEF Spec, BootKeepsVersions

(* capability_save, capability_delete and the two loops of                 *)
(* capability_init: as long as nothing has gone wrong with any name, every *)
(* step leaves every registered composition with something to call, and a  *)
(* boot registers everything that it reads.                                *)
THEOREM StepsAlwaysResolve == Spec => StepsResolve
<1>1. IInv /\ [Next]_vars =>
        [hurt = {} => \A n \in Caps :
           /\ ~Dead(reg', n)
           /\ crashes' # crashes => reg'[n] = LoadOne(file', n)]_vars
  <2> SUFFICES ASSUME IInv, [Next]_vars, hurt = {}, NEW n \in Caps
               PROVE  ~Dead(reg', n) /\ (crashes' # crashes => reg'[n] = LoadOne(file', n))
    OBVIOUS
  <2>1. CASE Boot
    BY <2>1, BootResolves
  <2>2. CASE crashes' = crashes /\ Finish
    <3>1. IInv' /\ hurt' = {}
      BY <2>2, FinishKeeps
    <3> QED BY <2>2, <3>1 DEF IInv, LinkInv
  <2>3. CASE crashes' = crashes /\ reg' = reg
    BY <2>3 DEF IInv, LinkInv
  <2> QED BY <2>1, <2>2, <2>3, WhoRegisters
<1> QED BY <1>1, Inductive, PTL DEF Spec, StepsResolve
=============================================================================
