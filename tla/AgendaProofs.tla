---------------------------- MODULE AgendaProofs ----------------------------
(***************************************************************************)
(* What is proved of Agenda, for every table, every document and every     *)
(* number of power cycles: an item that killed the machine is not started  *)
(* by the boot pass again, one that did not is not retired for it, and a   *)
(* retirement announced as for good outlives the boot.                     *)
(*                                                                         *)
(* Two of the three depend on what an action may do to the agenda while it *)
(* runs. Saving the running item drops its marker, and removing an earlier *)
(* one moves the table under run_item's pointer; each theorem says which   *)
(* of the two it excludes.                                                 *)
(***************************************************************************)
EXTENDS Agenda, LoopLemmas, SequenceTheorems

Items == [name : Names, when : Whens, max : Nat \ {0}, enabled : BOOLEAN,
          attempting : BOOLEAN, runs : Nat, failures : Nat, due : BOOLEAN]
Lines == [name : Names, when : Whens, max : Nat \ {0}, enabled : BOOLEAN,
          attempting : BOOLEAN]
Runs  == [slot : Nat, name : Names \cup {""}, by : {"", "boot", "tick", "now"},
          marked : BOOLEAN]

(* agenda_find: a name is in the table, or in the document, once.          *)
Distinct(t) == \A i, j \in DOMAIN t : t[i].name = t[j].name => i = j

TypeInv ==
  /\ power \in BOOLEAN /\ lost \in BOOLEAN
  /\ g_runs \in Nat /\ bootAt \in Nat
  /\ g_item \in Seq(Items) /\ Distinct(g_item)
  /\ store \in Seq(Lines) /\ Distinct(store)
  /\ run \in Runs
  /\ run.slot = 0 => run = NoRun
  /\ ~power => run = NoRun

(* The items of a table named in N are off; those of a document are off or *)
(* will be when they are loaded; the one named n carries the marker.       *)
Silenced(t, N) == \A i \in DOMAIN t : t[i].name \in N => ~t[i].enabled
Harmless(s, N) == \A i \in DOMAIN s : s[i].name \in N /\ s[i].enabled => s[i].attempting
Marked(t, n)   == \A i \in DOMAIN t : t[i].name = n => t[i].attempting

(* What was announced as stopped is off, in memory and on disk.            *)
StopInv == Silenced(g_item, stopped) /\ Silenced(store, stopped)

(* What killed the machine is off, or marked on disk; so is what would be  *)
(* taken for a killer if the machine went down now.                        *)
KillInv ==
  /\ Silenced(g_item, killers)
  /\ Harmless(store, killers)
  /\ run.marked => Marked(g_item, run.name) /\ Marked(store, run.name)

(* A marker in memory is that of the run in flight, and so is a marker on  *)
(* disk when the document is up to date; once the machine is down it is    *)
(* that of a killer.                                                       *)
ClearInv ==
  /\ \A i \in DOMAIN g_item :
       g_item[i].attempting => run.slot = i /\ run.marked /\ run.name = g_item[i].name
  /\ ~lost => \A i \in DOMAIN store :
       store[i].attempting =>
         IF power THEN run.marked /\ run.name = store[i].name
                  ELSE store[i].name \in killers

(* What a step keeps, given what its action may edit.                      *)
Kept ==
  /\ TypeInv'
  /\ StopInv'
  /\ "save" \notin BodyEdits /\ KillInv => KillInv'
  /\ "remove" \notin BodyEdits /\ ClearInv => ClearInv'

-----------------------------------------------------------------------------
(* Tables and documents.                                                   *)

(* A table is indexed from 1 and holds items.                              *)
LEMMA TableFacts ==
  ASSUME NEW S, NEW t \in Seq(S)
  PROVE  /\ Len(t) \in Nat /\ DOMAIN t = 1..Len(t)
         /\ \A i \in DOMAIN t : t[i] \in S
OBVIOUS

(* Overwriting a slot with an item of the same name.                       *)
LEMMA ReplacedIs ==
  ASSUME NEW t \in Seq(Items), Distinct(t), NEW k \in DOMAIN t, NEW x \in Items,
         x.name = t[k].name
  PROVE  /\ [t EXCEPT ![k] = x] \in Seq(Items) /\ Distinct([t EXCEPT ![k] = x])
         /\ DOMAIN [t EXCEPT ![k] = x] = DOMAIN t
         /\ [t EXCEPT ![k] = x][k] = x
         /\ \A i \in DOMAIN t \ {k} : [t EXCEPT ![k] = x][i] = t[i]
<1> DEFINE u == [t EXCEPT ![k] = x]
<1>1. u \in Seq(Items)
  OBVIOUS
<1>2. DOMAIN u = DOMAIN t /\ u[k] = x /\ \A i \in DOMAIN t \ {k} : u[i] = t[i]
  OBVIOUS
<1> HIDE DEF u
<1>3. \A i \in DOMAIN u : u[i].name = t[i].name
  BY <1>2
<1>4. Distinct(u)
  BY <1>2, <1>3 DEF Distinct
<1>5. u \in Seq(Items) /\ Distinct(u) /\ DOMAIN u = DOMAIN t /\ u[k] = x
      /\ \A i \in DOMAIN t \ {k} : u[i] = t[i]
  BY <1>1, <1>2, <1>4
<1> QED BY <1>5 DEF u

(* render writes down one line per item.                                   *)
LEMMA RenderedIs ==
  ASSUME NEW t \in Seq(Items), Distinct(t)
  PROVE  /\ Rendered(t) \in Seq(Lines) /\ Distinct(Rendered(t))
         /\ DOMAIN Rendered(t) = DOMAIN t
         /\ \A i \in DOMAIN t : /\ Rendered(t)[i].name = t[i].name
                                /\ Rendered(t)[i].enabled = t[i].enabled
                                /\ Rendered(t)[i].attempting = t[i].attempting
<1> DEFINE r == Rendered(t)
<1>1. Len(t) \in Nat /\ DOMAIN t = 1..Len(t) /\ \A i \in DOMAIN t : t[i] \in Items
  BY TableFacts
<1>2. /\ DOMAIN r = DOMAIN t
      /\ \A i \in DOMAIN t : r[i] = [name |-> t[i].name, when |-> t[i].when, max |-> t[i].max,
                                     enabled |-> t[i].enabled, attempting |-> t[i].attempting]
  BY DEF Rendered
<1>3. r = [i \in 1..Len(t) |-> r[i]]
  BY <1>1 DEF Rendered
<1> HIDE DEF r
<1>4. \A i \in DOMAIN t : /\ r[i] \in Lines /\ r[i].name = t[i].name
                          /\ r[i].enabled = t[i].enabled /\ r[i].attempting = t[i].attempting
  BY <1>1, <1>2 DEF Items, Lines
<1>5. r \in Seq(Lines)
  BY <1>1, <1>3, <1>4
<1>6. Distinct(r)
  BY <1>2, <1>4 DEF Distinct
<1> QED BY <1>2, <1>4, <1>5, <1>6 DEF r

(* Document d is that of table t, or a part of it.                         *)
Written(d, t) ==
  \A i \in DOMAIN d : /\ i \in DOMAIN t
                      /\ d[i].name = t[i].name
                      /\ d[i].enabled = t[i].enabled
                      /\ d[i].attempting = t[i].attempting

(* agenda_flush leaves the table's rendering, the old document or nothing; *)
(* whatever was off in both stays off, and whatever was marked, marked.    *)
LEMMA FlushIs ==
  ASSUME NEW s \in Seq(Lines), Distinct(s), NEW t \in Seq(Items), Distinct(t),
         NEW o \in FlushResults, NEW d, d = agenda_flush(s, t, o)
  PROVE  /\ d \in Seq(Lines) /\ Distinct(d)
         /\ \A N : Silenced(t, N) /\ Silenced(s, N) => Silenced(d, N)
         /\ \A N : Silenced(t, N) /\ Harmless(s, N) => Harmless(d, N)
         /\ \A n : Marked(t, n) /\ Marked(s, n) => Marked(d, n)
         /\ Succeeds(o) => Written(d, t)
<1>1. CASE o = "ok"
  <2>1. d = Rendered(t)
    BY <1>1 DEF agenda_flush
  <2>2. Written(d, t)
    BY <2>1, RenderedIs DEF Written
  <2> QED BY <2>1, <2>2, RenderedIs DEF Silenced, Harmless, Marked
<1>2. CASE o = "noopen"
  <2>1. d = s /\ ~Succeeds(o)
    BY <1>2 DEF agenda_flush, Succeeds
  <2> QED BY <2>1
<1>3. CASE o \in {"short", "tail"}
  <2>1. d = <<>>
    BY <1>3 DEF agenda_flush
  <2>2. DOMAIN d = {} /\ d \in Seq(Lines)
    BY <2>1
  <2> QED BY <2>2 DEF Silenced, Harmless, Marked, Distinct, Written
<1> QED BY <1>1, <1>2, <1>3 DEF FlushResults

-----------------------------------------------------------------------------
(* The steps. Each lemma names the state after it.                         *)

(* Kept, from what is known of the state after the step.                   *)
LEMMA KeptFrom ==
  ASSUME TypeInv',
         Silenced(g_item', stopped'), Silenced(store', stopped'),
         "save" \notin BodyEdits /\ KillInv =>
           /\ Silenced(g_item', killers') /\ Harmless(store', killers')
           /\ run'.marked => Marked(g_item', run'.name) /\ Marked(store', run'.name),
         "remove" \notin BodyEdits /\ ClearInv => ClearInv'
  PROVE  Kept
BY DEF Kept, StopInv, KillInv, Silenced, Harmless, Marked

(* A slot overwritten in memory only, and not with more than it had.       *)
LEMMA TouchedKeeps ==
  ASSUME TypeInv, StopInv, NEW k \in DOMAIN g_item, NEW x \in Items,
         x.name = g_item[k].name, x.attempting = g_item[k].attempting,
         x.enabled => g_item[k].enabled,
         g_item' = [g_item EXCEPT ![k] = x], power' = power, told' = told,
         bootAt' \in Nat, UNCHANGED <<store, lost, run, g_runs>>
  PROVE  Kept
<1>1. g_item \in Seq(Items) /\ Distinct(g_item) /\ stopped' = stopped /\ killers' = killers
  BY DEF TypeInv, told
<1>2. /\ g_item' \in Seq(Items) /\ Distinct(g_item') /\ DOMAIN g_item' = DOMAIN g_item
      /\ g_item'[k] = x /\ \A i \in DOMAIN g_item \ {k} : g_item'[i] = g_item[i]
  BY <1>1, ReplacedIs
<1>3. \A i \in DOMAIN g_item : /\ g_item'[i].name = g_item[i].name
                               /\ g_item'[i].attempting = g_item[i].attempting
                               /\ g_item'[i].enabled => g_item[i].enabled
  BY <1>2
<1>4. TypeInv'
  BY <1>2 DEF TypeInv, Distinct
<1>5. \A N : Silenced(g_item, N) => Silenced(g_item', N)
  BY <1>2, <1>3 DEF Silenced
<1>6. \A n : Marked(g_item, n) => Marked(g_item', n)
  BY <1>2, <1>3 DEF Marked
<1>7. ClearInv => ClearInv'
  BY <1>1, <1>2, <1>3 DEF ClearInv
<1> QED BY <1>1, <1>4, <1>5, <1>6, <1>7, KeptFrom DEF StopInv, KillInv

(* run_item that finds this boot's actions used up.                        *)
LEMMA ExhaustedKeeps ==
  ASSUME TypeInv, StopInv, NEW k \in DOMAIN g_item,
         Exhausted(k), power' = power, told' = told, bootAt' \in Nat
  PROVE  Kept
<1> DEFINE y == g_item[k]
           x == [y EXCEPT !.enabled = FALSE]
<1>1. /\ g_item' = [g_item EXCEPT ![k] = x] /\ UNCHANGED <<store, lost, run, g_runs>>
      /\ y \in Items
  BY TableFacts DEF Exhausted, TypeInv
<1> HIDE DEF y
<1>2. x \in Items /\ x.name = y.name /\ x.attempting = y.attempting /\ x.enabled = FALSE
  BY <1>1 DEF Items
<1> HIDE DEF x
<1> QED BY <1>1, <1>2, TouchedKeeps DEF y

(* next_ms is reached: the item is due, which no invariant speaks of.      *)
LEMMA ElapseKeeps ==
  ASSUME TypeInv, StopInv, Elapse
  PROVE  Kept
<1>1. PICK k \in DOMAIN g_item :
        /\ g_item' = [g_item EXCEPT ![k].due = TRUE] /\ power' = power /\ told' = told
        /\ bootAt' = bootAt /\ UNCHANGED <<store, lost, run, g_runs>>
  BY DEF Elapse
<1> DEFINE y == g_item[k]
           x == [y EXCEPT !.due = TRUE]
<1>2. g_item' = [g_item EXCEPT ![k] = x] /\ y \in Items /\ bootAt' \in Nat
  BY <1>1, TableFacts DEF TypeInv
<1> HIDE DEF y
<1>3. x \in Items /\ x.name = y.name /\ x.attempting = y.attempting /\ x.enabled = y.enabled
  BY <1>2 DEF Items
<1> HIDE DEF x
<1> QED BY <1>1, <1>2, <1>3, TouchedKeeps DEF y

(* run_item up to the guard: the run is counted and, for a boot item, the  *)
(* marker is on disk before it is relied on.                               *)
LEMMA BeginKeeps ==
  ASSUME TypeInv, StopInv, power, run.slot = 0, NEW k \in DOMAIN g_item,
         NEW by \in {"boot", "tick", "now"},
         Begin(k, by), power' = power, told' = told, bootAt' \in Nat
  PROVE  Kept /\ run'.slot = k /\ run'.name = g_item[k].name /\ run'.by = by
<1> DEFINE c == [g_item[k] EXCEPT !.runs = @ + 1]
           m == [c EXCEPT !.attempting = TRUE]
           T == [g_item EXCEPT ![k] = c]
           M == [g_item EXCEPT ![k] = m]
<1>1. /\ g_item \in Seq(Items) /\ Distinct(g_item) /\ g_item[k] \in Items /\ run = NoRun
      /\ store \in Seq(Lines) /\ Distinct(store) /\ k \in Nat /\ k # 0
      /\ g_runs \in Nat /\ lost \in BOOLEAN /\ power = TRUE
  BY TableFacts DEF TypeInv
<1>2. /\ g_runs' = g_runs + 1 /\ wanted' = wanted /\ stopped' = stopped /\ killers' = killers
      /\ \/ /\ g_item[k].when = "boot"
            /\ \E o \in FlushResults :
                 /\ store' = agenda_flush(store, M, o) /\ lost' = ~Succeeds(o)
                 /\ g_item' = IF Succeeds(o) THEN M ELSE T
                 /\ run' = [slot |-> k, name |-> g_item[k].name, by |-> by,
                            marked |-> Succeeds(o)]
         \/ /\ g_item' = T /\ store' = store /\ lost' = lost
            /\ run' = [slot |-> k, name |-> g_item[k].name, by |-> by, marked |-> FALSE]
  BY DEF Begin, FlushAs, told
<1>0. c = [g_item[k] EXCEPT !.runs = @ + 1] /\ m = [c EXCEPT !.attempting = TRUE]
  OBVIOUS
<1> HIDE DEF c, m
<1>3. /\ c \in Items /\ c.name = g_item[k].name /\ c.enabled = g_item[k].enabled
      /\ c.attempting = g_item[k].attempting
      /\ m \in Items /\ m.name = g_item[k].name /\ m.enabled = g_item[k].enabled
      /\ m.attempting = TRUE
  <2> DEFINE it == g_item[k]
  <2>1. it \in Items /\ c = [it EXCEPT !.runs = @ + 1]
    BY <1>0, <1>1
  <2> HIDE DEF it
  <2>2. c \in Items /\ c.name = it.name /\ c.enabled = it.enabled /\ c.attempting = it.attempting
    BY <2>1 DEF Items
  <2>3. m \in Items /\ m.name = c.name /\ m.enabled = c.enabled /\ m.attempting = TRUE
    BY <1>0, <2>2 DEF Items
  <2> QED BY <2>2, <2>3 DEF it
<1>5. /\ T \in Seq(Items) /\ Distinct(T) /\ DOMAIN T = DOMAIN g_item
      /\ T[k] = c /\ \A i \in DOMAIN g_item \ {k} : T[i] = g_item[i]
  BY <1>1, <1>3, ReplacedIs
<1>6. /\ M \in Seq(Items) /\ Distinct(M) /\ DOMAIN M = DOMAIN g_item
      /\ M[k] = m /\ \A i \in DOMAIN g_item \ {k} : M[i] = g_item[i]
  BY <1>1, <1>3, ReplacedIs
<1> HIDE DEF T, M
<1>7. \A i \in DOMAIN g_item :
        /\ T[i].name = g_item[i].name /\ T[i].enabled = g_item[i].enabled
        /\ M[i].name = g_item[i].name /\ M[i].enabled = g_item[i].enabled
        /\ T[i].attempting = g_item[i].attempting
        /\ M[i].attempting = (i = k \/ g_item[i].attempting)
  <2>1. \A i \in DOMAIN g_item : g_item[i] \in Items
    BY <1>1, TableFacts
  <2>2. \A i \in DOMAIN g_item : g_item[i].attempting \in BOOLEAN
    BY <2>1 DEF Items
  <2> QED BY <1>3, <1>5, <1>6, <2>2
<1>8. \A N : Silenced(g_item, N) => Silenced(T, N) /\ Silenced(M, N)
  BY <1>5, <1>6, <1>7 DEF Silenced
<1>9. NoRun.slot = 0 /\ NoRun.marked = FALSE
  BY DEF NoRun
<1>10. ASSUME ClearInv
       PROVE  /\ \A i \in DOMAIN g_item : ~g_item[i].attempting
              /\ ~lost => \A i \in DOMAIN store : ~store[i].attempting
  BY <1>1, <1>9, <1>10 DEF ClearInv
<1>11. g_item[k].name \in Names
  BY <1>1 DEF Items
<1>a. CASE /\ g_item' = T /\ store' = store /\ lost' = lost
           /\ run' = [slot |-> k, name |-> g_item[k].name, by |-> by, marked |-> FALSE]
  <2>1. /\ run' \in Runs /\ run'.slot = k /\ run'.name = g_item[k].name /\ run'.by = by
        /\ run'.marked = FALSE
    BY <1>1, <1>11, <1>a DEF Runs
  <2>2. TypeInv'
    BY <1>1, <1>2, <1>5, <1>a, <2>1 DEF TypeInv, Distinct
  <2>3. ClearInv => ClearInv'
    BY <1>1, <1>2, <1>5, <1>7, <1>10, <1>a DEF ClearInv
  <2> QED BY <1>2, <1>8, <1>a, <2>1, <2>2, <2>3, KeptFrom DEF StopInv, KillInv
<1>b. ASSUME NEW o \in FlushResults, store' = agenda_flush(store, M, o), lost' = ~Succeeds(o),
             g_item' = IF Succeeds(o) THEN M ELSE T,
             run' = [slot |-> k, name |-> g_item[k].name, by |-> by, marked |-> Succeeds(o)]
      PROVE  Kept /\ run'.slot = k /\ run'.name = g_item[k].name /\ run'.by = by
  <2>1. /\ run' \in Runs /\ run'.slot = k /\ run'.name = g_item[k].name /\ run'.by = by
        /\ run'.marked = Succeeds(o)
    <3>1. Succeeds(o) \in BOOLEAN
      BY DEF Succeeds
    <3> QED BY <1>1, <1>11, <1>b, <3>1 DEF Runs
  <2>2. /\ store' \in Seq(Lines) /\ Distinct(store')
        /\ \A N : Silenced(M, N) /\ Silenced(store, N) => Silenced(store', N)
        /\ \A N : Silenced(M, N) /\ Harmless(store, N) => Harmless(store', N)
        /\ Succeeds(o) => Written(store', M)
    BY <1>1, <1>6, <1>b, FlushIs
  <2>3. g_item' \in Seq(Items) /\ Distinct(g_item') /\ DOMAIN g_item' = DOMAIN g_item
    BY <1>5, <1>6, <1>b
  <2>4. TypeInv'
    BY <1>1, <1>2, <1>b, <2>1, <2>2, <2>3 DEF TypeInv, Distinct
  <2>5. \A N : Silenced(g_item, N) => Silenced(g_item', N)
    BY <1>8, <1>b
  <2>6. ASSUME Succeeds(o)
        PROVE  /\ g_item' = M
               /\ \A i \in DOMAIN store' : /\ i \in DOMAIN g_item
                                          /\ store'[i].name = M[i].name
                                          /\ store'[i].attempting = M[i].attempting
    BY <1>6, <1>b, <2>2, <2>6 DEF Written
  <2>7. run'.marked => Marked(g_item', run'.name) /\ Marked(store', run'.name)
    <3> SUFFICES ASSUME Succeeds(o) PROVE Marked(g_item', run'.name) /\ Marked(store', run'.name)
      BY <2>1
    <3>1. \A i \in DOMAIN g_item : M[i].name = run'.name => M[i].attempting
      BY <1>1, <1>3, <1>6, <1>7, <2>1 DEF Distinct
    <3> QED BY <3>1, <1>6, <2>6 DEF Marked
  <2>8. ASSUME ClearInv PROVE ClearInv'
    <3>1. CASE Succeeds(o)
      <4>1. \A i \in DOMAIN g_item : M[i].attempting => i = k
        BY <1>7, <1>10, <2>8
      <4>2. run'.slot = k /\ run'.marked = TRUE /\ run'.name = M[k].name
        BY <3>1, <1>7, <2>1
      <4>3. \A i \in DOMAIN g_item' :
              g_item'[i].attempting =>
                run'.slot = i /\ run'.marked /\ run'.name = g_item'[i].name
        BY <3>1, <4>1, <4>2, <1>6, <2>6
      <4>4. \A i \in DOMAIN store' :
              store'[i].attempting => run'.marked /\ run'.name = store'[i].name
        BY <3>1, <4>1, <4>2, <2>6
      <4>5. power' = TRUE
        BY <1>1
      <4> QED BY <4>3, <4>4, <4>5 DEF ClearInv
    <3>2. CASE ~Succeeds(o)
      BY <3>2, <1>5, <1>7, <1>10, <1>b, <2>8 DEF ClearInv
    <3> QED BY <3>1, <3>2
  <2> QED BY <1>2, <1>8, <2>1, <2>2, <2>4, <2>5, <2>7, <2>8, KeptFrom DEF StopInv, KillInv
<1> QED BY <1>2, <1>a, <1>b

(* run_item, whoever calls it.                                             *)
LEMMA RunItemKeeps ==
  ASSUME TypeInv, StopInv, power, run.slot = 0, NEW k \in DOMAIN g_item,
         NEW by \in {"boot", "tick", "now"},
         run_item(k, by), power' = power, told' = told, bootAt' \in Nat
  PROVE  /\ Kept
         /\ run'.slot # 0 => /\ run'.name = g_item[k].name /\ run'.by = by
<1>1. CASE g_runs >= AGENDA_MAX_RUNS_TOTAL
  <2>1. Exhausted(k)
    BY <1>1 DEF run_item
  <2>2. run' = run
    BY <2>1 DEF Exhausted
  <2> QED BY <2>1, <2>2, ExhaustedKeeps
<1>2. CASE ~(g_runs >= AGENDA_MAX_RUNS_TOTAL)
  <2>1. Begin(k, by)
    BY <1>2 DEF run_item
  <2> QED BY <2>1, BeginKeeps
<1> QED BY <1>1, <1>2

(* One turn of agenda_run_boot's loop: what it starts is enabled.          *)
LEMMA RunBootKeeps ==
  ASSUME TypeInv, StopInv, agenda_run_boot
  PROVE  /\ Kept
         /\ run'.slot # 0 => /\ bootAt \in DOMAIN g_item /\ g_item[bootAt].enabled
                             /\ run'.name = g_item[bootAt].name /\ run'.by = "boot"
<1>1. /\ power /\ bootAt > 0 /\ run.slot = 0 /\ bootAt \in Nat
      /\ power' = power /\ told' = told /\ bootAt' \in Nat
  BY DEF agenda_run_boot, TypeInv
<1>2. CASE UNCHANGED <<g_item, store, g_runs, run, lost>>
  <2>1. TypeInv'
    BY <1>1, <1>2 DEF TypeInv, Distinct
  <2>2. stopped' = stopped /\ killers' = killers
    BY <1>1 DEF told
  <2>3. ClearInv => ClearInv'
    BY <1>1, <1>2, <2>2 DEF ClearInv
  <2> QED BY <1>1, <1>2, <2>1, <2>2, <2>3, KeptFrom DEF StopInv, KillInv
<1>3. CASE /\ bootAt <= Len(g_item) /\ g_item[bootAt].enabled
           /\ run_item(bootAt, "boot")
  <2>1. bootAt \in DOMAIN g_item
    BY <1>1, <1>3, TableFacts DEF TypeInv
  <2> QED BY <1>1, <1>3, <2>1, RunItemKeeps
<1>4. Len(g_item) \in Nat
  BY TableFacts DEF TypeInv
<1> QED BY <1>1, <1>2, <1>3, <1>4 DEF agenda_run_boot

(* pick_due chooses an item that is due.                                   *)
LEMMA PickDueIs ==
  ASSUME TypeInv, \E k \in DOMAIN g_item : Due(g_item[k])
  PROVE  pick_due \in DOMAIN g_item /\ g_item[pick_due].enabled
<1> DEFINE D == {k \in DOMAIN g_item : Due(g_item[k])}
<1>1. D \subseteq Nat /\ D # {} /\ DOMAIN g_item = 1..Len(g_item) /\ Len(g_item) \in Nat
  BY TableFacts DEF TypeInv
<1>2. PICK k \in D : \A j \in D : k <= j
  BY <1>1, LeastElement
<1>3. k \in DOMAIN g_item /\ Due(g_item[k]) /\ \A j \in 1 .. k - 1 : ~Due(g_item[j])
  <2>1. \A j \in 1 .. k - 1 : j \in DOMAIN g_item /\ ~(k <= j)
    BY <1>1
  <2> QED BY <1>2, <2>1
<1>4. /\ pick_due \in DOMAIN g_item
      /\ Due(g_item[pick_due])
  BY <1>3, Zenon DEF pick_due
<1> QED BY <1>4 DEF Due

(* The tick starts an item that is due.                                    *)
LEMMA TickKeeps ==
  ASSUME TypeInv, StopInv, agenda_tick
  PROVE  /\ Kept
         /\ run'.slot # 0 => /\ pick_due \in DOMAIN g_item /\ g_item[pick_due].enabled
                             /\ run'.name = g_item[pick_due].name /\ run'.by = "tick"
<1>1. /\ power /\ run.slot = 0 /\ run_item(pick_due, "tick") /\ power' = power
      /\ told' = told /\ bootAt' \in Nat /\ \E k \in DOMAIN g_item : Due(g_item[k])
  BY DEF agenda_tick, Idle, TypeInv
<1>2. pick_due \in DOMAIN g_item /\ g_item[pick_due].enabled
  BY <1>1, PickDueIs
<1> QED BY <1>1, <1>2, RunItemKeeps

(* agenda_run_now starts what it is told to.                               *)
LEMMA RunNowKeeps ==
  ASSUME TypeInv, StopInv, agenda_run_now
  PROVE  Kept /\ (run'.slot # 0 => run'.by = "now")
<1>1. PICK k \in DOMAIN g_item :
        /\ power /\ run.slot = 0 /\ run_item(k, "now") /\ power' = power
        /\ told' = told /\ bootAt' \in Nat
  BY DEF agenda_run_now, Idle, TypeInv
<1> QED BY <1>1, RunItemKeeps

-----------------------------------------------------------------------------
(* An item read back is off if it was off or was marked.                   *)
LEMMA BootKeeps ==
  ASSUME TypeInv, StopInv, Boot
  PROVE  Kept
<1> DEFINE t == [i \in DOMAIN store |-> Loaded(store[i])]
           marked == {store[i].name : i \in {j \in DOMAIN store : store[j].attempting}}
<1>1. /\ ~power /\ power' = TRUE /\ g_item' = t /\ g_runs' = 0 /\ bootAt' = 1 /\ run' = NoRun
      /\ \/ marked = {} /\ store' = store /\ lost' = lost
         \/ \E o \in FlushResults : store' = agenda_flush(store, t, o) /\ lost' = ~Succeeds(o)
      /\ stopped' \subseteq stopped /\ killers' \subseteq killers
  BY DEF Boot, FlushAs
<1>2. /\ store \in Seq(Lines) /\ Distinct(store) /\ Len(store) \in Nat
      /\ DOMAIN store = 1..Len(store) /\ \A i \in DOMAIN store : store[i] \in Lines
  BY TableFacts DEF TypeInv
<1>3. ASSUME NEW i \in DOMAIN store
      PROVE  /\ t[i] \in Items /\ t[i].name = store[i].name /\ t[i].attempting = FALSE
             /\ t[i].enabled = (store[i].enabled /\ ~store[i].attempting)
  <2> DEFINE x == store[i]
             y == t[i]
             e == x.enabled /\ ~x.attempting
  <2>1. x \in Lines /\ y = Item(x.name, x.when, x.max, e)
    BY <1>2 DEF Loaded
  <2>2. e \in BOOLEAN
    OBVIOUS
  <2> HIDE DEF x, y, e
  <2>3. x.name \in Names /\ x.when \in Whens /\ x.max \in Nat \ {0}
    BY <2>1 DEF Lines
  <2>4. y \in Items /\ y.name = x.name /\ y.attempting = FALSE /\ y.enabled = e
    BY <2>1, <2>2, <2>3 DEF Items, Item
  <2> QED BY <2>4 DEF x, y, e
<1>4. DOMAIN t = DOMAIN store /\ t \in Seq(Items)
  <2>1. t = [i \in 1..Len(store) |-> t[i]] /\ DOMAIN t = DOMAIN store
    BY <1>2
  <2>2. \A i \in 1..Len(store) : t[i] \in Items
    BY <1>2, <1>3
  <2> HIDE DEF t
  <2> QED BY <1>2, <2>1, <2>2
<1>5. (\A i \in DOMAIN store : ~store[i].attempting) \/ marked # {}
  OBVIOUS
<1> HIDE DEF t, marked
<1>6. Distinct(t)
  BY <1>2, <1>3, <1>4 DEF Distinct
<1>7. \A N : Silenced(store, N) \/ Harmless(store, N) => Silenced(t, N)
  BY <1>3, <1>4 DEF Silenced, Harmless
<1>8. /\ store' \in Seq(Lines) /\ Distinct(store') /\ lost' \in BOOLEAN
      /\ \A N : Silenced(t, N) /\ Silenced(store, N) => Silenced(store', N)
      /\ \A N : Silenced(t, N) /\ Harmless(store, N) => Harmless(store', N)
      /\ ~lost' => \A i \in DOMAIN store' : ~store'[i].attempting
  <2>1. CASE marked = {} /\ store' = store /\ lost' = lost
    BY <2>1, <1>2, <1>5 DEF TypeInv
  <2>2. ASSUME NEW o \in FlushResults, store' = agenda_flush(store, t, o), lost' = ~Succeeds(o)
        PROVE  <1>8!:
    <3>1. /\ store' \in Seq(Lines) /\ Distinct(store')
          /\ \A N : Silenced(t, N) /\ Silenced(store, N) => Silenced(store', N)
          /\ \A N : Silenced(t, N) /\ Harmless(store, N) => Harmless(store', N)
          /\ Succeeds(o) => Written(store', t)
      BY <1>2, <1>4, <1>6, <2>2, FlushIs
    <3>2. Succeeds(o) => \A i \in DOMAIN store' : ~store'[i].attempting
      BY <3>1, <1>3, <1>4 DEF Written
    <3> QED BY <2>2, <3>1, <3>2
  <2> QED BY <1>1, <2>1, <2>2
<1>9. NoRun \in Runs /\ NoRun.slot = 0 /\ NoRun.marked = FALSE
  BY DEF NoRun, Runs
<1>10. TypeInv'
  BY <1>1, <1>4, <1>6, <1>8, <1>9 DEF TypeInv, Distinct
<1>11. ClearInv'
  BY <1>1, <1>3, <1>4, <1>8 DEF ClearInv
<1>12. \A N, L : L \subseteq N => /\ Silenced(t, N) => Silenced(t, L)
                                  /\ Silenced(store', N) => Silenced(store', L)
                                  /\ Harmless(store', N) => Harmless(store', L)
  BY DEF Silenced, Harmless
<1> QED BY <1>1, <1>7, <1>8, <1>9, <1>10, <1>11, <1>12, KeptFrom DEF StopInv, KillInv

(* The machine goes down: what was in flight is marked on disk.            *)
LEMMA CrashKeeps ==
  ASSUME TypeInv, StopInv, Crash
  PROVE  Kept
<1>1. /\ power /\ power' = FALSE /\ g_item' = <<>> /\ g_runs' = 0 /\ bootAt' = 0 /\ run' = NoRun
      /\ killers' = IF run.slot # 0 /\ run.marked THEN killers \cup {run.name} ELSE killers
      /\ store' = store /\ lost' = lost /\ stopped' = stopped
  BY DEF Crash
<1>2. NoRun \in Runs /\ NoRun.slot = 0 /\ NoRun.marked = FALSE
  BY DEF NoRun, Runs
<1>3. g_item' \in Seq(Items) /\ DOMAIN g_item' = {}
  BY <1>1
<1>4. TypeInv'
  BY <1>1, <1>2, <1>3 DEF TypeInv, Distinct
<1>5. \A N : Silenced(g_item', N)
  BY <1>3 DEF Silenced
<1>6. run.marked => run.slot # 0
  BY <1>2 DEF TypeInv
<1>7. KillInv => Harmless(store', killers')
  BY <1>1 DEF KillInv, Harmless, Marked
<1>8. ClearInv => ClearInv'
  BY <1>1, <1>3, <1>6 DEF ClearInv
<1> QED BY <1>1, <1>2, <1>4, <1>5, <1>7, <1>8, KeptFrom DEF StopInv

-----------------------------------------------------------------------------
(* Edits. Every one rewrites the document.                                 *)
LEMMA EditKeeps ==
  ASSUME TypeInv, StopInv, power, NEW t \in Seq(Items), Distinct(t), Edited(t),
         stopped' \subseteq stopped, killers' \subseteq killers,
         Silenced(t, stopped'),
         "save" \notin BodyEdits /\ KillInv =>
           Silenced(t, killers') /\ (run.marked => Marked(t, run.name)),
         "remove" \notin BodyEdits /\ ClearInv =>
           \A i \in DOMAIN t :
             t[i].attempting => run.slot = i /\ run.marked /\ run.name = t[i].name
  PROVE  Kept
<1>1. PICK o \in FlushResults :
        /\ g_item' = t /\ store' = agenda_flush(store, t, o) /\ lost' = ~Succeeds(o)
        /\ power' = power /\ g_runs' = g_runs /\ bootAt' = bootAt /\ run' = run
  BY DEF Edited, FlushAs
<1>2. store \in Seq(Lines) /\ Distinct(store)
  BY DEF TypeInv
<1>3. /\ store' \in Seq(Lines) /\ Distinct(store')
      /\ \A N : Silenced(t, N) /\ Silenced(store, N) => Silenced(store', N)
      /\ \A N : Silenced(t, N) /\ Harmless(store, N) => Harmless(store', N)
      /\ \A n : Marked(t, n) /\ Marked(store, n) => Marked(store', n)
      /\ Succeeds(o) => Written(store', t)
  BY <1>1, <1>2, FlushIs
<1>4. TypeInv'
  BY <1>1, <1>3 DEF TypeInv, Distinct
<1>5. Silenced(store', stopped')
  <2>1. Silenced(store, stopped')
    BY DEF StopInv, Silenced
  <2> QED BY <1>3, <2>1
<1>6. ASSUME KillInv PROVE Harmless(store, killers')
  BY <1>6 DEF KillInv, Harmless
<1>7. ASSUME "remove" \notin BodyEdits, ClearInv PROVE ClearInv'
  <2>1. \A i \in DOMAIN t :
          t[i].attempting => run.slot = i /\ run.marked /\ run.name = t[i].name
    BY <1>7
  <2>2. Succeeds(o) => \A i \in DOMAIN store' :
          store'[i].attempting => run.marked /\ run.name = store'[i].name
    BY <1>3, <2>1 DEF Written
  <2> QED BY <1>1, <2>1, <2>2 DEF ClearInv
<1> QED BY <1>1, <1>3, <1>4, <1>5, <1>6, <1>7, KeptFrom DEF KillInv

(* An edit the action in flight may not make is made with nothing in       *)
(* flight.                                                                 *)
LEMMA AtThePrompt ==
  ASSUME TypeInv, NEW what, May(what), what \notin BodyEdits
  PROVE  run = NoRun /\ run.marked = FALSE /\ run.slot = 0
<1>1. run.slot = 0
  BY DEF May, Idle
<1>2. run = NoRun
  BY <1>1 DEF TypeInv
<1>3. NoRun.marked = FALSE
  BY DEF NoRun
<1> QED BY <1>1, <1>2, <1>3

(* Saving an item of a name in the table, or of a new one.                 *)
LEMMA SaveKeeps ==
  ASSUME TypeInv, StopInv, agenda_save
  PROVE  Kept
<1>1. PICK n \in Names, w \in Whens, max \in MaxRuns :
        /\ May("save")
        /\ IF n \in NameSet(g_item)
           THEN Edited([g_item EXCEPT ![SlotOf(g_item, n)] = Item(n, w, max, TRUE)])
           ELSE Edited(Append(g_item, Item(n, w, max, TRUE)))
        /\ stopped' = stopped \ {n} /\ killers' = killers \ {n}
  BY DEF agenda_save
<1> DEFINE x == Item(n, w, max, TRUE)
           k == SlotOf(g_item, n)
<1>2. x \in Items /\ x.name = n /\ x.attempting = FALSE
  BY AgendaAssumption DEF Item, Items
<1>3. /\ g_item \in Seq(Items) /\ Distinct(g_item) /\ power
      /\ Len(g_item) \in Nat /\ DOMAIN g_item = 1..Len(g_item)
  BY <1>1, TableFacts DEF TypeInv, May, Idle
<1>4. "save" \notin BodyEdits => run.marked = FALSE
  BY <1>1, AtThePrompt
<1> HIDE DEF x
<1>5. ASSUME NEW t \in Seq(Items), Distinct(t), Edited(t),
             \A i \in DOMAIN t : t[i].name # n => i \in DOMAIN g_item /\ t[i] = g_item[i],
             \A i \in DOMAIN t : t[i].name = n => t[i] = x
      PROVE  Kept
  <2>1. \A N : Silenced(g_item, N) => Silenced(t, N \ {n})
    BY <1>5 DEF Silenced
  <2>2. ClearInv => \A i \in DOMAIN t :
          t[i].attempting => run.slot = i /\ run.marked /\ run.name = t[i].name
    BY <1>2, <1>5 DEF ClearInv
  <2> QED BY <1>1, <1>3, <1>4, <1>5, <2>1, <2>2, EditKeeps DEF StopInv, KillInv
<1>6. CASE n \in NameSet(g_item)
  <2>1. k \in DOMAIN g_item /\ g_item[k].name = n
    BY <1>6, Zenon DEF NameSet, SlotOf
  <2> HIDE DEF k
  <2> DEFINE t == [g_item EXCEPT ![k] = x]
  <2>2. /\ t \in Seq(Items) /\ Distinct(t) /\ DOMAIN t = DOMAIN g_item
        /\ t[k] = x /\ \A i \in DOMAIN g_item \ {k} : t[i] = g_item[i]
    BY <1>2, <1>3, <2>1, ReplacedIs
  <2>3. Edited(t)
    BY <1>1, <1>6 DEF x, k
  <2> HIDE DEF t
  <2>4. /\ \A i \in DOMAIN t : t[i].name # n => i \in DOMAIN g_item /\ t[i] = g_item[i]
        /\ \A i \in DOMAIN t : t[i].name = n => t[i] = x
    BY <1>2, <1>3, <2>1, <2>2 DEF Distinct
  <2> QED BY <1>5, <2>2, <2>3, <2>4
<1>7. CASE n \notin NameSet(g_item)
  <2> DEFINE t == Append(g_item, x)
  <2>1. /\ t \in Seq(Items) /\ DOMAIN t = 1..(Len(g_item) + 1) /\ t[Len(g_item) + 1] = x
        /\ \A i \in 1..Len(g_item) : t[i] = g_item[i]
    BY <1>2, <1>3
  <2>2. Edited(t)
    BY <1>1, <1>7 DEF x
  <2>3. \A i \in DOMAIN g_item : g_item[i].name # n
    BY <1>7 DEF NameSet
  <2> HIDE DEF t
  <2>4. \A i \in DOMAIN t : \/ i = Len(g_item) + 1 /\ t[i] = x
                            \/ i \in DOMAIN g_item /\ t[i] = g_item[i] /\ t[i].name # n
    BY <1>3, <2>1, <2>3
  <2>5. Distinct(t)
    BY <1>2, <1>3, <2>4 DEF Distinct
  <2> QED BY <1>2, <1>5, <2>1, <2>2, <2>4, <2>5
<1> QED BY <1>6, <1>7

(* Removing a slot moves the later ones down.                              *)
LEMMA RemovedIs ==
  ASSUME NEW t \in Seq(Items), Distinct(t), NEW k \in DOMAIN t
  PROVE  /\ RemoveAt(t, k) \in Seq(Items) /\ Distinct(RemoveAt(t, k))
         /\ \A i \in DOMAIN RemoveAt(t, k) :
              \E j \in DOMAIN t \ {k} : RemoveAt(t, k)[i] = t[j]
<1> DEFINE a == SubSeq(t, 1, k - 1)
           b == SubSeq(t, k + 1, Len(t))
           u == RemoveAt(t, k)
           From(i) == IF i < k THEN i ELSE i + 1
<1>1. /\ Len(t) \in Nat /\ DOMAIN t = 1..Len(t) /\ k \in 1..Len(t)
      /\ \A i \in DOMAIN t : t[i] \in Items
  BY TableFacts
<1>2. a \in Seq(Items) /\ Len(a) = k - 1 /\ \A i \in 1..(k - 1) : a[i] = t[i]
  BY <1>1
<1>3. b \in Seq(Items) /\ Len(b) = Len(t) - k /\ \A i \in 1..(Len(t) - k) : b[i] = t[k + i]
  BY <1>1, SMTT(30)
<1>4. u = a \o b
  BY DEF RemoveAt
<1> HIDE DEF a, b, u
<1>5. /\ u \in Seq(Items) /\ Len(u) = Len(t) - 1 /\ DOMAIN u = 1..(Len(t) - 1)
      /\ \A i \in 1..(Len(t) - 1) : u[i] = IF i <= k - 1 THEN a[i] ELSE b[i - (k - 1)]
  <2>1. /\ u \in Seq(Items) /\ Len(u) = Len(a) + Len(b)
        /\ \A i \in 1..(Len(a) + Len(b)) :
             u[i] = IF i <= Len(a) THEN a[i] ELSE b[i - Len(a)]
    BY <1>2, <1>3, <1>4, ConcatProperties
  <2>2. Len(a) + Len(b) = Len(t) - 1
    BY <1>1, <1>2, <1>3
  <2>3. DOMAIN u = 1..Len(u)
    BY <2>1
  <2> QED BY <1>2, <2>1, <2>2, <2>3
<1>6. \A i \in DOMAIN u : From(i) \in DOMAIN t \ {k} /\ u[i] = t[From(i)]
  <2> SUFFICES ASSUME NEW i \in DOMAIN u PROVE From(i) \in DOMAIN t \ {k} /\ u[i] = t[From(i)]
    OBVIOUS
  <2>1. CASE i < k
    BY <2>1, <1>1, <1>2, <1>5
  <2>2. CASE ~(i < k)
    <3>1. i - (k - 1) \in 1..(Len(t) - k) /\ k + (i - (k - 1)) = i + 1 /\ ~(i <= k - 1)
      BY <2>2, <1>1, <1>5
    <3>2. u[i] = t[i + 1]
      BY <3>1, <1>3, <1>5
    <3> QED BY <2>2, <3>2, <1>1, <1>5
  <2> QED BY <2>1, <2>2
<1>7. \A i, j \in DOMAIN u : From(i) = From(j) => i = j
  BY <1>1, <1>5
<1> HIDE DEF From
<1>8. Distinct(u)
  BY <1>6, <1>7 DEF Distinct
<1>9. \A i \in DOMAIN u : \E j \in DOMAIN t \ {k} : u[i] = t[j]
  BY <1>6
<1> QED BY <1>5, <1>8, <1>9 DEF u

(* Removing an item.                                                       *)
LEMMA RemoveKeeps ==
  ASSUME TypeInv, StopInv, agenda_remove
  PROVE  Kept
<1>1. PICK k \in DOMAIN g_item :
        /\ May("remove") /\ Edited(RemoveAt(g_item, k))
        /\ stopped' = stopped \ {g_item[k].name} /\ killers' = killers \ {g_item[k].name}
  BY DEF agenda_remove
<1> DEFINE t == RemoveAt(g_item, k)
<1>2. g_item \in Seq(Items) /\ Distinct(g_item) /\ power
  BY <1>1 DEF TypeInv, May, Idle
<1>3. /\ t \in Seq(Items) /\ Distinct(t)
      /\ \A i \in DOMAIN t : \E j \in DOMAIN g_item \ {k} : t[i] = g_item[j]
  BY <1>2, RemovedIs
<1>4. Edited(t)
  BY <1>1
<1> HIDE DEF t
<1>5. \A N, L : L \subseteq N /\ Silenced(g_item, N) => Silenced(t, L)
  BY <1>3 DEF Silenced
<1>6. \A n : Marked(g_item, n) => Marked(t, n)
  BY <1>3 DEF Marked
<1>7. ASSUME "remove" \notin BodyEdits, ClearInv
      PROVE  \A i \in DOMAIN t : ~t[i].attempting
  <2>1. run.marked = FALSE
    BY <1>1, <1>7, AtThePrompt
  <2>2. \A j \in DOMAIN g_item : ~g_item[j].attempting
    BY <1>7, <2>1 DEF ClearInv
  <2> QED BY <1>3, <2>2
<1>8. stopped' \subseteq stopped /\ killers' \subseteq killers
  BY <1>1
<1> QED BY <1>2, <1>3, <1>4, <1>5, <1>6, <1>7, <1>8, EditKeeps DEF StopInv, KillInv

(* Enabling an item forgives it; disabling it does not.                    *)
LEMMA SetEnabledKeeps ==
  ASSUME TypeInv, StopInv, agenda_set_enabled
  PROVE  Kept
<1>1. PICK k \in DOMAIN g_item, on \in BOOLEAN :
        /\ May("enable")
        /\ Edited([g_item EXCEPT ![k] = [g_item[k] EXCEPT !.enabled = on,
                                                          !.failures = IF on THEN 0 ELSE @]])
        /\ stopped' = IF on THEN stopped \ {g_item[k].name} ELSE stopped
        /\ killers' = IF on THEN killers \ {g_item[k].name} ELSE killers
  BY DEF agenda_set_enabled
<1> DEFINE y == g_item[k]
           x == [y EXCEPT !.enabled = on, !.failures = IF on THEN 0 ELSE @]
           t == [g_item EXCEPT ![k] = x]
<1>2. g_item \in Seq(Items) /\ Distinct(g_item) /\ power /\ y \in Items
  BY <1>1, TableFacts DEF TypeInv, May, Idle
<1>3. Edited(t)
  BY <1>1
<1> HIDE DEF y
<1>4. x \in Items /\ x.name = y.name /\ x.attempting = y.attempting /\ x.enabled = on
  BY <1>2 DEF Items
<1> HIDE DEF x
<1>5. /\ t \in Seq(Items) /\ Distinct(t) /\ DOMAIN t = DOMAIN g_item
      /\ t[k] = x /\ \A i \in DOMAIN g_item \ {k} : t[i] = g_item[i]
  BY <1>2, <1>4, ReplacedIs DEF y
<1> HIDE DEF t
<1>6. \A i \in DOMAIN g_item : /\ t[i].name = g_item[i].name
                               /\ t[i].attempting = g_item[i].attempting
                               /\ t[i].enabled => g_item[i].enabled \/ (i = k /\ on)
  BY <1>4, <1>5 DEF y
<1>7. \A N : Silenced(g_item, N) =>
        Silenced(t, IF on THEN N \ {g_item[k].name} ELSE N)
  BY <1>5, <1>6 DEF Silenced
<1>8. \A n : Marked(g_item, n) => Marked(t, n)
  BY <1>5, <1>6 DEF Marked
<1>9. ClearInv => \A i \in DOMAIN t :
        t[i].attempting => run.slot = i /\ run.marked /\ run.name = t[i].name
  BY <1>5, <1>6 DEF ClearInv
<1>10. stopped' \subseteq stopped /\ killers' \subseteq killers
  BY <1>1
<1> QED BY <1>1, <1>2, <1>3, <1>5, <1>7, <1>8, <1>9, <1>10, EditKeeps DEF StopInv, KillInv

(* The master switch, and a step that changes nothing the invariants see.  *)
LEMMA IdleKeeps ==
  ASSUME TypeInv, StopInv,
         UNCHANGED <<power, g_item, store, g_runs, bootAt, run, lost, stopped, killers>>
  PROVE  Kept
<1>1. TypeInv'
  BY DEF TypeInv, Distinct
<1>2. ClearInv => ClearInv'
  BY DEF ClearInv
<1> QED BY <1>1, <1>2, KeptFrom DEF StopInv, KillInv

-----------------------------------------------------------------------------
(* run_item past the guard.                                                *)

(* Accounting: an item is never switched on, and one announced as stopped  *)
(* for good is off.                                                        *)
LEMMA AccountedIs ==
  ASSUME NEW it \in Items, NEW ok \in BOOLEAN
  PROVE  /\ Accounted(it, ok) \in Items /\ Accounted(it, ok).name = it.name
         /\ Accounted(it, ok).attempting = it.attempting
         /\ Accounted(it, ok).enabled => it.enabled
         /\ Announced(it, Accounted(it, ok)) => ~Accounted(it, ok).enabled
         /\ Announced(it, Accounted(it, ok)) <=> Durable(it, Accounted(it, ok))
<1> DEFINE f == IF ok THEN 0 ELSE it.failures + 1
           x == [it EXCEPT !.failures = f]
           off == f >= AGENDA_MAX_FAILURES \/ it.runs >= it.max \/ it.when # "every"
           z == Accounted(it, ok)
<1>1. f \in Nat /\ it.runs \in Nat /\ it.max \in Nat
  BY DEF Items
<1>2. z = IF off THEN [x EXCEPT !.enabled = FALSE] ELSE [x EXCEPT !.due = FALSE]
  BY DEF Accounted
<1> HIDE DEF f, z, off
<1>3. /\ x \in Items /\ x.name = it.name /\ x.attempting = it.attempting
      /\ x.enabled = it.enabled /\ x.failures = f
  BY <1>1 DEF Items
<1> HIDE DEF x
<1>4. /\ z \in Items /\ z.name = it.name /\ z.attempting = it.attempting /\ z.failures = f
      /\ z.enabled => it.enabled
      /\ off => z.enabled = FALSE
  <2>1. CASE off
    <3>1. z = [x EXCEPT !.enabled = FALSE]
      BY <1>2, <2>1
    <3>2. /\ z \in Items /\ z.name = x.name /\ z.attempting = x.attempting
          /\ z.failures = x.failures /\ z.enabled = FALSE
      BY <1>3, <3>1 DEF Items
    <3> QED BY <1>3, <3>2
  <2>2. CASE ~off
    <3>1. z = [x EXCEPT !.due = FALSE]
      BY <1>2, <2>2
    <3>2. /\ z \in Items /\ z.name = x.name /\ z.attempting = x.attempting
          /\ z.failures = x.failures /\ z.enabled = x.enabled
      BY <1>3, <3>1 DEF Items
    <3> QED BY <1>3, <2>2, <3>2
  <2> QED BY <2>1, <2>2
<1>5. Announced(it, z) => off
  BY <1>4 DEF Announced, off
<1>6. Announced(it, z) <=> Durable(it, z)
  BY DEF Announced, Durable
<1>7. Announced(it, z) => ~z.enabled
  BY <1>4, <1>5
<1> QED BY <1>4, <1>6, <1>7 DEF z

(* The documents Finish leaves: C is the table with the marker cleared, T  *)
(* the one with the run accounted, and a retirement is written down again. *)
LEMMA FinishKeeps ==
  ASSUME TypeInv, StopInv, power, run.slot # 0,
         NEW C \in Seq(Items), Distinct(C), NEW T \in Seq(Items), Distinct(T),
         DOMAIN C = DOMAIN g_item, DOMAIN T = DOMAIN g_item,
         \A i \in DOMAIN g_item :
           /\ C[i].name = g_item[i].name
           /\ C[i].enabled => g_item[i].enabled
           /\ T[i].name = g_item[i].name
           /\ T[i].enabled => g_item[i].enabled
           /\ ClearInv => ~C[i].attempting /\ ~T[i].attempting,
         NEW o1 \in FlushResults, NEW o2 \in FlushResults, NEW durable \in BOOLEAN,
         NEW d, d = IF run.marked THEN agenda_flush(store, C, o1) ELSE store,
         store' = IF durable THEN agenda_flush(d, T, o2) ELSE d,
         lost' = IF durable THEN ~Succeeds(o2) ELSE IF run.marked THEN ~Succeeds(o1) ELSE lost,
         g_item' = T, run' = NoRun, power' = power, g_runs' = g_runs, bootAt' \in Nat,
         killers' = killers, Silenced(T, stopped'),
         stopped' = stopped \/ (durable /\ Succeeds(o2))
  PROVE  Kept
<1>1. store \in Seq(Lines) /\ Distinct(store) /\ run.marked \in BOOLEAN /\ lost \in BOOLEAN
  BY DEF TypeInv, Runs
<1>2. \A N : Silenced(g_item, N) => Silenced(C, N) /\ Silenced(T, N)
  BY DEF Silenced
<1>3. /\ d \in Seq(Lines) /\ Distinct(d)
      /\ \A N : Silenced(C, N) /\ Silenced(store, N) => Silenced(d, N)
      /\ \A N : Silenced(C, N) /\ Harmless(store, N) => Harmless(d, N)
      /\ run.marked /\ Succeeds(o1) => Written(d, C)
  <2>1. CASE run.marked
    <3>1. d = agenda_flush(store, C, o1)
      BY <2>1
    <3> QED BY <1>1, <3>1, FlushIs
  <2>2. CASE ~run.marked
    BY <1>1, <2>2
  <2> QED BY <2>1, <2>2
<1>4. /\ store' \in Seq(Lines) /\ Distinct(store')
      /\ \A N : Silenced(T, N) /\ Silenced(d, N) => Silenced(store', N)
      /\ \A N : Silenced(T, N) /\ Harmless(d, N) => Harmless(store', N)
      /\ durable /\ Succeeds(o2) => Written(store', T)
  <2>1. CASE durable
    <3>1. store' = agenda_flush(d, T, o2)
      BY <2>1
    <3> QED BY <1>3, <3>1, FlushIs, ZenonT(60)
  <2>2. CASE ~durable
    BY <1>3, <2>2
  <2> QED BY <2>1, <2>2
<1>5. NoRun \in Runs /\ NoRun.slot = 0 /\ NoRun.marked = FALSE
  BY DEF NoRun, Runs
<1>6. TypeInv'
  <2>1. lost' \in BOOLEAN
    BY <1>1 DEF Succeeds
  <2> QED BY <1>4, <1>5, <2>1 DEF TypeInv, Distinct
<1>7. Silenced(store', stopped')
  <2>1. CASE stopped' = stopped
    BY <1>2, <1>3, <1>4, <2>1 DEF StopInv
  <2>2. CASE durable /\ Succeeds(o2)
    BY <1>4, <2>2 DEF Silenced, Written
  <2> QED BY <2>1, <2>2
<1>8. ASSUME ClearInv PROVE ClearInv'
  <2>1. \A i \in DOMAIN g_item : ~C[i].attempting /\ ~T[i].attempting
    BY <1>8
  <2>2. ~lost' => \A i \in DOMAIN store' : ~store'[i].attempting
    <3>1. CASE durable
      <4>1. ~lost' => Succeeds(o2)
        BY <3>1
      <4> QED BY <3>1, <4>1, <1>4, <2>1 DEF Written
    <3>2. CASE ~durable /\ run.marked
      <4>1. store' = d /\ (~lost' => Succeeds(o1))
        BY <3>2
      <4> QED BY <3>2, <4>1, <1>3, <2>1 DEF Written
    <3>3. CASE ~durable /\ ~run.marked
      <4>1. store' = store /\ lost' = lost
        BY <3>3
      <4> QED BY <3>3, <4>1, <1>8 DEF ClearInv
    <3> QED BY <3>1, <3>2, <3>3
  <2> QED BY <2>1, <2>2 DEF ClearInv
<1> QED BY <1>2, <1>3, <1>4, <1>5, <1>6, <1>7, <1>8, KeptFrom DEF StopInv, KillInv

(* The guard has returned.                                                 *)
LEMMA ReturnKeeps ==
  ASSUME TypeInv, StopInv, Finish
  PROVE  Kept
<1> DEFINE C == IF run.marked /\ InTable(g_item)
                THEN [g_item EXCEPT ![run.slot].attempting = FALSE] ELSE g_item
           it == C[run.slot]
<1>1. PICK ok \in BOOLEAN, o1 \in FlushResults, o2 \in FlushResults :
        LET x == Accounted(it, ok)
            t == IF InTable(C) THEN [C EXCEPT ![run.slot] = x] ELSE C
            durable == InTable(C) /\ Durable(it, x)
            retired == InTable(C) /\ Announced(it, x)
        IN /\ power /\ run.slot # 0
           /\ ~durable => o2 = "ok"
           /\ g_item' = t
           /\ store' = IF durable THEN agenda_flush(ClearMarker(C, o1), t, o2)
                                  ELSE ClearMarker(C, o1)
           /\ lost' = IF durable THEN ~Succeeds(o2) ELSE IF run.marked THEN ~Succeeds(o1) ELSE lost
           /\ run' = NoRun
           /\ bootAt' = IF bootAt > 0 THEN bootAt + 1 ELSE 0
           /\ stopped' = IF retired /\ Succeeds(o2) THEN stopped \cup {it.name} ELSE stopped
           /\ UNCHANGED <<power, g_on, g_runs, killers>>
  BY DEF Finish
<1> DEFINE x == Accounted(it, ok)
           T == IF InTable(C) THEN [C EXCEPT ![run.slot] = x] ELSE C
           durable == InTable(C) /\ Durable(it, x)
           retired == InTable(C) /\ Announced(it, x)
           d == IF run.marked THEN agenda_flush(store, C, o1) ELSE store
<1>2. /\ power /\ run.slot # 0 /\ (~durable => o2 = "ok") /\ g_item' = T
      /\ store' = IF durable THEN agenda_flush(d, T, o2) ELSE d
      /\ lost' = IF durable THEN ~Succeeds(o2) ELSE IF run.marked THEN ~Succeeds(o1) ELSE lost
      /\ run' = NoRun /\ bootAt' \in Nat
      /\ stopped' = IF retired /\ Succeeds(o2) THEN stopped \cup {it.name} ELSE stopped
      /\ power' = power /\ g_runs' = g_runs /\ killers' = killers
  BY <1>1 DEF ClearMarker, TypeInv
<1>3. /\ g_item \in Seq(Items) /\ Distinct(g_item)
      /\ \A i \in DOMAIN g_item : g_item[i] \in Items
  BY TableFacts DEF TypeInv
<1>4. CASE run.slot \notin DOMAIN g_item
  <2>1. C = g_item /\ T = g_item /\ durable = FALSE /\ stopped' = stopped
    BY <1>2, <1>4 DEF InTable
  <2>2. ClearInv => \A i \in DOMAIN g_item : ~g_item[i].attempting
    BY <1>4 DEF ClearInv
  <2> HIDE DEF C, T, durable, retired, d
  <2>3. Silenced(T, stopped')
    BY <2>1 DEF StopInv
  <2>4. d = IF run.marked THEN agenda_flush(store, C, o1) ELSE store
    BY DEF d
  <2> QED BY <1>2, <1>3, <2>1, <2>2, <2>3, <2>4, FinishKeeps
<1>5. CASE run.slot \in DOMAIN g_item
  <2> DEFINE k == run.slot
             y == g_item[k]
             c == IF run.marked THEN [y EXCEPT !.attempting = FALSE] ELSE y
  <2>1. C = [g_item EXCEPT ![k] = c] /\ y \in Items /\ k \in DOMAIN g_item
    <3>1. y \in Items /\ k \in DOMAIN g_item
      BY <1>3, <1>5
    <3>2. CASE run.marked
      <4>1. C = [g_item EXCEPT ![run.slot].attempting = FALSE]
        BY <1>5, <3>2 DEF InTable
      <4>2. c = [g_item[run.slot] EXCEPT !.attempting = FALSE]
        BY <3>2
      <4> HIDE DEF C, c
      <4> QED BY <3>1, <4>1, <4>2
    <3>3. CASE ~run.marked
      <4>1. C = g_item /\ c = g_item[k]
        BY <3>3
      <4>2. g_item = [i \in DOMAIN g_item |-> g_item[i]]
        BY <1>3
      <4> HIDE DEF C, c
      <4> QED BY <3>1, <4>1, <4>2
    <3> QED BY <3>1, <3>2, <3>3
  <2> HIDE DEF y, C
  <2>2. /\ c \in Items /\ c.name = y.name /\ c.enabled = y.enabled
        /\ run.marked => c.attempting = FALSE
        /\ ~run.marked => c.attempting = y.attempting
    BY <2>1 DEF Items
  <2> HIDE DEF c
  <2>3. /\ C \in Seq(Items) /\ Distinct(C) /\ DOMAIN C = DOMAIN g_item /\ C[k] = c
        /\ \A i \in DOMAIN g_item \ {k} : C[i] = g_item[i]
    BY <1>3, <2>1, <2>2, ReplacedIs DEF y
  <2>4. it = c /\ T = [C EXCEPT ![k] = x] /\ durable = Durable(it, x) /\ retired = Announced(it, x)
    BY <1>5, <2>3 DEF InTable, Durable, Announced
  <2>5. it \in Items
    BY <2>2, <2>4
  <2> HIDE DEF it, T, durable, retired, d
  <2>6. /\ x \in Items /\ x.name = it.name /\ x.attempting = it.attempting
        /\ x.enabled => it.enabled
        /\ retired => ~x.enabled
        /\ retired <=> durable
    BY <2>4, <2>5, AccountedIs
  <2> HIDE DEF x
  <2>7. /\ T \in Seq(Items) /\ Distinct(T) /\ DOMAIN T = DOMAIN g_item /\ T[k] = x
        /\ \A i \in DOMAIN g_item \ {k} : T[i] = g_item[i]
    <3>1. k \in DOMAIN C /\ x.name = C[k].name
      BY <2>1, <2>3, <2>4, <2>6
    <3> QED BY <2>3, <2>4, <2>6, <3>1, ReplacedIs
  <2>8. \A i \in DOMAIN g_item :
          /\ C[i].name = g_item[i].name
          /\ C[i].enabled => g_item[i].enabled
          /\ T[i].name = g_item[i].name
          /\ T[i].enabled => g_item[i].enabled
    BY <2>2, <2>3, <2>4, <2>6, <2>7 DEF y
  <2>9. ClearInv => \A i \in DOMAIN g_item : ~C[i].attempting /\ ~T[i].attempting
    <3> SUFFICES ASSUME ClearInv, NEW i \in DOMAIN g_item
                 PROVE  ~C[i].attempting /\ ~T[i].attempting
      OBVIOUS
    <3>1. CASE i # k
      BY <3>1, <2>3, <2>7 DEF ClearInv
    <3>2. CASE i = k
      <4>1. ~c.attempting
        BY <2>1, <2>2 DEF ClearInv, y
      <4> QED BY <3>2, <4>1, <2>3, <2>4, <2>6, <2>7
    <3> QED BY <3>1, <3>2
  <2>10. Silenced(T, stopped')
    <3>1. \A i \in DOMAIN T : T[i].name \in stopped => ~T[i].enabled
      BY <2>7, <2>8 DEF StopInv, Silenced
    <3>2. retired => \A i \in DOMAIN T : T[i].name = it.name => ~T[i].enabled
      BY <2>6, <2>7, <2>1 DEF Distinct
    <3> QED BY <1>2, <3>1, <3>2 DEF Silenced
  <2>11. stopped' = stopped \/ (durable /\ Succeeds(o2))
    BY <1>2, <2>6
  <2>12. durable \in BOOLEAN /\ d = IF run.marked THEN agenda_flush(store, C, o1) ELSE store
    BY DEF d, durable
  <2> QED BY <1>2, <2>3, <2>7, <2>8, <2>9, <2>10, <2>11, <2>12, FinishKeeps
<1> QED BY <1>4, <1>5

-----------------------------------------------------------------------------
(* The document of a first boot.                                           *)
LEMMA InitInv == Init => TypeInv /\ StopInv /\ KillInv /\ ClearInv
<1> SUFFICES ASSUME Init PROVE TypeInv /\ StopInv /\ KillInv /\ ClearInv
  OBVIOUS
<1>1. /\ power = FALSE /\ g_item = <<>> /\ g_runs = 0 /\ bootAt = 0 /\ run = NoRun
      /\ store = Stored /\ lost = FALSE /\ stopped = {} /\ killers = {}
  BY DEF Init
<1>2. NoRun \in Runs /\ NoRun.slot = 0 /\ NoRun.marked = FALSE
  BY DEF NoRun, Runs
<1>3. g_item \in Seq(Items) /\ DOMAIN g_item = {}
  BY <1>1
<1> DEFINE F == [name : Names, when : Whens, max : Nat \ {0}, enabled : BOOLEAN,
                 attempting : {FALSE}]
<1>4. /\ store \in Seq(F) /\ \A i \in DOMAIN store : store[i] \in F
      /\ Len(store) \in Nat /\ DOMAIN store = 1..Len(store)
  BY <1>1, StoredAssumption, TableFacts
<1>5. \A x \in F : x \in Lines /\ ~x.attempting
  BY DEF Lines
<1> HIDE DEF F
<1>6. store \in Seq(Lines) /\ \A i \in DOMAIN store : ~store[i].attempting
  BY <1>4, <1>5
<1>7. Distinct(store)
  BY <1>1, StoredAssumption DEF Distinct
<1>8. TypeInv
  BY <1>1, <1>2, <1>3, <1>6, <1>7 DEF TypeInv, Distinct
<1>9. StopInv /\ KillInv /\ ClearInv
  BY <1>1, <1>2, <1>3, <1>6 DEF StopInv, KillInv, ClearInv, Silenced, Harmless
<1> QED BY <1>8, <1>9

(* Every step, whichever operation it is.                                  *)
LEMMA NextKeeps == TypeInv /\ StopInv /\ [Next]_vars => Kept
<1> SUFFICES ASSUME TypeInv, StopInv, [Next]_vars PROVE Kept
  OBVIOUS
<1>1. CASE UNCHANGED vars
  BY <1>1, IdleKeeps DEF vars
<1>2. CASE agenda_enable
  BY <1>2, IdleKeeps DEF agenda_enable, told
<1> QED BY <1>1, <1>2, BootKeeps, RunBootKeeps, TickKeeps, ElapseKeeps, ReturnKeeps,
           CrashKeeps, SaveKeeps, RemoveKeeps, SetEnabledKeeps, RunNowKeeps DEF Next

(* Who starts what: the boot pass and the tick only what is enabled.       *)
LEMMA StartsEnabled ==
  ASSUME TypeInv, StopInv, [Next]_vars, run.slot = 0, run'.slot # 0
  PROVE  run'.by \in {"tick", "boot"} =>
           \E k \in DOMAIN g_item : g_item[k].enabled /\ run'.name = g_item[k].name
<1>0. NoRun.slot = 0 /\ "now" \notin {"tick", "boot"}
  BY DEF NoRun
<1>1. CASE agenda_run_boot
  BY <1>1, RunBootKeeps
<1>2. CASE agenda_tick
  BY <1>2, TickKeeps
<1>3. CASE agenda_run_now
  BY <1>0, <1>3, RunNowKeeps
<1>4. CASE Boot \/ Crash \/ Finish
  <2>1. run' = NoRun
    BY <1>4 DEF Boot, Crash, Finish
  <2> QED BY <1>0, <2>1
<1>5. CASE run' = run
  BY <1>5
<1>6. CASE Elapse \/ agenda_save \/ agenda_remove \/ agenda_set_enabled \/ agenda_enable
           \/ UNCHANGED vars
  <2>1. run' = run
    BY <1>6 DEF Elapse, agenda_save, agenda_remove, agenda_set_enabled, agenda_enable,
                Edited, vars
  <2> QED BY <2>1
<1> QED BY <1>1, <1>2, <1>3, <1>4, <1>6 DEF Next

(* A retirement announced as for good (run_item's durable branches) is     *)
(* never undone by a power cycle, whatever an action does to the agenda.   *)
THEOREM StoppedStays == Spec => StoppedStaysStopped
<1>1. Init => TypeInv /\ StopInv
  BY InitInv
<1>2. TypeInv /\ StopInv /\ [Next]_vars => (TypeInv /\ StopInv)'
  BY NextKeeps DEF Kept
<1>3. TypeInv /\ StopInv /\ [Next]_vars =>
        [Starts({"tick", "boot"}) => run'.name \notin stopped]_vars
  BY StartsEnabled DEF Starts, StopInv, Silenced
<1> QED BY <1>1, <1>2, <1>3, PTL DEF Spec, StoppedStaysStopped

(* A boot item that was running when the machine went down is not started  *)
(* by agenda_run_boot again, as long as no action saves an item.           *)
THEOREM KillersStayOff ==
  ASSUME "save" \notin BodyEdits
  PROVE  Spec => NoSecondKill
<1>1. Init => TypeInv /\ StopInv /\ KillInv
  BY InitInv
<1>2. TypeInv /\ StopInv /\ KillInv /\ [Next]_vars => (TypeInv /\ StopInv /\ KillInv)'
  BY NextKeeps DEF Kept
<1>3. TypeInv /\ StopInv /\ KillInv /\ [Next]_vars =>
        [Starts({"boot"}) => run'.name \notin killers]_vars
  BY StartsEnabled DEF Starts, KillInv, Silenced
<1> QED BY <1>1, <1>2, <1>3, PTL DEF Spec, NoSecondKill

(* agenda_load finds a marker only on an item the machine went down in, if *)
(* the document was up to date, as long as no action removes an item.      *)
THEOREM InnocentsKept ==
  ASSUME "remove" \notin BodyEdits
  PROVE  Spec => InnocentNotRetired
<1>1. Init => TypeInv /\ StopInv /\ ClearInv
  BY InitInv
<1>2. TypeInv /\ StopInv /\ ClearInv /\ [Next]_vars => (TypeInv /\ StopInv /\ ClearInv)'
  BY NextKeeps DEF Kept
<1>3. TypeInv /\ StopInv /\ ClearInv /\ [Next]_vars =>
        [~power /\ power' /\ ~lost =>
           \A i \in DOMAIN store : store[i].attempting => store[i].name \in killers]_vars
  BY DEF ClearInv
<1> QED BY <1>1, <1>2, <1>3, PTL DEF Spec, InnocentNotRetired
=============================================================================
