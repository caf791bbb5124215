------------------------------- MODULE Agenda -------------------------------
(***************************************************************************)
(* What the machine does unasked (core/agenda.c): a table of items, the    *)
(* document it is written to after every change, the run of one item       *)
(* inside a fault guard, the boot pass and the idle tick, and power cycles *)
(* that keep the document and nothing else.                                *)
(*                                                                         *)
(* An item's action may itself edit the agenda: a tool item may call       *)
(* agenda_save or agenda_control, and a sentence starts a turn that may.   *)
(* run_item keeps a pointer into the table across it; here, run.slot.      *)
(*                                                                         *)
(* What an action does otherwise is an outcome. The clock is abstracted to *)
(* `due`: an item's next_ms is 0 or has been reached. Validation, wording  *)
(* and statistics nobody reads back are left out.                          *)
(***************************************************************************)
EXTENDS Integers, Sequences, FiniteSets, SequencesExt

CONSTANTS
  Names, Whens, MaxRuns,
  AGENDA_MAX_ITEMS, AGENDA_MAX_FAILURES, AGENDA_MAX_RUNS_TOTAL,
  Stored,       \* the document a first boot finds
  Operator,     \* what is asked for at the prompt: a subset of Edits
  BodyEdits     \* what an action itself may do to the agenda

Edits == {"save", "remove", "enable", "switch", "run_now"}

ASSUME AgendaAssumption ==
  /\ Whens \subseteq {"boot", "every", "once"}
  /\ MaxRuns \subseteq Nat \ {0}
  /\ AGENDA_MAX_ITEMS \in Nat /\ AGENDA_MAX_RUNS_TOTAL \in Nat
  /\ AGENDA_MAX_FAILURES \in Nat \ {0}
  /\ Operator \subseteq Edits /\ BodyEdits \subseteq Edits \ {"run_now"}

(* store_load takes one item of a name, and a machine that was never on    *)
(* has left no marker.                                                     *)
ASSUME StoredAssumption ==
  /\ Stored \in Seq([name : Names, when : Whens, max : Nat \ {0},
                     enabled : BOOLEAN, attempting : {FALSE}])
  /\ \A i, j \in DOMAIN Stored : Stored[i].name = Stored[j].name => i = j

VARIABLES
  power,       \* the machine is up
  g_item,      \* the table, in memory
  store,       \* what the document says; empty when it does not parse
  g_on,        \* the master switch
  g_runs,      \* autonomous actions this boot
  bootAt,      \* agenda_run_boot's index; 0 once the prompt is up
  run,         \* the action in flight: slot (0: none), name, who started it, marked
  (* What the operator was told, for the properties.                       *)
  lost,        \* the last write of the document reported an error
  wanted,      \* items the operator asked to have and has not been told of as stopped
  stopped,     \* items retired for good, on disk
  killers      \* boot items in flight when the machine went down

vars == <<power, g_item, store, g_on, g_runs, bootAt, run, lost, wanted, stopped, killers>>
told == <<wanted, stopped, killers>>

NoRun == [slot |-> 0, name |-> "", by |-> "", marked |-> FALSE]
Idle == power /\ bootAt = 0 /\ run.slot = 0
NameSet(t) == {t[i].name : i \in DOMAIN t}
SlotOf(t, n) == CHOOSE i \in DOMAIN t : t[i].name = n

(* An item as asked for, before it has run.                                *)
Item(n, w, max, on) ==
  [name |-> n, when |-> w, max |-> max, enabled |-> on, attempting |-> FALSE,
   runs |-> 0, failures |-> 0, due |-> TRUE]

(* render: the half of an item that is written down.                       *)
Rendered(t) ==
  [i \in DOMAIN t |-> [name |-> t[i].name, when |-> t[i].when, max |-> t[i].max,
                       enabled |-> t[i].enabled, attempting |-> t[i].attempting]]

(* agenda_flush of table t over document s. The file is truncated, then    *)
(* written: it can fail to open, and it can fail half way. (Power lost     *)
(* half way is the latter followed by Crash.) vfs_open does not look at    *)
(* what truncate returns: success may be reported over a document with     *)
(* the tail of a longer one, which does not parse.                         *)
FlushResults == {"ok", "noopen", "short", "tail"}
agenda_flush(s, t, o) ==
  CASE o = "ok"     -> Rendered(t)
    [] o = "noopen" -> s
    [] OTHER        -> <<>>

(* agenda_flush returns AGENDA_OK.                                         *)
Succeeds(o) == o \in {"ok", "tail"}

FlushAs(t, o) ==
  /\ store' = agenda_flush(store, t, o)
  /\ lost' = ~Succeeds(o)

Init ==
  /\ power = FALSE
  /\ g_item = <<>> /\ g_on = TRUE /\ g_runs = 0 /\ bootAt = 0 /\ run = NoRun
  /\ store = Stored
  /\ lost = FALSE
  /\ wanted = {Stored[i].name : i \in {j \in DOMAIN Stored : Stored[j].enabled}}
  /\ stopped = {} /\ killers = {}

-----------------------------------------------------------------------------
(* Mutant: a marker found in the store is cleared and the item left on.    *)
Loaded_KeepsOn(x) == Item(x.name, x.when, x.max, x.enabled)

(* An item read back: the since-boot half starts again, and an item found  *)
(* still marked is disabled.                                               *)
Loaded(x) == Item(x.name, x.when, x.max, x.enabled /\ ~x.attempting)

(* agenda_bringup, up to its boot pass: agenda_load, which rewrites the    *)
(* document when it retired something on the way in. A document that does  *)
(* not parse is an empty agenda.                                           *)
Boot ==
  LET t == [i \in DOMAIN store |-> Loaded(store[i])]
      marked == {store[i].name : i \in {j \in DOMAIN store : store[j].attempting}}
  IN /\ ~power
     /\ power' = TRUE
     /\ g_item' = t
     /\ g_on' = TRUE /\ g_runs' = 0 /\ bootAt' = 1 /\ run' = NoRun
     /\ IF marked = {} THEN UNCHANGED <<store, lost>>
                       ELSE \E o \in FlushResults : FlushAs(t, o)
     /\ wanted' = (wanted \cap NameSet(t)) \ marked
     /\ stopped' = stopped \cap NameSet(t)
     /\ killers' = killers \cap NameSet(t)

-----------------------------------------------------------------------------
(* run_item up to the guard. A boot item is marked in the store first; if  *)
(* that cannot be written it runs unmarked.                                *)
Begin(k, by) ==
  LET it == g_item[k]
      counted == [it EXCEPT !.runs = @ + 1]
      marking == [g_item EXCEPT ![k] = [counted EXCEPT !.attempting = TRUE]]
  IN /\ g_runs' = g_runs + 1
     /\ IF it.when = "boot"
        THEN \E o \in FlushResults :
               /\ FlushAs(marking, o)
               /\ g_item' = IF Succeeds(o) THEN marking ELSE [g_item EXCEPT ![k] = counted]
               /\ run' = [slot |-> k, name |-> it.name, by |-> by, marked |-> Succeeds(o)]
        ELSE /\ g_item' = [g_item EXCEPT ![k] = counted]
             /\ run' = [slot |-> k, name |-> it.name, by |-> by, marked |-> FALSE]
             /\ UNCHANGED <<store, lost>>

(* Mutant: the refusal changes nothing.                                    *)
Exhausted_Silent(k) == UNCHANGED <<g_item, g_runs, run, store, lost>>

(* run_item when the boot's actions are used up: the item is disabled.     *)
Exhausted(k) ==
  /\ g_item' = [g_item EXCEPT ![k].enabled = FALSE]
  /\ UNCHANGED <<g_runs, run, store, lost>>

run_item(k, by) ==
  IF g_runs >= AGENDA_MAX_RUNS_TOTAL THEN Exhausted(k) ELSE Begin(k, by)

(* One turn of agenda_run_boot's loop.                                     *)
agenda_run_boot ==
  /\ power /\ bootAt > 0 /\ run.slot = 0
  /\ IF bootAt > Len(g_item)
     THEN bootAt' = 0 /\ UNCHANGED <<g_item, store, g_runs, run, lost>>
     ELSE IF g_on /\ g_item[bootAt].enabled /\ g_item[bootAt].when = "boot"
     THEN /\ run_item(bootAt, "boot")
          /\ bootAt' = IF run'.slot # 0 THEN bootAt ELSE bootAt + 1
     ELSE bootAt' = bootAt + 1 /\ UNCHANGED <<g_item, store, g_runs, run, lost>>
  /\ UNCHANGED <<power, g_on, told>>

(* pick_due's condition on one item.                                       *)
Due(it) ==
  /\ it.enabled
  /\ it.runs < it.max
  /\ it.when # "boot"
  /\ it.when = "every" => it.due

pick_due == CHOOSE k \in DOMAIN g_item :
              Due(g_item[k]) /\ \A j \in 1 .. k - 1 : ~Due(g_item[j])

agenda_tick ==
  /\ Idle /\ g_on
  /\ \E k \in DOMAIN g_item : Due(g_item[k])
  /\ run_item(pick_due, "tick")
  /\ UNCHANGED <<power, g_on, bootAt, told>>

(* next_ms is reached.                                                     *)
Elapse ==
  \E k \in DOMAIN g_item :
    /\ Idle /\ ~g_item[k].due
    /\ g_item' = [g_item EXCEPT ![k].due = TRUE]
    /\ UNCHANGED <<power, store, g_on, g_runs, bootAt, run, lost, told>>

-----------------------------------------------------------------------------
(* run_item past the guard.                                                *)

(* The item a run is accounted to: whatever is now in its slot. A slot     *)
(* past the end of the table is written and never read.                    *)
InTable(t) == run.slot \in DOMAIN t

(* The outcome counted, and retirement: an item is disabled, or waits for  *)
(* its next period.                                                        *)
Accounted(it, ok) ==
  LET f == IF ok THEN 0 ELSE it.failures + 1
      x == [it EXCEPT !.failures = f]
  IN IF f >= AGENDA_MAX_FAILURES \/ it.runs >= it.max \/ it.when # "every"
     THEN [x EXCEPT !.enabled = FALSE]
     ELSE [x EXCEPT !.due = FALSE]

(* Mutant: the retirement stays in memory.                                 *)
Durable_Never(it, x) == FALSE

(* Which retirements are written down: it before, x after the accounting.  *)
Durable(it, x) ==
  \/ x.failures >= AGENDA_MAX_FAILURES
  \/ it.runs < it.max /\ it.when = "once"

(* Of which retirements the operator is told that they are for good, not   *)
(* "disabled until the next boot".                                         *)
Announced(it, x) ==
  \/ x.failures >= AGENDA_MAX_FAILURES
  \/ it.when = "once" /\ it.runs < it.max

(* Mutant: the marker is cleared in memory only.                           *)
ClearMarker_InMemory(t, o) == store

(* The document after the marker has been cleared in table t.              *)
ClearMarker(t, o) == IF run.marked THEN agenda_flush(store, t, o) ELSE store

(* The guard has returned, normally or by an escape (a failure): the       *)
(* marker is cleared on disk, the run accounted, a retirement written.     *)
Finish ==
  \E ok \in BOOLEAN, o1, o2 \in FlushResults :
    LET cleared == IF run.marked /\ InTable(g_item)
                   THEN [g_item EXCEPT ![run.slot].attempting = FALSE] ELSE g_item
        store1 == ClearMarker(cleared, o1)
        it == cleared[run.slot]
        x == Accounted(it, ok)
        t == IF InTable(cleared) THEN [cleared EXCEPT ![run.slot] = x] ELSE cleared
        durable == InTable(cleared) /\ Durable(it, x)
        retired == InTable(cleared) /\ Announced(it, x)
    IN /\ power /\ run.slot # 0
       /\ ~run.marked => o1 = "ok"
       /\ ~durable => o2 = "ok"
       /\ g_item' = t
       /\ store' = IF durable THEN agenda_flush(store1, t, o2) ELSE store1
       /\ lost' = IF durable THEN ~Succeeds(o2) ELSE IF run.marked THEN ~Succeeds(o1) ELSE lost
       /\ run' = NoRun
       /\ bootAt' = IF bootAt > 0 THEN bootAt + 1 ELSE 0
       /\ wanted' = IF retired THEN wanted \ {it.name} ELSE wanted
       /\ stopped' = IF retired /\ Succeeds(o2) THEN stopped \cup {it.name} ELSE stopped
       /\ UNCHANGED <<power, g_on, g_runs, killers>>

-----------------------------------------------------------------------------
(* Edits, at the prompt or from inside an action.                          *)
May(what) ==
  \/ Idle /\ what \in Operator
  \/ power /\ run.slot # 0 /\ what \in BodyEdits

(* Every edit rewrites the document; the operator is told if that failed.  *)
Edited(t) ==
  /\ g_item' = t
  /\ \E o \in FlushResults : FlushAs(t, o)
  /\ UNCHANGED <<power, g_on, g_runs, bootAt, run>>

agenda_save ==
  \E n \in Names, w \in Whens, max \in MaxRuns :
    LET it == Item(n, w, max, TRUE)
    IN /\ May("save")
       /\ IF n \in NameSet(g_item)
          THEN Edited([g_item EXCEPT ![SlotOf(g_item, n)] = it])
          ELSE Len(g_item) < AGENDA_MAX_ITEMS /\ Edited(Append(g_item, it))
       /\ wanted' = wanted \cup {n}
       /\ stopped' = stopped \ {n} /\ killers' = killers \ {n}

agenda_remove ==
  \E k \in DOMAIN g_item :
    /\ May("remove")
    /\ Edited(RemoveAt(g_item, k))
    /\ wanted' = wanted \ {g_item[k].name}
    /\ stopped' = stopped \ {g_item[k].name} /\ killers' = killers \ {g_item[k].name}

agenda_set_enabled ==
  \E k \in DOMAIN g_item, on \in BOOLEAN :
    LET it == g_item[k]
        n == it.name
    IN /\ May("enable")
       /\ Edited([g_item EXCEPT ![k] = [it EXCEPT !.enabled = on,
                                                  !.failures = IF on THEN 0 ELSE @]])
       /\ wanted' = IF on THEN wanted \cup {n} ELSE wanted \ {n}
       /\ stopped' = IF on THEN stopped \ {n} ELSE stopped
       /\ killers' = IF on THEN killers \ {n} ELSE killers

agenda_enable ==
  /\ May("switch")
  /\ g_on' = ~g_on
  /\ UNCHANGED <<power, g_item, store, g_runs, bootAt, run, lost, told>>

(* Neither the item's schedule nor its bounds are consulted; from inside   *)
(* an action it is refused, AGENDA_EBUSY.                                  *)
agenda_run_now ==
  \E k \in DOMAIN g_item :
    /\ Idle /\ g_on /\ "run_now" \in Operator
    /\ run_item(k, "now")
    /\ UNCHANGED <<power, g_on, bootAt, told>>

-----------------------------------------------------------------------------
(* The machine dies: a hang, a triple fault, a halt, the mains. Memory is  *)
(* gone, the document is not.                                              *)
Crash ==
  /\ power
  /\ power' = FALSE
  /\ g_item' = <<>> /\ g_on' = TRUE /\ g_runs' = 0 /\ bootAt' = 0 /\ run' = NoRun
  /\ killers' = IF run.slot # 0 /\ run.marked THEN killers \cup {run.name} ELSE killers
  /\ UNCHANGED <<store, lost, wanted, stopped>>

Next ==
  \/ Boot \/ agenda_run_boot \/ agenda_tick \/ Elapse \/ Finish \/ Crash
  \/ agenda_save \/ agenda_remove \/ agenda_set_enabled \/ agenda_enable \/ agenda_run_now

Spec == Init /\ [][Next]_vars

(* The idle loop keeps coming back to agenda_tick, and an action ends: its *)
(* tool returns or faults, and a turn is bounded by its rounds. (A machine *)
(* that hangs instead is Crash, which nothing forces.)                     *)
Fairness == WF_vars(agenda_run_boot) /\ WF_vars(agenda_tick) /\ WF_vars(Finish)
LiveSpec == Spec /\ Fairness

-----------------------------------------------------------------------------
(* Properties.                                                             *)

Starts(by) == run.slot = 0 /\ run'.slot # 0 /\ run'.by \in by

(* A boot item that took the machine down is not started by the boot pass  *)
(* again until somebody enables or saves it again: one crash, not a brick. *)
NoSecondKill == [][Starts({"boot"}) => run'.name \notin killers]_vars

(* agenda_load disables an item for its marker only when the machine went  *)
(* down inside that item, or the document could not be brought up to date. *)
InnocentNotRetired ==
  [][~power /\ power' /\ ~lost =>
       \A i \in DOMAIN store : store[i].attempting => store[i].name \in killers]_vars

(* A retirement announced as for good, for failures or because a once-item *)
(* has run, outlives the boot: neither the tick nor the boot pass starts   *)
(* the item again, however many power cycles later, until it is enabled or *)
(* saved again.                                                            *)
StoppedStaysStopped ==
  [][Starts({"tick", "boot"}) => run'.name \notin stopped]_vars

(* What the operator asked for and was not told had stopped is armed again *)
(* by the next boot: core/agenda.c, "a when=boot item MUST re-arm".        *)
WantedRearms ==
  [][~power /\ power' =>
       \A i \in DOMAIN g_item' : g_item'[i].name \in wanted' => g_item'[i].enabled]_vars

IsDue(n) == \E i \in DOMAIN g_item : g_item[i].name = n /\ Due(g_item[i])

(* An item that is due while the agenda is on is served: it runs, or is    *)
(* disabled with a reason, however often the items before it in the table  *)
(* come due (pick_due takes the first), unless the agenda is switched off. *)
DueIsServed ==
  \A n \in Names :
    (Idle /\ g_on /\ IsDue(n)) ~> (run.name = n \/ ~IsDue(n) \/ ~g_on)

-----------------------------------------------------------------------------
(* What the documentation says and the code does not keep; README.md,      *)
(* Observations, gives the behaviours.                                     *)

(* include/agenda.h: a once-item runs "at the next tick, then disable      *)
(* itself", which core/agenda.c calls durable.                             *)
OnceIsDurable ==
  [][run.slot \in DOMAIN g_item /\ run' = NoRun /\ power' /\ ~lost' =>
       (g_item[run.slot].when = "once" =>
          \A i \in DOMAIN store' : store'[i].name = run.name => ~store'[i].enabled)]_vars

(* include/agenda.h: item->max_runs is "how many times one item may run    *)
(* per boot".                                                              *)
MaxRunsHeld == \A i \in DOMAIN g_item : g_item[i].runs <= g_item[i].max
=============================================================================
