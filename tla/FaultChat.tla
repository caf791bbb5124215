----------------------------- MODULE FaultChat -----------------------------
(***************************************************************************)
(* The kernel asking the model about a fault it survived (net/faultchat.c, *)
(* reduce_faultchat of core/state.c), over the patches of CodePatch.       *)
(*                                                                         *)
(* The idle pass calls faultchat_pump.  Control leaves it once, inside     *)
(* model_send, where other fibers run and the machine may fault again, so  *)
(* it is cut there: faultchat_pump up to the request, Answer from the      *)
(* reply on.  Faults are those the machine survived - traps, planned       *)
(* recoveries and escapes, see Fault - and come at any moment.  Tools are  *)
(* called by the same loop and so never while a request is in flight.      *)
(***************************************************************************)
EXTENDS CodePatch

CONSTANTS
  FAULTCHAT_MAX_DIAGNOSES, FAULTCHAT_MAX_PATCHES, FAULTCHAT_MAX_PER_RIP,
  FAULTCHAT_RIP_SLOTS,
  FAULTS      \* bound: faults of one boot

(* The counters of as many addresses are kept as there are diagnoses.      *)
ASSUME RipSlotsAssumption ==
  /\ {FAULTCHAT_MAX_DIAGNOSES, FAULTCHAT_MAX_PATCHES, FAULTCHAT_MAX_PER_RIP,
      FAULTCHAT_RIP_SLOTS} \subseteq Nat
  /\ FAULTCHAT_RIP_SLOTS >= FAULTCHAT_MAX_DIAGNOSES

VARIABLES
  count,     \* fault_count()
  last,      \* the rip of fault_last()
  plan,      \* a recovery plan is armed
  fc,        \* g_state.faultchat
  before,    \* fault_count() when the request in flight was sent, 0 if none is
  asked,     \* history: address -> requests about a fault there
  requests,  \* history: requests sent
  written,   \* history: patches written by faultchat_apply_patch
  struck     \* history: the machine has faulted with a request in flight

code == <<text, g_patch, slots, rc, byName>>
allvars == <<code, count, last, plan, fc, before, asked, requests, written, struck>>

NoRip == [rip |-> 0, tries |-> 0]

(* fc_do_reset, by faultchat_bind at boot: with or without a transport.    *)
Bound(transport) ==
  [transport |-> transport, enabled |-> TRUE, busy |-> FALSE, off |-> FALSE,
   seen |-> 0, diagnoses |-> 0, patches |-> 0,
   rip_table |-> [i \in 0 .. FAULTCHAT_RIP_SLOTS - 1 |-> NoRip], rip_next |-> 0]

ChatInit ==
  /\ Init
  /\ count = 0 /\ last = 0 /\ plan = FALSE
  /\ \E transport \in BOOLEAN : fc = Bound(transport)
  /\ before = 0
  /\ asked = [a \in Addrs |-> 0] /\ requests = 0 /\ written = 0 /\ struck = FALSE

-----------------------------------------------------------------------------
(* A fault the machine survives; a plan may be used up by it.              *)
Survive(rip) ==
  /\ count < FAULTS
  /\ count' = count + 1 /\ last' = rip
  /\ plan' \in {plan, FALSE}
  /\ struck' = (struck \/ before # 0)
  /\ UNCHANGED <<code, fc, before, asked, requests, written>>

(* The slot that counts the diagnoses of rip, if there is one.             *)
RipSlots(f, rip) ==
  {i \in DOMAIN f.rip_table : f.rip_table[i].tries # 0 /\ f.rip_table[i].rip = rip}

rip_tries(f, rip) ==
  IF RipSlots(f, rip) = {} THEN 0
  ELSE f.rip_table[CHOOSE i \in RipSlots(f, rip) : TRUE].tries

(* Mutant: the table is filled in turn, whoever is in it already.          *)
rip_bump_Always(f, rip) ==
  [f EXCEPT !.rip_table[f.rip_next % FAULTCHAT_RIP_SLOTS] =
              [rip |-> rip, tries |-> 1],
            !.rip_next = @ + 1]

rip_bump(f, rip) ==
  IF RipSlots(f, rip) # {}
  THEN [f EXCEPT !.rip_table[CHOOSE i \in RipSlots(f, rip) : TRUE].tries = @ + 1]
  ELSE [f EXCEPT !.rip_table[f.rip_next % FAULTCHAT_RIP_SLOTS] =
                   [rip |-> rip, tries |-> 1],
                 !.rip_next = @ + 1]

(* faultchat_pump up to model_send.  Every fault so far is claimed before  *)
(* anything can fail; the attempt is counted whether or not a request is   *)
(* sent: there may be no transport, or it may not fit its buffer.          *)
faultchat_pump ==
  LET f    == [fc EXCEPT !.seen = count]
      sent == rip_bump([f EXCEPT !.diagnoses = @ + 1], last)
  IN /\ before = 0 /\ ~fc.busy /\ fc.enabled /\ ~fc.off /\ count # fc.seen
     /\ \/ /\ f.diagnoses >= FAULTCHAT_MAX_DIAGNOSES
           /\ fc' = [f EXCEPT !.off = TRUE]
           /\ UNCHANGED <<before, asked, requests>>
        \/ /\ f.diagnoses < FAULTCHAT_MAX_DIAGNOSES
           /\ rip_tries(f, last) >= FAULTCHAT_MAX_PER_RIP
           /\ fc' = f
           /\ UNCHANGED <<before, asked, requests>>
        \/ /\ f.diagnoses < FAULTCHAT_MAX_DIAGNOSES
           /\ rip_tries(f, last) < FAULTCHAT_MAX_PER_RIP
           /\ \/ fc' = sent /\ UNCHANGED <<before, asked, requests>>
              \/ /\ fc.transport
                 /\ fc' = [sent EXCEPT !.busy = TRUE]
                 /\ before' = count
                 /\ asked' = [asked EXCEPT ![last] = @ + 1]
                 /\ requests' = requests + 1
     /\ UNCHANGED <<code, count, last, plan, written, struck>>

-----------------------------------------------------------------------------
(* Guard 3: the module disables itself for the rest of the boot.           *)
latch_off(f) == [f EXCEPT !.off = TRUE]

(* model_send has returned.                                                *)
Idle == [fc EXCEPT !.busy = FALSE]

(* The reply's patch, counted against the allowance if the tool accepts it. *)
Counted(accepted) == fc' = [Idle EXCEPT !.patches = IF accepted THEN @ + 1 ELSE @]

(* faultchat_apply_patch: the allowance, then the fault_patch tool on the  *)
(* reply as it stands.  The tool also reverts and lists, and what it does  *)
(* not refuse counts as a patch.                                           *)
faultchat_apply_patch ==
  IF fc.patches >= FAULTCHAT_MAX_PATCHES
  THEN fc' = Idle /\ UNCHANGED <<code, written>>
  ELSE \/ /\ fault_patch_apply
          /\ Counted(rc' = "OK")
          /\ written' = IF rc' = "OK" THEN written + 1 ELSE written
       \/ fault_patch_revert /\ Counted(g_patch' # g_patch) /\ UNCHANGED written
       \/ fault_patch_revert_all /\ Counted(TRUE) /\ UNCHANGED written
       \/ Counted(TRUE) /\ UNCHANGED <<code, written>>

(* faultchat_apply_fix: the fault_recover tool arms or clears the plan, or *)
(* refuses.                                                                *)
faultchat_apply_fix == plan' \in BOOLEAN

(* The reply, applied: a patch or none, then a plan or none.               *)
Obey ==
  /\ \/ fc' = Idle /\ UNCHANGED <<code, written>>
     \/ faultchat_apply_patch
  /\ faultchat_apply_fix

(* Mutant: a failed exchange returns early, with `busy` still set.         *)
Unanswered_StillBusy == UNCHANGED <<code, plan, fc, written>>

(* No reply, or none that is whole, has status 200 and parses: nothing is  *)
(* changed.                                                                *)
Unanswered == fc' = Idle /\ UNCHANGED <<code, plan, written>>

(* Mutant: a reply is discarded only when the transport says so.           *)
Answer_Trusted ==
  /\ before # 0 /\ before' = 0
  /\ (Unanswered \/ Obey)
  /\ UNCHANGED <<count, last, asked, requests, struck>>

(* Guard 2: a reply that came while the machine faulted is discarded.      *)
Answer ==
  /\ before # 0 /\ before' = 0
  /\ \/ count # before /\ fc' = latch_off(Idle) /\ UNCHANGED <<code, plan, written>>
     \/ count = before /\ (Unanswered \/ Obey)
  /\ UNCHANGED <<count, last, asked, requests, struck>>

faultchat_enable(on) ==
  /\ before = 0 /\ fc.enabled # on
  /\ fc' = [fc EXCEPT !.enabled = on]
  /\ UNCHANGED <<code, count, last, plan, before, asked, requests, written, struck>>

(* The same two tools, called in a conversation.                           *)
t_fault_patch ==
  /\ before = 0
  /\ fault_patch_apply \/ fault_patch_revert \/ fault_patch_revert_all
  /\ UNCHANGED <<count, last, plan, fc, before, asked, requests, written, struck>>

t_fault_recover ==
  /\ before = 0 /\ plan' = ~plan
  /\ UNCHANGED <<code, count, last, fc, before, asked, requests, written, struck>>

ChatNext ==
  \/ \E rip \in Addrs : Survive(rip)
  \/ faultchat_pump
  \/ Answer
  \/ \E on \in BOOLEAN : faultchat_enable(on)
  \/ t_fault_patch
  \/ t_fault_recover

(* Every idle pass calls the pump, and an exchange ends: the transport has *)
(* a deadline.                                                             *)
ChatSpec ==
  ChatInit /\ [][ChatNext]_allvars
    /\ WF_allvars(faultchat_pump) /\ WF_allvars(Answer)

-----------------------------------------------------------------------------
(* Properties.                                                             *)

(* What the machine does unattended is bounded: in one boot no address is  *)
(* asked about more than FAULTCHAT_MAX_PER_RIP times - although only so    *)
(* many addresses are counted - at most FAULTCHAT_MAX_DIAGNOSES requests   *)
(* are sent and FAULTCHAT_MAX_PATCHES patches written, however faults,     *)
(* failures and patches by hand alternate.                                 *)
UnattendedBounded ==
  /\ \A a \in Addrs : asked[a] <= FAULTCHAT_MAX_PER_RIP
  /\ requests <= FAULTCHAT_MAX_DIAGNOSES
  /\ written <= FAULTCHAT_MAX_PATCHES

(* A reply changes only the machine it was given for: once the machine has *)
(* faulted with a request in flight, that request's reply touches neither  *)
(* the code nor the plan, and nothing is asked for or written on a reply   *)
(* again, until the next boot.                                             *)
AnswerForThisMachine ==
  [][struck => /\ requests' = requests /\ written' = written
               /\ before # 0 /\ before' = 0 => UNCHANGED <<code, plan>>]_allvars

(* Every fault that was survived is taken up by the pump or the module has *)
(* switched itself off, whatever became of the requests before it: no path *)
(* out of an exchange leaves the module busy.                              *)
FaultIsClaimed ==
  count # fc.seen ~> (count = fc.seen \/ fc.off \/ ~fc.enabled)
=============================================================================
