----------------------------- MODULE CodePatch -----------------------------
(***************************************************************************)
(* The two ways the model edits the running kernel's .text:                *)
(*   - fault_patch (arch/x86_64/fault.c): checked against an expectation   *)
(*     and against instruction boundaries, refused over a live patch, kept *)
(*     in a table of FAULT_PATCH_SLOTS entries whose ids are never reused; *)
(*   - patch_apply / patch_rollback (tools/patch_tools.c with reduce_patch *)
(*     of core/state.c): by exported function name, one live patch per     *)
(*     name, no comparison of addresses or of bytes.                       *)
(* Neither knows of the other.                                             *)
(*                                                                         *)
(* Machine code is abstracted to one-byte instructions and an opcode, Long, *)
(* that takes one operand byte; direct memory access never fails, so the   *)
(* EIO paths of the bound accessor are left out.                           *)
(***************************************************************************)
EXTENDS Integers, Sequences, FiniteSets, SequencesExt

CONSTANTS
  Text,                \* .text as linked: a sequence of bytes
  Bytes, Long,
  Exported,            \* addresses of functions in .ksymtab
  FAULT_PATCH_SLOTS, FAULT_PATCH_MAX_BYTES,
  STATE_PATCH_MAX_SLOTS, STATE_PATCH_MAX_BYTES

ASSUME TextAssumption ==
  /\ Long \in Bytes
  /\ Text \in Seq(Bytes)
  /\ Exported \subseteq DOMAIN Text
  /\ {FAULT_PATCH_SLOTS, FAULT_PATCH_MAX_BYTES,
      STATE_PATCH_MAX_SLOTS, STATE_PATCH_MAX_BYTES} \subseteq Nat

VARIABLES
  text,        \* the bytes in memory
  g_patch,     \* fault.c's table, in order of id
  slots,       \* g_state.patch: the active slots, by function
  rc,          \* what the last call answered, when it was fault_patch_apply
  byName       \* history: patch_apply has written since boot

vars == <<text, g_patch, slots, rc, byName>>

Addrs == DOMAIN Text
Span(p) == p.addr .. p.addr + Len(p.bytes) - 1
Requests(max) == UNION {[addr : Addrs, bytes : [1 .. n -> Bytes]] : n \in 1 .. max}

(* Bytes b written at addr.                                                *)
Write(t, addr, b) ==
  [a \in DOMAIN t |-> IF a \in addr .. addr + Len(b) - 1 THEN b[a - addr + 1] ELSE t[a]]

(* One past the instruction at x, as long as there is one.                 *)
Following(b, x) ==
  IF x \in DOMAIN b THEN x + (IF b[x] = Long THEN 2 ELSE 1) ELSE x

(* The instruction boundaries met decoding b from its start, as the loop   *)
(* of span_insns does: 1, and one past each instruction.                   *)
Boundaries(b) ==
  LET at[k \in 0 .. Len(b)] == IF k = 0 THEN 1 ELSE Following(b, at[k - 1])
  IN {at[k] : k \in 0 .. Len(b)}

(* span_insns: b is a whole number of instructions.                        *)
span_insns(b) == Len(b) + 1 \in Boundaries(b)

Live == {i \in DOMAIN g_patch : g_patch[i].live}

Init ==
  /\ text = Text
  /\ g_patch = <<>>
  /\ slots = {}
  /\ rc = "none"
  /\ byName = FALSE

-----------------------------------------------------------------------------
(* Mutant: a live patch may be patched over.                               *)
patch_gate_NoGate6(req, stale) ==
  IF req.addr + Len(req.bytes) - 1 \notin Addrs THEN "ERANGE"
  ELSE IF stale THEN "EEXPECT"
  ELSE IF ~span_insns(SubSeq(text, req.addr, req.addr + Len(req.bytes) - 1)) THEN "EBOUNDARY"
  ELSE IF ~span_insns(req.bytes) THEN "EOPAQUE"
  ELSE "OK"

(* `stale`: the request's expected bytes are not the ones in memory.       *)
patch_gate(req, stale) ==
  IF req.addr + Len(req.bytes) - 1 \notin Addrs THEN "ERANGE"
  ELSE IF stale THEN "EEXPECT"
  ELSE IF ~span_insns(SubSeq(text, req.addr, req.addr + Len(req.bytes) - 1)) THEN "EBOUNDARY"
  ELSE IF ~span_insns(req.bytes) THEN "EOPAQUE"
  ELSE IF \E i \in Live : Span(g_patch[i]) \cap Span(req) # {} THEN "EOVERLAP"
  ELSE "OK"

(* Slots are handed out once: a reverted patch keeps its slot and its id.  *)
fault_patch_full == Len(g_patch) >= FAULT_PATCH_SLOTS

(* The patch is written if it passes the gates and there is a slot.  The    *)
(* caller names an instruction boundary: fault.h says that this cannot be   *)
(* decided from the bytes.                                                  *)
Apply(req, stale) ==
  LET gate == patch_gate(req, stale)
  IN /\ req.addr \in Boundaries(text)
     /\ rc' = IF gate = "OK" /\ fault_patch_full THEN "ENOSPC" ELSE gate
     /\ IF rc' = "OK"
        THEN /\ text' = Write(text, req.addr, req.bytes)
             /\ g_patch' = Append(g_patch,
                  [addr |-> req.addr, bytes |-> req.bytes, live |-> TRUE,
                   orig |-> SubSeq(text, req.addr, req.addr + Len(req.bytes) - 1)])
        ELSE UNCHANGED <<text, g_patch>>
     /\ UNCHANGED <<slots, byName>>

fault_patch_apply ==
  \E req \in Requests(FAULT_PATCH_MAX_BYTES), stale \in BOOLEAN : Apply(req, stale)

(* Mutant: whatever is there now is overwritten.                           *)
Reverted_Blind(t, p) ==
  IF p.live THEN <<Write(t, p.addr, p.orig), [p EXCEPT !.live = FALSE]>> ELSE <<t, p>>

(* One patch reverted over memory t: refused (EGONE, ECHANGED) when it is  *)
(* not live or the bytes are not the ones it wrote.                        *)
Reverted(t, p) ==
  IF p.live /\ SubSeq(t, p.addr, p.addr + Len(p.bytes) - 1) = p.bytes
  THEN <<Write(t, p.addr, p.orig), [p EXCEPT !.live = FALSE]>>
  ELSE <<t, p>>

fault_patch_revert ==
  \E i \in DOMAIN g_patch :
    /\ text' = Reverted(text, g_patch[i])[1]
    /\ g_patch' = [g_patch EXCEPT ![i] = Reverted(text, @)[2]]
    /\ rc' = "none"
    /\ UNCHANGED <<slots, byName>>

(* Newest first: undo[k] is the memory after the last k slots of the table. *)
fault_patch_revert_all ==
  LET n == Len(g_patch)
      undo[k \in 0 .. n] ==
        IF k = 0 THEN text ELSE Reverted(undo[k - 1], g_patch[n + 1 - k])[1]
  IN /\ text' = undo[n]
     /\ g_patch' = [i \in 1 .. n |-> Reverted(undo[n - i], g_patch[i])[2]]
     /\ rc' = "none"
     /\ UNCHANGED <<slots, byName>>

-----------------------------------------------------------------------------
(* reduce_patch, ACT_PATCH_APPLY: what is written and what it replaces.    *)
reduce_patch_apply(a, bytes) ==
  slots \cup {[addr |-> a, bytes |-> bytes, orig |-> SubSeq(text, a, a + Len(bytes) - 1)]}

(* reduce_patch, ACT_PATCH_ROLLBACK: the slot of that name is cleared.     *)
reduce_patch_rollback(a) == {s \in slots : s.addr # a}

(* patch_apply: the function is named by its address.                      *)
patch_apply ==
  \E req \in Requests(STATE_PATCH_MAX_BYTES) :
    /\ req.addr \in Exported
    /\ req.addr + Len(req.bytes) - 1 \in Addrs
    /\ \A s \in slots : s.addr # req.addr
    /\ Cardinality(slots) < STATE_PATCH_MAX_SLOTS
    /\ text' = Write(text, req.addr, req.bytes)
    /\ slots' = reduce_patch_apply(req.addr, req.bytes)
    /\ rc' = "none"
    /\ byName' = TRUE
    /\ UNCHANGED g_patch

(* patch_rollback restores without looking.                                *)
patch_rollback ==
  \E s \in slots :
    /\ text' = Write(text, s.addr, s.orig)
    /\ slots' = reduce_patch_rollback(s.addr)
    /\ rc' = "none"
    /\ UNCHANGED <<g_patch, byName>>

Next ==
  \/ fault_patch_apply
  \/ fault_patch_revert
  \/ fault_patch_revert_all
  \/ patch_apply
  \/ patch_rollback

Spec == Init /\ [][Next]_vars

-----------------------------------------------------------------------------
(* Properties.                                                             *)

TypeOK ==
  /\ text \in [Addrs -> Bytes]
  /\ Len(g_patch) <= FAULT_PATCH_SLOTS
  /\ Cardinality(slots) <= STATE_PATCH_MAX_SLOTS
  /\ Live \subseteq DOMAIN g_patch

(* No patch leaves the tail of an instruction to be executed as an opcode: *)
(* the instruction boundaries the linker laid down are still boundaries,   *)
(* except inside a live patch.                                             *)
BoundariesKept ==
  \A a \in Boundaries(Text) :
    a \in Boundaries(text) \/ \E i \in Live : a \in Span(g_patch[i]) /\ a # g_patch[i].addr

(* As long as only fault_patch edits .text, memory is what the linker left *)
(* with the live patches laid over it, in any order of patching, reverting *)
(* and patching again, whole instructions at a time: so every live patch   *)
(* can be taken back, and taking all of them back leaves the kernel as it  *)
(* was built.                                                              *)
LinkedPlusLive ==
  /\ TypeOK
  /\ ~byName =>
       /\ BoundariesKept
       /\ \A a \in Addrs :
            text[a] = IF \E i \in Live : a \in Span(g_patch[i])
                      THEN LET p == g_patch[CHOOSE i \in Live : a \in Span(g_patch[i])]
                           IN p.bytes[a - p.addr + 1]
                      ELSE Text[a]

(* A revert never undoes another writer's edit: it only ever replaces the  *)
(* bytes that its own patch wrote.                                         *)
RevertOnlyOwnBytes ==
  [][\A i \in Live \ Live' : \A a \in Span(g_patch[i]) :
       text[a] = g_patch[i].bytes[a - g_patch[i].addr + 1]]_vars

-----------------------------------------------------------------------------
(* What the documentation says and the code does not keep; README.md,      *)
(* Observations, gives the behaviours.                                     *)

(* tools/patch_tools.c: "with a per-function rollback store so every patch *)
(* is undoable", and patch_rollback is to "restore an exported function's  *)
(* original bytes": with every patch rolled back, the code is as linked.   *)
NothingLiveMeansPristine == slots = {} /\ Live = {} => text = Text

(* include/fault.h: FAULT_PATCH_SLOTS is "live patches at once", and       *)
(* ENOSPC means "every slot is in use".                                    *)
EnospcMeansAllLive == rc = "ENOSPC" => Cardinality(Live) = FAULT_PATCH_SLOTS
=============================================================================
