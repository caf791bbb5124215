------------------------------ MODULE MainLoop ------------------------------
(***************************************************************************)
(* Who calls the turn loop (kernel/main.c): the agenda's boot items before *)
(* the prompt exists, then for ever the idle pass (wait_for_sentence,      *)
(* idle_work, at most one due agenda item, the Telegram inbox, the         *)
(* console), the checks on the sentence it returns, the turn, and the      *)
(* Telegram auto-reply.  Composes Chat.                                    *)
(*                                                                         *)
(* An agenda sentence runs inside fault_guard_run: a fatal exception under *)
(* it abandons the call chain and comes back to the agenda (module Fault). *)
(* A console or Telegram turn has no guard; a fatal exception there halts  *)
(* the machine, which ends the behaviour.                                  *)
(***************************************************************************)
EXTENDS Chat

CONSTANTS
  CHATS,        \* Telegram chat ids; positive, so never the console's 0
  ESCAPES       \* bound: fatal exceptions under a guarded agenda sentence

ASSUME LoopConstants ==
  /\ CHATS \subseteq Nat \ {0}
  /\ ESCAPES \in Nat

VARIABLES
  phase,      \* where the boot sequence or the main loop stands
  caller,     \* whose chat_ask is on the stack: "agenda", "loop" or "none"
  active,     \* g_state.telegram.active_chat_id, 0 for none
  sent,       \* g_state.telegram.sent
  line,       \* [from, truncated]: the sender of the sentence in hand, 0 for
              \* the console, and input_line_was_truncated(), which
              \* only a console line changes
  escapes,    \* fatal exceptions so far
  struck,     \* history: one of them since chat_turn_ended last ran
  grabbed,    \* history: the chat whose sentence a text field took, until the
              \* next message from Telegram or the next reply; 0 for none
  mine,       \* history: the turn this sentence started, 0 if refused
  out         \* history: the last auto-reply, or NoOut

tgVars   == <<active, sent, line, grabbed, mine, out>>
loopVars == <<phase, caller, active, sent, line, escapes, struck, grabbed, mine, out>>
vars     == <<chatVars, loopVars>>

NoLine == [from |-> 0, truncated |-> FALSE]
NoOut  == [to |-> 0, text |-> 0]

-----------------------------------------------------------------------------
(* agenda_bringup: each boot item that says something starts a turn.       *)
BootAsk ==
  /\ phase = "boot"
  /\ caller = "none"
  /\ \/ \E l \in SIZES : Ask(l)
     \/ AskRefused
  /\ caller' = IF pc' = "out" THEN "none" ELSE "agenda"
  /\ UNCHANGED <<phase, active, sent, line, escapes, struck, grabbed, mine, out>>

Ready ==
  /\ phase = "boot"
  /\ caller = "none"
  /\ phase' = "idle"
  /\ UNCHANGED <<chatVars, caller, active, sent, line, escapes, struck, grabbed, mine, out>>

(* Mutant: the idle pass does not declare the last turn over.              *)
IdleWorkBare ==
  /\ phase = "idle"
  /\ phase' = "tick"
  /\ UNCHANGED <<chatVars, caller, active, sent, line, escapes, struck, grabbed, mine, out>>

(* idle_work: chat_turn_ended, then agenda_tick runs one due item or none. *)
IdleWork ==
  /\ phase = "idle"
  /\ in_turn' = FALSE
  /\ phase' = "tick"
  /\ UNCHANGED <<transport, hist, epoch, rounds, retries, journal,
                 journal_total, text, pc, reply, rc, turn, log>>
  /\ struck' = FALSE
  /\ UNCHANGED <<caller, active, sent, line, escapes, grabbed, mine, out>>

TickAsk ==
  /\ phase = "tick"
  /\ caller = "none"
  /\ \E l \in SIZES : Ask(l)
  /\ caller' = IF pc' = "out" THEN "none" ELSE "agenda"
  /\ phase' = "poll"
  /\ UNCHANGED <<active, sent, line, escapes, struck, grabbed, mine, out>>

NothingDue ==
  /\ phase = "tick"
  /\ phase' = "poll"
  /\ UNCHANGED <<chatVars, caller, active, sent, line, escapes, struck, grabbed, mine, out>>

(* A fatal exception under an agenda sentence: control is back in the      *)
(* agenda and nothing on the abandoned call chain runs.                    *)
Escape ==
  /\ caller = "agenda"
  /\ escapes < ESCAPES
  /\ escapes' = escapes + 1
  /\ struck' = TRUE
  /\ pc' = "out"
  /\ reply' = NoReply
  /\ caller' = "none"
  /\ UNCHANGED <<transport, hist, epoch, in_turn, rounds, retries, journal,
                 journal_total, text, rc, turn, log>>
  /\ UNCHANGED <<phase, active, sent, line, grabbed, mine, out>>

-----------------------------------------------------------------------------
(* tg_poll with a message pending, and the console with a line.  The pass  *)
(* ends here or goes round again.  A message without a usable chat_id has  *)
(* the id 0.  Mutant: the chat id is taken from the newest message of the  *)
(* inbox, the text from the oldest.                                        *)
TelegramLineNewest(c) ==
  /\ phase = "poll"
  /\ caller = "none"
  /\ active' \in CHATS
  /\ line' = [line EXCEPT !.from = c]
  /\ phase' = "line"
  /\ grabbed' = 0
  /\ UNCHANGED <<chatVars, caller, sent, escapes, struck, mine, out>>

TelegramLine(c) ==
  /\ phase = "poll"
  /\ caller = "none"
  /\ active' = c
  /\ line' = [line EXCEPT !.from = c]
  /\ phase' = "line"
  /\ grabbed' = 0
  /\ UNCHANGED <<chatVars, caller, sent, escapes, struck, mine, out>>

(* tg_poll when the sentence does not fit the line buffer.                 *)
TelegramTooLong ==
  /\ phase = "poll"
  /\ caller = "none"
  /\ active' = 0
  /\ sent' = FALSE
  /\ grabbed' = 0
  /\ UNCHANGED <<chatVars, phase, caller, line, escapes, struck, mine, out>>

ConsoleLine(cutOff) ==
  /\ phase = "poll"
  /\ caller = "none"
  /\ line' = [from |-> 0, truncated |-> cutOff]
  /\ phase' = "line"
  /\ UNCHANGED <<chatVars, caller, active, sent, escapes, struck, grabbed, mine, out>>

(* Bare Enter: the main loop asks again.                                   *)
BareEnter ==
  /\ phase = "poll"
  /\ caller = "none"
  /\ line' = [line EXCEPT !.truncated = FALSE]
  /\ phase' = "idle"
  /\ UNCHANGED <<chatVars, caller, active, sent, escapes, struck, grabbed, mine, out>>

NoLineYet ==
  /\ phase = "poll"
  /\ caller = "none"
  /\ phase' = "idle"
  /\ UNCHANGED <<chatVars, caller, active, sent, line, escapes, struck, grabbed, mine, out>>

(* The sentence has been dealt with.                                       *)
Dismiss == line' = [line EXCEPT !.from = 0]

(* The truncation check and the text field's claim on the line: a click    *)
(* arms a field for one line, whoever sends it (gui_take_line).            *)
RefuseTruncated ==
  /\ phase = "line"
  /\ active = 0
  /\ line.truncated
  /\ phase' = "idle"
  /\ Dismiss
  /\ UNCHANGED <<chatVars, caller, active, sent, escapes, struck, grabbed, mine, out>>

Passed == active # 0 \/ ~line.truncated

TakenByField ==
  /\ phase = "line"
  /\ Passed
  /\ phase' = "idle"
  /\ Dismiss
  /\ grabbed' = IF line.from = 0 THEN grabbed ELSE line.from
  /\ UNCHANGED <<chatVars, caller, active, sent, escapes, struck, mine, out>>

(* net_retry_resolve succeeds: the model is reachable after all.           *)
Reconnect ==
  /\ phase = "line"
  /\ Passed
  /\ ~transport
  /\ ChatInit(TRUE)
  /\ UNCHANGED loopVars

LoopAsk ==
  /\ phase = "line"
  /\ Passed
  /\ \/ \E l \in SIZES : Ask(l)
     \/ AskRefused
  /\ caller' = IF pc' = "out" THEN "none" ELSE "loop"
  /\ mine' = IF rc' = "EREENTER" /\ turn' = turn THEN 0 ELSE turn'
  /\ out' = NoOut
  /\ phase' = "asked"
  /\ UNCHANGED <<active, sent, line, escapes, struck, grabbed>>

(* The turn is over: the auto-reply, when a chat is active and             *)
(* telegram.sent is clear; then ACT_TG_TURN_COMPLETE.  An empty text_buf   *)
(* sends a fixed error note, text 0.                                       *)
AutoReply ==
  /\ phase = "asked"
  /\ caller = "none"
  /\ IF active = 0
     THEN UNCHANGED <<active, sent, out>>
     ELSE /\ out' = IF sent THEN NoOut ELSE [to |-> active, text |-> text]
          /\ active' = 0
          /\ sent' = FALSE
  /\ phase' = "replied"
  /\ UNCHANGED <<chatVars, caller, line, escapes, struck, grabbed, mine>>

NextSentence ==
  /\ phase = "replied"
  /\ phase' = "idle"
  /\ Dismiss
  /\ grabbed' = 0
  /\ mine' = 0
  /\ out' = NoOut
  /\ UNCHANGED <<chatVars, caller, active, sent, escapes, struck>>

-----------------------------------------------------------------------------
(* Steps of the turn in progress; telegram_send raises telegram.sent.      *)
Back == caller' = IF pc' = "out" THEN "none" ELSE caller

TurnStep ==
  /\ caller # "none"
  /\ Wire \/ Loop
  /\ Back
  /\ UNCHANGED <<phase, active, sent, line, escapes, struck, grabbed, mine, out>>

ToolStep(sends) ==
  /\ caller # "none"
  /\ DispatchTool
  /\ sent' = (sent \/ sends)
  /\ UNCHANGED <<phase, caller, active, line, escapes, struck, grabbed, mine, out>>

LoopInit ==
  /\ Init
  /\ phase = "boot"
  /\ caller = "none"
  /\ active = 0
  /\ sent = FALSE
  /\ line = NoLine
  /\ escapes = 0
  /\ struck = FALSE
  /\ grabbed = 0
  /\ mine = 0
  /\ out = NoOut

Idle ==
  \/ Ready
  \/ IdleWork
  \/ NothingDue
  \/ NoLineYet
  \/ RefuseTruncated
  \/ AutoReply
  \/ NextSentence

LoopNext ==
  \/ BootAsk
  \/ TickAsk
  \/ Escape
  \/ \E c \in {0} \cup CHATS : TelegramLine(c)
  \/ TelegramTooLong
  \/ \E b \in BOOLEAN : ConsoleLine(b)
  \/ BareEnter
  \/ TakenByField
  \/ Reconnect
  \/ LoopAsk
  \/ Idle
  \/ TurnStep
  \/ \E b \in BOOLEAN : ToolStep(b)

LoopSpec == LoopInit /\ [][LoopNext]_vars

(* The loop itself never waits for anybody: an idle pass, the handling of  *)
(* a sentence in hand and a turn in progress go on by themselves.          *)
LoopLiveSpec ==
  LoopSpec /\ WF_vars(Idle \/ LoopAsk) /\ WF_vars(TurnStep \/ ToolStep(FALSE))

-----------------------------------------------------------------------------
(* Properties.                                                             *)

LoopTypeOK ==
  /\ TypeOK
  /\ phase \in {"boot", "idle", "tick", "poll", "line", "asked", "replied"}
  /\ caller \in {"none", "agenda", "loop"}
  /\ (caller = "none") = (pc = "out")
  /\ active \in {0} \cup CHATS
  /\ line \in [from : {0} \cup CHATS, truncated : BOOLEAN]
  /\ escapes \in 0..ESCAPES
  /\ grabbed \in {0} \cup CHATS
  /\ mine \in 0..MAXTURNS
  /\ out \in [to : {0} \cup CHATS, text : 0..MAXTURNS]

(* The auto-reply goes to the chat whose sentence was answered: the active *)
(* chat id and the sentence in hand belong together, through turns that    *)
(* fault and sentences that do not fit.  A sentence typed at the console   *)
(* is answered to a chat only when a text field has taken that chat's last *)
(* sentence and nothing was answered since (kernel/main.c's loop; the      *)
(* exception is OnlyTelegramAnswered, below).  And the text sent back is   *)
(* what the turn for this sentence said: text_buf does not carry an        *)
(* earlier turn's words to Telegram (chat_ask_body), unless an agenda      *)
(* sentence of this very pass has faulted.                                 *)
ReplyGoesToAsker ==
  /\ LoopTypeOK
  /\ phase = "replied" /\ out # NoOut =>
       /\ out.to = IF line.from # 0 THEN line.from ELSE grabbed
       /\ ~struck => out.text \in {0, mine}

(* chat_ask answers CHAT_EREENTER only from inside another chat_ask: the   *)
(* operator is not refused between turns, however many turns have faulted  *)
(* before, unless an agenda sentence of this very pass has.                *)
OperatorNotRefused ==
  phase = "asked" /\ caller = "none" /\ ~struck => rc # "EREENTER"

(* After a fault has escaped out of a turn the guard flag does not stay up *)
(* for good: the machine can be spoken to again (chat_turn_ended).         *)
GuardComesDown == (in_turn /\ pc = "out") ~> ~in_turn

-----------------------------------------------------------------------------
(* What the documentation says and the code does not keep.                 *)

(* kernel/main.c on the auto-reply: "if the sentence came from Telegram".  *)
(* A text field that takes a Telegram sentence leaves active_chat_id set,  *)
(* and the next sentence typed at the console is answered to that chat.    *)
OnlyTelegramAnswered ==
  phase = "replied" /\ out # NoOut => out.to = line.from

(* include/chat.h on CHAT_EREENTER: "chat_ask() called from inside a       *)
(* chat_ask()".  The idle pass lowers the guard flag, then runs the agenda *)
(* item that may fault, then polls for the sentence it refuses.            *)
RefusedOnlyInside ==
  phase = "asked" /\ caller = "none" => rc # "EREENTER"
=============================================================================
