-------------------------------- MODULE Chat --------------------------------
(***************************************************************************)
(* The agentic turn loop (net/chat.c with the chat reducer of              *)
(* core/state.c).  One call of chat_ask is one turn: the sentence is       *)
(* appended to a fixed history, the whole history is sent, the tools the   *)
(* reply asks for are run, their results are appended, and so on until the *)
(* reply is plain prose or the round budget is spent.                      *)
(*                                                                         *)
(* The history is an arena of raw bytes plus an index of entries into it.  *)
(* A byte of the arena is modelled by WHAT it is a byte of (a content      *)
(* record), so that a compaction which moves the wrong bytes shows.        *)
(*                                                                         *)
(* The loop is sequential and is never preempted by other chat code; its   *)
(* steps are cut where control leaves it: at each request (other fibers    *)
(* run while the transport waits) and at each tool call (which may fault   *)
(* or call chat_ask again).                                                *)
(***************************************************************************)
EXTENDS Integers, Sequences, FiniteSets

CONSTANTS
  HISTORY_BYTES,    \* CHAT_HISTORY_BYTES
  HISTORY_MSGS,     \* CHAT_HISTORY_MSGS
  MAX_ROUNDS,       \* CHAT_MAX_ROUNDS
  MAX_TOOL_CALLS,   \* CHAT_MAX_TOOL_CALLS
  SEND_RETRIES,     \* CHAT_SEND_RETRIES
  JOURNAL_ENTRIES,  \* CHAT_JOURNAL_ENTRIES
  EPOCHS,           \* the number of values of the uint16_t epoch
  SIZES,            \* the content lengths that are tried
  REQ_ROOMS,        \* history bytes a request may have room for
  ASKS,             \* the numbers of tool_use blocks a reply may carry
  MAXTURNS          \* bound: turns started in a behaviour

ASSUME ChatConstants ==
  /\ {HISTORY_BYTES, HISTORY_MSGS, MAX_ROUNDS, MAX_TOOL_CALLS,
      JOURNAL_ENTRIES, EPOCHS, MAXTURNS} \subseteq Nat \ {0}
  /\ SEND_RETRIES \in Nat
  /\ SIZES \subseteq Nat \ {0}
  /\ ASKS \subseteq Nat \ {0}
  /\ REQ_ROOMS \subseteq Nat

VARIABLES
  transport,      \* g_state.chat.transport is not NULL
  hist,           \* [msgs, arena]: the index and the bytes in use
  epoch,          \* g_state.chat.epoch
  in_turn,        \* g_state.chat.in_turn
  rounds,         \* g_state.chat.stat_rounds
  retries,        \* g_state.chat.stat_retries
  journal,        \* g_state.chat.journal, a ring
  journal_total,  \* g_state.chat.journal_total
  text,           \* text_buf: 0 when empty, else the turn that wrote it
  pc,             \* where chat_ask_body stands; "out" outside a turn
  reply,          \* the tool_use blocks of the reply being worked through
  rc,             \* what the last chat_ask returned
  turn,           \* history: how many turns were ever started
  log             \* history: every journalled call, oldest first

turnVars == <<epoch, in_turn, rounds, retries, pc, rc, turn>>
chatVars == <<transport, hist, epoch, in_turn, rounds, retries, journal,
              journal_total, text, pc, reply, rc, turn, log>>

USER == "user"
ASSISTANT == "assistant"
NoReply == [n |-> 0, cut |-> FALSE, done |-> 0]

Codes == {"OK", "EINVAL", "ENOSPC", "ETRANSPORT", "EPROTO", "EHTTP",
          "ELIMIT", "EHISTORY", "EREENTER"}

(* What a message says: the sentence, a reply with n tool_use blocks, the  *)
(* n results that answer it, or the final prose; the turn and the round    *)
(* stand for the ids that tie a tool_result to its tool_use.               *)
Content(kind, round, n) ==
  [kind |-> kind, turn |-> turn, round |-> round, n |-> n]

-----------------------------------------------------------------------------
(* The bounded history.                                                    *)

Empty == [msgs |-> <<>>, arena |-> <<>>]

Used(h) == Len(h.arena)

(* hist_drop_oldest_epoch: all leading entries of the first entry's epoch, *)
(* unless that is the epoch in flight.                                     *)
DropOldestEpoch(h, ep) ==
  IF h.msgs = <<>> \/ h.msgs[1].epoch = ep THEN h
  ELSE LET same == {i \in DOMAIN h.msgs :
                      \A j \in 1..i : h.msgs[j].epoch = h.msgs[1].epoch}
           k     == CHOOSE i \in same : \A j \in same : j <= i
           bytes == h.msgs[k].off + h.msgs[k].len
       IN [msgs  |-> [i \in 1..(Len(h.msgs) - k) |->
                        [h.msgs[i + k] EXCEPT !.off = @ - bytes]],
           arena |-> SubSeq(h.arena, bytes + 1, Used(h))]

(* Mutant: the entries behind the dropped pair keep their offsets.         *)
DropAttemptUnshifted(h, ep) ==
  IF Len(h.msgs) < 3 \/ \E i \in 1..3 : h.msgs[i].epoch # ep THEN h
  ELSE LET off   == h.msgs[2].off
           bytes == h.msgs[2].len + h.msgs[3].len
       IN [msgs  |-> [i \in 1..(Len(h.msgs) - 2) |->
                        IF i = 1 THEN h.msgs[1] ELSE h.msgs[i + 2]],
           arena |-> SubSeq(h.arena, 1, off)
                       \o SubSeq(h.arena, off + bytes + 1, Used(h))]

(* hist_drop_oldest_attempt: the first (assistant, user) pair behind the   *)
(* sentence of the turn in flight, when that turn is all there is.         *)
DropOldestAttempt(h, ep) ==
  IF \/ Len(h.msgs) < 3
     \/ \E i \in 1..3 : h.msgs[i].epoch # ep
     \/ h.msgs[2].role # ASSISTANT
     \/ h.msgs[3].role # USER
  THEN h
  ELSE LET off   == h.msgs[2].off
           bytes == h.msgs[2].len + h.msgs[3].len
       IN [msgs  |-> [i \in 1..(Len(h.msgs) - 2) |->
                        IF i = 1 THEN h.msgs[1]
                        ELSE [h.msgs[i + 2] EXCEPT !.off = @ - bytes]],
           arena |-> SubSeq(h.arena, 1, off)
                       \o SubSeq(h.arena, off + bytes + 1, Used(h))]

HasRoom(h, need) ==
  /\ Len(h.msgs) < HISTORY_MSGS
  /\ Used(h) + need <= HISTORY_BYTES

(* One pass of hist_reserve's loop: an old exchange goes, or else an old   *)
(* attempt of the turn in flight.                                          *)
MakeRoom(h, ep, need) ==
  IF HasRoom(h, need) THEN h
  ELSE LET d == DropOldestEpoch(h, ep)
       IN IF d # h THEN d ELSE DropOldestAttempt(h, ep)

(* hist_reserve: until it fits or nothing more can go.  One entry at least *)
(* goes per pass, so there are at most HISTORY_MSGS of them.               *)
Reserve(h, ep, need) ==
  LET after[i \in 0..HISTORY_MSGS] ==
        IF i = 0 THEN h ELSE MakeRoom(after[i - 1], ep, need)
  IN after[HISTORY_MSGS]

(* build_request's loop: old exchanges go until the rest fits the request. *)
Trim(h, ep, room) ==
  LET after[i \in 0..HISTORY_MSGS] ==
        IF i = 0 THEN h
        ELSE IF Used(after[i - 1]) <= room THEN after[i - 1]
        ELSE DropOldestEpoch(after[i - 1], ep)
  IN after[HISTORY_MSGS]

(* hist_commit, at the end of the arena.                                   *)
Commit(h, ep, role, content, len) ==
  [msgs  |-> Append(h.msgs, [off |-> Used(h), len |-> len,
                             epoch |-> ep, role |-> role]),
   arena |-> h.arena \o [i \in 1..len |-> content]]

(* Mutant: the rollback does not look at the epoch.                        *)
RollbackAll(h, ep) == Empty

(* hist_rollback_epoch: pop the trailing entries of the current epoch.     *)
Rollback(h, ep) ==
  LET own  == {i \in DOMAIN h.msgs :
                 \A j \in i..Len(h.msgs) : h.msgs[j].epoch = ep}
      keep == Len(h.msgs) - Cardinality(own)
  IN IF own = {} THEN h
     ELSE [msgs  |-> SubSeq(h.msgs, 1, keep),
           arena |-> SubSeq(h.arena, 1, h.msgs[keep + 1].off)]

-----------------------------------------------------------------------------
(* The journal ring.                                                       *)

Record(did) ==
  LET e == [seq |-> journal_total + 1, turn |-> epoch, did |-> did]
  IN /\ journal_total' = journal_total + 1
     /\ journal' = [journal EXCEPT ![journal_total % JOURNAL_ENTRIES] = e]
     /\ log' = Append(log, e)

ActionCount ==
  IF journal_total < JOURNAL_ENTRIES THEN journal_total ELSE JOURNAL_ENTRIES

(* Mutant: the ring is read from slot 0 also once it has wrapped.          *)
ActionAtUnwrapped(i) == journal[i % JOURNAL_ENTRIES]

ActionAt(i) ==
  LET base == IF journal_total <= JOURNAL_ENTRIES THEN 0
              ELSE journal_total % JOURNAL_ENTRIES
  IN journal[(base + i) % JOURNAL_ENTRIES]

-----------------------------------------------------------------------------
(* How a turn ends.                                                        *)

End(code) ==
  /\ in_turn' = FALSE
  /\ pc' = "out"
  /\ rc' = code
  /\ reply' = NoReply

(* Mutants: a failed turn returns past TURN_END, or without a rollback.    *)
AbortLeavesGuardUp(h, ep, code) ==
  /\ hist' = Rollback(h, ep)
  /\ pc' = "out"
  /\ rc' = code
  /\ reply' = NoReply
  /\ UNCHANGED in_turn

AbortKeepsHistory(h, ep, code) ==
  /\ hist' = h
  /\ End(code)

(* abort_turn *)
Abort(h, ep, code) ==
  /\ hist' = Rollback(h, ep)
  /\ End(code)

-----------------------------------------------------------------------------
(* chat_init: bind a transport and forget everything.                      *)
ChatInit(t) ==
  /\ transport' = t
  /\ hist' = Empty
  /\ epoch' = 0
  /\ in_turn' = FALSE
  /\ rounds' = 0
  /\ retries' = 0
  /\ journal_total' = 0
  /\ log' = <<>>
  /\ UNCHANGED <<journal, text, pc, reply, rc, turn>>

(* chat_ask up to the loop, outside a turn: TURN_BEGIN, then the head of   *)
(* chat_ask_body.  The escaped sentence reserves one byte more than it     *)
(* keeps.                                                                  *)
Ask(len) ==
  LET ep == (epoch + 1) % EPOCHS
      h  == Reserve(hist, ep, len + 1)
  IN /\ pc = "out"
     /\ ~in_turn
     /\ turn < MAXTURNS
     /\ turn' = turn + 1
     /\ epoch' = ep
     /\ rounds' = 0
     /\ retries' = 0
     /\ text' = 0
     /\ \/ /\ ~transport
           /\ End("ETRANSPORT")
           /\ UNCHANGED hist
        \/ /\ transport
           /\ ~HasRoom(h, len + 1)
           /\ Abort(h, ep, "EHISTORY")
        \/ /\ transport
           /\ HasRoom(h, len + 1)
           /\ hist' = Commit(h, ep, USER, [kind |-> "say", turn |-> turn + 1,
                                           round |-> 0, n |-> 0], len)
           /\ in_turn' = TRUE
           /\ pc' = "round"
           /\ UNCHANGED <<reply, rc>>
     /\ UNCHANGED <<transport, journal, journal_total, log>>

(* chat_ask while the guard is up: nothing but the return code changes.    *)
AskRefused ==
  /\ in_turn
  /\ rc' = "EREENTER"
  /\ UNCHANGED <<transport, hist, epoch, in_turn, rounds, retries, journal,
                 journal_total, text, pc, reply, turn, log>>

(* The top of the loop: the round cap, then build_request.                 *)
StopAtCap ==
  /\ pc = "round"
  /\ rounds >= MAX_ROUNDS
  /\ Abort(hist, epoch, "ELIMIT")
  /\ UNCHANGED <<transport, epoch, rounds, retries, journal, journal_total,
                 text, turn, log>>

(* Mutant: a request over budget forgets one message, not one exchange.    *)
BuildRequestDropsOne(room) ==
  /\ pc = "round"
  /\ rounds < MAX_ROUNDS
  /\ hist' = IF Used(hist) <= room \/ Len(hist.msgs) = 1 THEN hist
             ELSE LET k == hist.msgs[1].len
                  IN [msgs  |-> [i \in 1..(Len(hist.msgs) - 1) |->
                                   [hist.msgs[i + 1] EXCEPT !.off = @ - k]],
                      arena |-> SubSeq(hist.arena, k + 1, Used(hist))]
  /\ pc' = "sent"
  /\ UNCHANGED <<transport, epoch, in_turn, rc, reply, rounds, retries, journal,
                 journal_total, text, turn, log>>

(* build_request, which fails when the turn alone does not fit or when     *)
(* what model_build wrote does not parse.                                  *)
BuildRequest(room) ==
  LET h == Trim(hist, epoch, room)
  IN /\ pc = "round"
     /\ rounds < MAX_ROUNDS
     /\ \/ /\ Used(h) <= room
           /\ hist' = h
           /\ pc' = "sent"
           /\ UNCHANGED <<in_turn, rc, reply>>
        \/ /\ Used(h) <= room
           /\ Abort(h, epoch, "EINVAL")
        \/ /\ Used(h) > room
           /\ Abort(h, epoch, "ENOSPC")
     /\ UNCHANGED <<transport, epoch, rounds, retries, journal, journal_total,
                    text, turn, log>>

(* model_send fails.  A retry spends no round.                             *)
SendFails(retryable) ==
  /\ pc = "sent"
  /\ IF retryable /\ retries < SEND_RETRIES
     THEN /\ retries' = retries + 1
          /\ pc' = "round"
          /\ UNCHANGED <<hist, in_turn, rc, reply, rounds>>
     ELSE /\ rounds' = rounds + 1
          /\ Abort(hist, epoch, "ETRANSPORT")
          /\ UNCHANGED retries
  /\ UNCHANGED <<transport, epoch, journal, journal_total, text, turn, log>>

(* Mutant: a rate-limited request is retried without counting the retry.   *)
HttpErrorUncounted(retryable, said) ==
  /\ pc = "sent"
  /\ text' = IF said THEN turn ELSE text
  /\ IF retryable
     THEN /\ pc' = "round"
          /\ UNCHANGED <<hist, in_turn, rc, reply, rounds>>
     ELSE /\ rounds' = rounds + 1
          /\ Abort(hist, epoch, "EHTTP")
  /\ UNCHANGED <<retries, transport, epoch, journal, journal_total, turn, log>>

(* The API answers, but not with 200; its error message lands in text_buf. *)
HttpError(retryable, said) ==
  /\ pc = "sent"
  /\ text' = IF said THEN turn ELSE text
  /\ IF retryable /\ retries < SEND_RETRIES
     THEN /\ retries' = retries + 1
          /\ pc' = "round"
          /\ UNCHANGED <<hist, in_turn, rc, reply, rounds>>
     ELSE /\ rounds' = rounds + 1
          /\ Abort(hist, epoch, "EHTTP")
          /\ UNCHANGED retries
  /\ UNCHANGED <<transport, epoch, journal, journal_total, turn, log>>

(* A reply that is cut off, is not JSON, has no content, asks for a tool   *)
(* with no usable id, or for more tools than one request can answer.       *)
BadReply(code) ==
  /\ pc = "sent"
  /\ rounds' = rounds + 1
  /\ Abort(hist, epoch, code)
  /\ UNCHANGED <<transport, epoch, retries, journal, journal_total, text,
                 turn, log>>

(* Mutant: the tools run also when the history did not take the reply.     *)
ToolReplyUnchecked(n, len, cut, prose) ==
  LET h == Reserve(hist, epoch, len)
  IN /\ pc = "sent"
     /\ rounds' = rounds + 1
     /\ hist' = IF HasRoom(h, len)
                THEN Commit(h, epoch, ASSISTANT, Content("use", rounds + 1, n), len) ELSE h
     /\ pc' = "run"
     /\ reply' = [n |-> n, cut |-> cut, done |-> 0]
     /\ text' = IF prose THEN turn ELSE text
     /\ UNCHANGED <<in_turn, rc, transport, epoch, retries, journal,
                    journal_total, turn, log>>

(* A reply with n tool_use blocks, remembered before anything runs.        *)
ToolReply(n, len, cut, prose) ==
  LET h == Reserve(hist, epoch, len)
  IN /\ pc = "sent"
     /\ rounds' = rounds + 1
     /\ \/ /\ ~HasRoom(h, len)
           /\ Abort(h, epoch, "EHISTORY")
           /\ UNCHANGED text
        \/ /\ HasRoom(h, len)
           /\ hist' = Commit(h, epoch, ASSISTANT, Content("use", rounds + 1, n), len)
           /\ pc' = "run"
           /\ reply' = [n |-> n, cut |-> cut, done |-> 0]
           /\ text' = IF prose THEN turn ELSE text
           /\ UNCHANGED <<in_turn, rc>>
     /\ UNCHANGED <<transport, epoch, retries, journal, journal_total, turn, log>>

(* Mutant: an answer with no room to be remembered is not rolled back.     *)
FinalReplyKept(len, prose) ==
  LET h == Reserve(hist, epoch, len)
  IN /\ pc = "sent"
     /\ rounds' = rounds + 1
     /\ text' = IF prose THEN turn ELSE text
     /\ hist' = IF HasRoom(h, len)
                THEN Commit(h, epoch, ASSISTANT, Content("fin", rounds + 1, 0), len) ELSE h
     /\ End("OK")
     /\ UNCHANGED <<transport, epoch, retries, journal, journal_total, turn, log>>

(* A reply of prose alone ends the turn, remembered if there is room.      *)
FinalReply(len, prose) ==
  LET h == Reserve(hist, epoch, len)
  IN /\ pc = "sent"
     /\ rounds' = rounds + 1
     /\ text' = IF prose THEN turn ELSE text
     /\ hist' = IF HasRoom(h, len)
                THEN Commit(h, epoch, ASSISTANT, Content("fin", rounds + 1, 0), len)
                ELSE Rollback(h, epoch)
     /\ End("OK")
     /\ UNCHANGED <<transport, epoch, retries, journal, journal_total, turn, log>>

Answered == [reply EXCEPT !.done = @ + 1]

IsCutOff == reply.cut /\ reply.done = reply.n - 1

(* Pass 2, one tool_use block at a time.                                   *)
RefuseTool ==
  /\ pc = "run"
  /\ reply.done < reply.n
  /\ reply.done >= MAX_TOOL_CALLS
  /\ reply' = Answered
  /\ UNCHANGED <<transport, hist, journal, journal_total, text, log, turnVars>>

CutTool ==
  /\ pc = "run"
  /\ reply.done < reply.n
  /\ reply.done < MAX_TOOL_CALLS
  /\ IsCutOff
  /\ reply' = Answered
  /\ Record("cut")
  /\ UNCHANGED <<transport, hist, text, turnVars>>

DispatchTool ==
  /\ pc = "run"
  /\ reply.done < reply.n
  /\ reply.done < MAX_TOOL_CALLS
  /\ ~IsCutOff
  /\ reply' = Answered
  /\ Record("ran")
  /\ UNCHANGED <<transport, hist, text, turnVars>>

(* All blocks answered: the tool_result turn goes into the history, unless *)
(* the results did not fit blocks_buf or do not fit the history.           *)
RecordResults(len) ==
  LET h == Reserve(hist, epoch, len)
  IN /\ pc = "run"
     /\ reply.done = reply.n
     /\ \/ /\ HasRoom(h, len)
           /\ hist' = Commit(h, epoch, USER, Content("res", rounds, reply.done), len)
           /\ pc' = "round"
           /\ reply' = NoReply
           /\ UNCHANGED <<in_turn, rc>>
        \/ /\ ~HasRoom(h, len)
           /\ Abort(h, epoch, "EHISTORY")
        \/ Abort(hist, epoch, "ENOSPC")
     /\ UNCHANGED <<transport, epoch, rounds, retries, journal, journal_total,
                    text, turn, log>>

-----------------------------------------------------------------------------
Init ==
  /\ transport \in BOOLEAN
  /\ hist = Empty
  /\ epoch = 0
  /\ in_turn = FALSE
  /\ rounds = 0
  /\ retries = 0
  /\ journal = [i \in 0..(JOURNAL_ENTRIES - 1) |->
                  [seq |-> 0, turn |-> 0, did |-> "none"]]
  /\ journal_total = 0
  /\ text = 0
  /\ pc = "out"
  /\ reply = NoReply
  /\ rc = "OK"
  /\ turn = 0
  /\ log = <<>>

(* What the loop does once the transport or a tool has come back.          *)
Wire ==
  \/ \E b \in BOOLEAN : SendFails(b)
  \/ \E b, s \in BOOLEAN : HttpError(b, s)
  \/ \E c \in {"EPROTO", "ENOSPC"} : BadReply(c)
  \/ \E n \in ASKS, l \in SIZES, c, p \in BOOLEAN : ToolReply(n, l, c, p)
  \/ \E l \in SIZES, p \in BOOLEAN : FinalReply(l, p)

Loop ==
  \/ StopAtCap
  \/ \E r \in REQ_ROOMS : BuildRequest(r)
  \/ RefuseTool
  \/ CutTool
  \/ \E l \in SIZES : RecordResults(l)

NestedAsk == pc = "run" /\ AskRefused

Next ==
  \/ \E l \in SIZES : Ask(l)
  \/ Wire
  \/ Loop
  \/ DispatchTool
  \/ NestedAsk

Spec == Init /\ [][Next]_chatVars

(* A started turn keeps being executed: nothing preempts the loop and the  *)
(* transport and every tool return (both are bounded by deadlines).        *)
LiveSpec == Spec /\ WF_chatVars(Wire \/ Loop \/ DispatchTool)

-----------------------------------------------------------------------------
(* Properties.                                                             *)

Contents ==
  [kind : {"say", "use", "res", "fin"}, turn : 1..MAXTURNS,
   round : 0..MAX_ROUNDS, n : {0} \cup ASKS]

Entry == [off : 0..HISTORY_BYTES, len : SIZES, epoch : 0..(EPOCHS - 1),
          role : {USER, ASSISTANT}]

(* Every variable has its type; the fixed storage is never exceeded and    *)
(* the counters stay inside their caps.                                    *)
TypeOK ==
  /\ transport \in BOOLEAN
  /\ Len(hist.msgs) <= HISTORY_MSGS
  /\ \A i \in DOMAIN hist.msgs : hist.msgs[i] \in Entry
  /\ Used(hist) <= HISTORY_BYTES
  /\ \A i \in DOMAIN hist.arena : hist.arena[i] \in Contents
  /\ epoch \in 0..(EPOCHS - 1)
  /\ in_turn \in BOOLEAN
  /\ rounds \in 0..MAX_ROUNDS
  /\ retries \in 0..SEND_RETRIES
  /\ journal_total \in Nat
  /\ text \in 0..MAXTURNS
  /\ pc \in {"out", "round", "sent", "run"}
  /\ reply.done <= reply.n
  /\ rc \in Codes
  /\ turn \in 0..MAXTURNS

Said(h, i) == h.arena[h.msgs[i].off + 1]

EndOf(h, i) == IF i = 0 THEN 0 ELSE h.msgs[i].off + h.msgs[i].len

Tiles(h) ==
  /\ \A i \in DOMAIN h.msgs :
       /\ h.msgs[i].off = EndOf(h, i - 1)
       /\ EndOf(h, i) <= Used(h)
       /\ \A b \in (h.msgs[i].off + 1)..EndOf(h, i) : h.arena[b] = Said(h, i)
       /\ h.msgs[i].role =
            IF Said(h, i).kind \in {"say", "res"} THEN USER ELSE ASSISTANT
  /\ EndOf(h, Len(h.msgs)) = Used(h)

(* The entries tile the arena: after any number of evictions and rollbacks *)
(* each entry still delimits exactly the bytes of one message, of a kind   *)
(* its role may have, in order and with nothing left over                  *)
(* (hist_drop_oldest_epoch, hist_drop_oldest_attempt, hist_rollback_epoch).*)
EntriesTileTheArena == Tiles(hist)

(* A conversation the API accepts: it opens with a sentence, the roles     *)
(* alternate, every tool_use is answered at once by its own results and no *)
(* result stands without its tool_use.                                     *)
Acceptable(h) ==
  LET n == Len(h.msgs)
      s(i) == Said(h, i)
  IN /\ n > 0 => s(1).kind = "say"
     /\ \A i \in 1..(n - 1) :
          /\ h.msgs[i].role # h.msgs[i + 1].role
          /\ s(i).kind = "use" \/ s(i + 1).kind = "res" =>
               s(i + 1) = [s(i) EXCEPT !.kind = "res"]
     /\ n > 0 => s(n).kind # "use"

(* Every request is built from an acceptable conversation that ends on a   *)
(* user message, whatever was evicted to make room for it.                 *)
EveryRequestAcceptable ==
  pc = "sent" => Acceptable(hist) /\ hist.msgs[Len(hist.msgs)].role = USER

(* Between turns the history holds whole exchanges only: it is acceptable  *)
(* and each exchange in it ran to a final answer (chat.h, rule 3).         *)
OnlyFinishedTurnsRemembered ==
  pc = "out" =>
    /\ Acceptable(hist)
    /\ \A i \in DOMAIN hist.msgs :
         i = Len(hist.msgs) \/ Said(hist, i + 1).kind = "say" =>
           Said(hist, i).kind = "fin"

TurnsIn(h) == {h.arena[b].turn : b \in DOMAIN h.arena}

(* A turn that fails without needing room takes back what it appended and  *)
(* nothing else: "Undo everything the in-flight turn appended"             *)
(* (hist_rollback_epoch).                                                  *)
FailureUndoesItselfOnly ==
  [][pc = "sent" /\ pc' = "out" /\ rc' \in {"ETRANSPORT", "EHTTP", "EPROTO"}
       => TurnsIn(hist') = TurnsIn(hist) \ {turn}]_chatVars

(* The action log shows the last calls really made, oldest first, also the *)
(* calls of abandoned turns, and never a call twice (chat_action_at).      *)
JournalKeepsLatest ==
  /\ journal_total = Len(log)
  /\ \A i \in 0..(ActionCount - 1) :
       ActionAt(i) = log[Len(log) - ActionCount + 1 + i]

(* Nothing runs for a reply the history could not take: when a tool is     *)
(* dispatched the last message is the tool_use turn that asked for it.     *)
RunsOnlyWhatIsRemembered ==
  [][log' # log /\ journal_total' # 0 =>
       /\ hist.msgs # <<>>
       /\ LET s == Said(hist, Len(hist.msgs))
          IN s.kind = "use" /\ s.turn = turn /\ s.n > reply.done]_chatVars

(* Every turn ends: the round cap and the per-turn retry cap bound it      *)
(* whatever the API and the model answer.                                  *)
TurnEnds == (pc # "out") ~> (pc = "out")

-----------------------------------------------------------------------------
(* What the documentation says and the code does not keep; README.md,      *)
(* Observations, gives the behaviours.                                     *)

(* Rule 2 of chat.h: "The in-flight epoch is never evicted" - what the     *)
(* turn in flight has said stays in the history until the turn ends.       *)
InFlightNeverEvicted ==
  [][pc # "out" /\ pc' # "out" =>
       \A b \in DOMAIN hist.arena : hist.arena[b].turn = turn =>
         \E c \in DOMAIN hist'.arena : hist'.arena[c] = hist.arena[b]]_chatVars
=============================================================================
