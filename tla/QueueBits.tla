------------------------------- MODULE QueueBits -------------------------------
(***************************************************************************)
(* The wake and changed bits of one message queue (server/queue.c), the   *)
(* counters and lists behind them, and the owner thread waiting on them.   *)
(*                                                                         *)
(* Producers:                                                              *)
(*   - send_message with MSG_POSTED, post_message and queue_hotkey_message *)
(*     (posting);                                                          *)
(*   - send_message with MSG_NOTIFY and send_notify_message (notifies);    *)
(*   - inc_queue_paint_count;                                              *)
(*   - the message part of queue_cleanup_window.                           *)
(*                                                                         *)
(* The owner issues get_message, set_queue_mask, get_queue_status and      *)
(* post_quit_message, and blocks on the queue object between requests.    *)
(* set_queue_bits wakes a blocked owner when the queue becomes signaled,   *)
(* and msg_queue_satisfied then clears both masks.                         *)
(*                                                                         *)
(* Timers (Timers.tla), hardware input (HardwareInput.tla) and sent        *)
(* results (SentMessages.tla) are their own modules.  No producer here     *)
(* sets their bits.                                                        *)
(***************************************************************************)
EXTENDS Naturals, Sequences, SequencesExt

CONSTANTS
  Wins,        \* window handles of the owner thread (model values)
  NoWin,       \* the 0 handle: a thread message, or "any window" in a filter
  ThreadOnly,  \* get_win == -1 or 1: thread messages only
  PostCodes,   \* message numbers producers post
  GetWins,     \* get_win values of get_message
  Ranges,      \* <<get_first, get_last>> of get_message
  Filters,     \* req->flags >> 16 of get_message, as sets of QS_* bits
  WaitMasks,   \* <<wake_mask, changed_mask>> pairs the owner arms
  ClearMasks,  \* clear_bits of get_queue_status
  MaxPosts,    \* bound on posted and notify messages
  MaxPaint     \* bound on paint_count

VARIABLES
  sent,         \* msg_list[SEND_MESSAGE]: the windows of queued notifies
  posted,       \* msg_list[POST_MESSAGE]: [win, msg] records
  quit,         \* quit_message
  paintCount,   \* paint_count
  hotkeyCount,  \* hotkey_count
  wakeBits,     \* wake_bits
  changedBits,  \* changed_bits
  wakeMask,     \* wake_mask
  changedMask,  \* changed_mask
  pc,           \* the owner: "run", "pending" (got STATUS_PENDING), "asleep"
  reply,        \* the reply of the owner's last get_message
  nposts        \* messages posted or sent so far

vars == <<sent, posted, quit, paintCount, hotkeyCount, wakeBits, changedBits,
          wakeMask, changedMask, pc, reply, nposts>>

WM_PAINT == 15
WM_QUIT == 18
WM_HOTKEY == 786
\* ~0U, the get_last of an unfiltered get: above every modelled message code
LastMsg == 65535
QS_SENDMESSAGE == "QS_SENDMESSAGE"
QS_POSTMESSAGE == "QS_POSTMESSAGE"
QS_ALLPOSTMESSAGE == "QS_ALLPOSTMESSAGE"
QS_HOTKEY == "QS_HOTKEY"
QS_PAINT == "QS_PAINT"
QS_TIMER == "QS_TIMER"
QS_INPUT == "QS_INPUT"
QS_ALLINPUT == {QS_SENDMESSAGE, QS_POSTMESSAGE, QS_ALLPOSTMESSAGE, QS_HOTKEY,
                QS_PAINT, QS_TIMER, QS_INPUT}
Bits == {QS_SENDMESSAGE, QS_POSTMESSAGE, QS_ALLPOSTMESSAGE, QS_HOTKEY, QS_PAINT}
NoReply == [type |-> "none", win |-> NoWin, msg |-> 0]
Pending == [type |-> "pending", win |-> NoWin, msg |-> 0]

\* get_message: a zero filter means QS_ALLINPUT
EffFilter(f) == IF f = {} THEN QS_ALLINPUT ELSE f

\* the state record the handlers work on
St == [sent |-> sent, posted |-> posted, quit |-> quit, paint |-> paintCount,
       hotkey |-> hotkeyCount, wake |-> wakeBits, changed |-> changedBits,
       wmask |-> wakeMask, cmask |-> changedMask, pc |-> pc]

Apply(S) ==
  /\ sent' = S.sent /\ posted' = S.posted /\ quit' = S.quit
  /\ paintCount' = S.paint /\ hotkeyCount' = S.hotkey
  /\ wakeBits' = S.wake /\ changedBits' = S.changed
  /\ wakeMask' = S.wmask /\ changedMask' = S.cmask /\ pc' = S.pc

is_signaled(S) == (S.wake \cap S.wmask) \cup (S.changed \cap S.cmask) # {}

\* msg_queue_satisfied: the one-shot wait is over, both masks are cleared
msg_queue_satisfied(S) == [S EXCEPT !.wmask = {}, !.cmask = {}, !.pc = "run"]

\* set_queue_bits, bug variant: the bits are set but no waiter is woken
set_queue_bits_nowake(S, b) == [S EXCEPT !.wake = @ \cup b, !.changed = @ \cup b]

\* set_queue_bits: set both kinds of bits; wake_up lets a blocked owner's
\* wait succeed (the server then calls msg_queue_satisfied)
set_queue_bits(S, b) ==
  LET S1 == [S EXCEPT !.wake = @ \cup b, !.changed = @ \cup b]
  IN IF is_signaled(S1) /\ S1.pc = "asleep" THEN msg_queue_satisfied(S1) ELSE S1

clear_queue_bits(S, b) == [S EXCEPT !.wake = @ \ b, !.changed = @ \ b]

\* remove_queue_message for the POST_MESSAGE list, bug variant: the post
\* bits are cleared with the last posted message even when a quit is pending
remove_posted_ignoring_quit(S, i) ==
  LET m == S.posted[i]
      S1 == [S EXCEPT !.posted = RemoveAt(@, i)]
      S2 == IF S1.posted = <<>> THEN clear_queue_bits(S1, {QS_POSTMESSAGE, QS_ALLPOSTMESSAGE}) ELSE S1
      S3 == IF m.msg = WM_HOTKEY THEN [S2 EXCEPT !.hotkey = @ - 1] ELSE S2
  IN IF m.msg = WM_HOTKEY /\ S3.hotkey = 0 THEN clear_queue_bits(S3, {QS_HOTKEY}) ELSE S3

\* remove_queue_message for the POST_MESSAGE list
remove_posted(S, i) ==
  LET m == S.posted[i]
      S1 == [S EXCEPT !.posted = RemoveAt(@, i)]
      S2 == IF S1.posted = <<>> /\ ~S1.quit
            THEN clear_queue_bits(S1, {QS_POSTMESSAGE, QS_ALLPOSTMESSAGE}) ELSE S1
      S3 == IF m.msg = WM_HOTKEY THEN [S2 EXCEPT !.hotkey = @ - 1] ELSE S2
  IN IF m.msg = WM_HOTKEY /\ S3.hotkey = 0 THEN clear_queue_bits(S3, {QS_HOTKEY}) ELSE S3

\* remove_queue_message for the SEND_MESSAGE list
remove_sent(S, i) ==
  LET S1 == [S EXCEPT !.sent = RemoveAt(@, i)]
  IN IF S1.sent = <<>> THEN clear_queue_bits(S1, {QS_SENDMESSAGE}) ELSE S1

(***************************************************************************)
(* Producers                                                               *)
(***************************************************************************)
\* send_message (MSG_POSTED) and post_message: queue, set the post bits,
\* then the hotkey bit and count for a WM_HOTKEY
PostMessage(w, code) ==
  LET S1 == set_queue_bits([St EXCEPT !.posted = Append(@, [win |-> w, msg |-> code])],
                           {QS_POSTMESSAGE, QS_ALLPOSTMESSAGE})
      S2 == IF code = WM_HOTKEY
            THEN [set_queue_bits(S1, {QS_HOTKEY}) EXCEPT !.hotkey = @ + 1] ELSE S1
  IN /\ nposts < MaxPosts
     /\ Apply(S2)
     /\ nposts' = nposts + 1
     /\ UNCHANGED reply

\* queue_hotkey_message: a registered hotkey pressed; one set_queue_bits
\* for all three bits
QueueHotkeyMessage(w) ==
  /\ nposts < MaxPosts
  /\ Apply([set_queue_bits([St EXCEPT !.posted = Append(@, [win |-> w, msg |-> WM_HOTKEY])],
                           {QS_POSTMESSAGE, QS_ALLPOSTMESSAGE, QS_HOTKEY})
            EXCEPT !.hotkey = @ + 1])
  /\ nposts' = nposts + 1
  /\ UNCHANGED reply

\* send_message (MSG_NOTIFY) and send_notify_message
SendNotifyMessage(w) ==
  /\ nposts < MaxPosts
  /\ Apply(set_queue_bits([St EXCEPT !.sent = Append(@, w)], {QS_SENDMESSAGE}))
  /\ nposts' = nposts + 1
  /\ UNCHANGED reply

\* inc_queue_paint_count, bug variant: the count is not clamped at 0
IncQueuePaintCountNoClamp(incr) ==
  LET n == paintCount + incr
      S1 == [St EXCEPT !.paint = n]
  IN /\ n <= MaxPaint
     /\ Apply(IF n # 0 THEN set_queue_bits(S1, {QS_PAINT}) ELSE clear_queue_bits(S1, {QS_PAINT}))
     /\ UNCHANGED <<reply, nposts>>

\* inc_queue_paint_count: the count never goes below 0
IncQueuePaintCount(incr) ==
  LET n == IF paintCount + incr < 0 THEN 0 ELSE paintCount + incr
      S1 == [St EXCEPT !.paint = n]
  IN /\ n <= MaxPaint
     /\ Apply(IF n # 0 THEN set_queue_bits(S1, {QS_PAINT}) ELSE clear_queue_bits(S1, {QS_PAINT}))
     /\ UNCHANGED <<reply, nposts>>

\* the message part of queue_cleanup_window: walk a list, remove every
\* message of the window; a WM_QUIT among them becomes the quit message
RECURSIVE cleanup_sent(_, _, _)
cleanup_sent(S, w, i) ==
  IF i > Len(S.sent) THEN S
  ELSE IF S.sent[i] = w THEN cleanup_sent(remove_sent(S, i), w, i)
  ELSE cleanup_sent(S, w, i + 1)

RECURSIVE cleanup_posted(_, _, _)
cleanup_posted(S, w, i) ==
  IF i > Len(S.posted) THEN S
  ELSE IF S.posted[i].win = w
       THEN LET S1 == IF S.posted[i].msg = WM_QUIT /\ ~S.quit
                      THEN [S EXCEPT !.quit = TRUE] ELSE S
            IN cleanup_posted(remove_posted(S1, i), w, i)
  ELSE cleanup_posted(S, w, i + 1)

QueueCleanupWindow(w) ==
  /\ Apply(cleanup_posted(cleanup_sent(St, w, 1), w, 1))
  /\ UNCHANGED <<reply, nposts>>

(***************************************************************************)
(* The owner thread                                                        *)
(***************************************************************************)
match_window(win, mwin) == win = NoWin \/ (win = ThreadOnly /\ mwin = NoWin) \/ mwin = win
check_msg_filter(code, first, last) == first <= code /\ code <= last

\* get_posted_message: the first posted message matching window and range
get_posted_message(S, win, first, last, remove) ==
  LET i == SelectInSeq(S.posted, LAMBDA m : match_window(win, m.win)
                                          /\ check_msg_filter(m.msg, first, last))
  IN IF i = 0 THEN [found |-> FALSE, S |-> S, reply |-> NoReply]
     ELSE [found |-> TRUE,
           S |-> IF remove THEN remove_posted(S, i) ELSE S,
           reply |-> [type |-> "posted", win |-> S.posted[i].win, msg |-> S.posted[i].msg]]

\* get_quit_message
get_quit_message(S, remove) ==
  IF remove
  THEN LET S1 == [S EXCEPT !.quit = FALSE]
       IN IF S1.posted = <<>> THEN clear_queue_bits(S1, {QS_POSTMESSAGE, QS_ALLPOSTMESSAGE}) ELSE S1
  ELSE S

\* the changed bits get_message clears before it looks for posted messages
ClearedBits(F, r) ==
  (IF QS_POSTMESSAGE \in F
   THEN {QS_POSTMESSAGE, QS_HOTKEY, QS_TIMER}
        \cup (IF r = <<0, LastMsg>> THEN {QS_ALLPOSTMESSAGE} ELSE {})
   ELSE {})
  \cup (IF QS_INPUT \in F THEN {QS_INPUT} ELSE {})
  \cup (IF QS_PAINT \in F THEN {QS_PAINT} ELSE {})

\* the get_message handler: sent, posted, hotkey, quit, paint, else pending.
\* pw is what find_window_to_repaint returns (NoWin: no window to paint).
get_message(S, win, r, f, remove, wm, pw) ==
  LET F == EffFilter(f)
      S1 == [S EXCEPT !.changed = @ \ ClearedBits(F, r)]
      gp == get_posted_message(S1, win, r[1], r[2], remove)
      gh == get_posted_message(S1, win, WM_HOTKEY, WM_HOTKEY, remove)
  IN CASE S.sent # <<>> ->
            [S |-> remove_sent(S, 1), reply |-> [type |-> "sent", win |-> Head(S.sent), msg |-> 0]]
       [] QS_POSTMESSAGE \in F /\ gp.found -> [S |-> gp.S, reply |-> gp.reply]
       [] QS_HOTKEY \in F /\ S1.hotkey > 0 /\ check_msg_filter(WM_HOTKEY, r[1], r[2])
            /\ gh.found -> [S |-> gh.S, reply |-> gh.reply]
       [] QS_POSTMESSAGE \in F /\ S1.quit ->
            [S |-> get_quit_message(S1, remove), reply |-> [type |-> "quit", win |-> NoWin, msg |-> WM_QUIT]]
       [] QS_PAINT \in F /\ S1.paint > 0 /\ check_msg_filter(WM_PAINT, r[1], r[2]) /\ pw # NoWin ->
            [S |-> S1, reply |-> [type |-> "paint", win |-> pw, msg |-> WM_PAINT]]
       [] OTHER ->
            [S |-> [S1 EXCEPT !.wmask = wm[1], !.cmask = wm[2], !.pc = "pending"], reply |-> Pending]

\* the masks only matter when the get comes back pending, and the window to
\* paint only when there is paint
GetMessage(win, r, f, remove) ==
  /\ pc = "run"
  /\ \E pw \in IF paintCount > 0 THEN Wins \cup {NoWin} ELSE {NoWin} :
       LET pend == get_message(St, win, r, f, remove, <<{}, {}>>, pw).reply = Pending
       IN \E wm \in IF pend THEN WaitMasks ELSE {<<{}, {}>>} :
            LET res == get_message(St, win, r, f, remove, wm, pw)
            IN /\ Apply(res.S)
               /\ reply' = res.reply
               /\ UNCHANGED nposts

\* the owner waits on its queue after STATUS_PENDING: msg_queue_signaled,
\* then msg_queue_satisfied if it is signaled, else it sleeps
Wait ==
  /\ pc = "pending"
  /\ Apply(IF is_signaled(St) THEN msg_queue_satisfied(St) ELSE [St EXCEPT !.pc = "asleep"])
  /\ UNCHANGED <<reply, nposts>>

\* set_queue_mask, then the wait unless skip_wait found the queue signaled
SetQueueMask(wm, skip) ==
  LET S1 == [St EXCEPT !.wmask = wm[1], !.cmask = wm[2]]
  IN /\ pc = "run"
     /\ Apply(IF is_signaled(S1) /\ skip THEN [S1 EXCEPT !.wmask = {}, !.cmask = {}]
              ELSE [S1 EXCEPT !.pc = "pending"])
     /\ UNCHANGED <<reply, nposts>>

\* get_queue_status: report the bits, forget the changed bits asked for
GetQueueStatus(clear) ==
  /\ pc = "run"
  /\ changedBits' = changedBits \ clear
  /\ UNCHANGED <<sent, posted, quit, paintCount, hotkeyCount, wakeBits, wakeMask,
                 changedMask, pc, reply, nposts>>

\* post_quit_message
PostQuitMessage ==
  /\ pc = "run"
  /\ Apply(set_queue_bits([St EXCEPT !.quit = TRUE], {QS_POSTMESSAGE, QS_ALLPOSTMESSAGE}))
  /\ UNCHANGED <<reply, nposts>>

(***************************************************************************)
(* Specification                                                           *)
(***************************************************************************)
\* create_msg_queue
Init ==
  /\ sent = <<>> /\ posted = <<>> /\ quit = FALSE
  /\ paintCount = 0 /\ hotkeyCount = 0
  /\ wakeBits = {} /\ changedBits = {} /\ wakeMask = {} /\ changedMask = {}
  /\ pc = "run" /\ reply = NoReply /\ nposts = 0

Next ==
  \/ \E w \in Wins \cup {NoWin}, c \in PostCodes : PostMessage(w, c)
  \/ \E w \in Wins : QueueHotkeyMessage(w) \/ SendNotifyMessage(w) \/ QueueCleanupWindow(w)
  \/ \E incr \in {-1, 1} : IncQueuePaintCount(incr)
  \/ \E win \in GetWins, r \in Ranges, f \in Filters, rm \in BOOLEAN : GetMessage(win, r, f, rm)
  \/ Wait
  \/ \E wm \in WaitMasks, skip \in BOOLEAN : SetQueueMask(wm, skip)
  \/ \E clear \in ClearMasks : GetQueueStatus(clear)
  \/ PostQuitMessage

Spec == Init /\ [][Next]_vars

(***************************************************************************)
(* Properties                                                              *)
(***************************************************************************)
TypeOK ==
  /\ sent \in Seq(Wins)
  /\ posted \in Seq([win : Wins \cup {NoWin}, msg : PostCodes \cup {WM_HOTKEY}])
  /\ quit \in BOOLEAN
  /\ paintCount \in 0..MaxPaint
  /\ hotkeyCount \in 0..MaxPosts
  /\ wakeBits \subseteq Bits /\ changedBits \subseteq Bits
  /\ pc \in {"run", "pending", "asleep"}
  /\ nposts \in 0..MaxPosts

\* No lost wakeup: the owner never sleeps on its queue while the queue is
\* signaled.  Every producer's set_queue_bits must wake it, and its own
\* wait must not block on bits that are already there.
NoSleepWhileSignaled == pc = "asleep" => ~is_signaled(St)

\* The bits and counters implement the readiness contract of
\* QueueReadiness.  The wake bits always say what the lists, the quit flag
\* and the paint count hold; remove_queue_message, get_quit_message and
\* inc_queue_paint_count clear a bit only when nothing of its kind is left;
\* hotkey_count steers get_message to the WM_HOTKEY a filter asks for; and
\* get_message returns what the fall-through order says.
Abs == INSTANCE QueueReadiness
         WITH fresh <- changedBits,
              wait <- IF pc = "run" THEN [armed |-> FALSE, wake |-> {}, changed |-> {}, asleep |-> FALSE]
                      ELSE [armed |-> TRUE, wake |-> wakeMask, changed |-> changedMask,
                            asleep |-> pc = "asleep"],
              Filters <- {EffFilter(f) : f \in Filters}
QueueReadinessRefined == Abs!ASpec
================================================================================
