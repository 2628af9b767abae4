---------------------------- MODULE LowLevelHooks ----------------------------
(***************************************************************************)
(* Low-level hooks in server/queue.c: send_hardware_message offers each    *)
(* hardware message to the global WH_MOUSE_LL or WH_KEYBOARD_LL hook       *)
(* (send_hook_ll_message).  The hook thread H gets a MSG_HOOK_LL sent      *)
(* message whose result holds the hardware message; the hook's reply, the  *)
(* result timeout or H's exit settles the result, and store_message_result *)
(* then frees the hardware message (vetoed) or hands it to                 *)
(* queue_hardware_message.  A hook whose queue is hung is skipped and the  *)
(* message is queued at once.                                              *)
(*                                                                         *)
(* Actors: the hook thread H, one thread S that injects input (its queue   *)
(* is the sender of the last message of each of its inputs) and the       *)
(* driver, whose input has no sender.  Event e is the e-th hardware        *)
(* message created; a result is identified with the event it holds.       *)
(* Where a message goes after queue_hardware_message (routing, merging) is *)
(* HardwareInput's: here it is appended to "queued".                       *)
(*                                                                         *)
(* Time is abstract: "recent" says H called get_message less than 5 s ago, *)
(* and Tick lets 5 s pass.  The two builds differ in how H waits: in the   *)
(* server build H blocks on its queue object and is woken (and so leaves   *)
(* the wait queue) by set_queue_bits; with esync or fsync it waits in the  *)
(* client and reports it with the msgwait requests.                        *)
(***************************************************************************)
EXTENDS Naturals, Sequences, SequencesExt

CONSTANTS
  MaxEvents,  \* bound on the hardware messages created
  SyncModes   \* builds: "server" (no esync/fsync), "msgwait" (esync or fsync)

VARIABLES
  sync,       \* the build, fixed in Init
  hook,       \* hook[k]: the global hook of kind k: none, active, disabled, removed
  hq,         \* H's queue: none, live, gone
  hsent,      \* H's SEND_MESSAGE list: the events of its MSG_HOOK_LL messages
  hrecv,      \* H's recv_result stack, top first
  recent,     \* current_time - queue->last_get_msg <= 5 s
  waiting,    \* H is in the wait queue of its queue object (server build)
  inMsgwait,  \* queue->esync_in_msgwait / fsync_in_msgwait
  res,        \* res[e]: the message_result holding event e
  sq,         \* S's queue: none, live, gone
  sres,       \* S's send_result list, head first
  queued,     \* the events handed to queue_hardware_message, in order
  vetoed,     \* the events freed because the hook rejected them
  dropped,    \* the events freed with their result, never delivered
  nev,        \* the number of events created
  evKind      \* evKind[e]: the hook kind of event e (ghost)

vars == <<sync, hook, hq, hsent, hrecv, recent, waiting, inMsgwait, res, sq, sres,
          queued, vetoed, dropped, nev, evKind>>

Evs == 1..MaxEvents
Kinds == {"mouse", "kbd"}
\* a result, or none: its links (msg, sender, receiver), whether it was
\* replied, whether its timeout is armed, whether it still holds the
\* hardware message, the hook kind, and the error it was settled with
NoResult == [state |-> "none", msg |-> FALSE, sender |-> FALSE, receiver |-> FALSE,
             replied |-> FALSE, timeout |-> FALSE, hw |-> FALSE, kind |-> "mouse",
             err |-> "none"]

\* the handlers' state, as a record, so a handler composes its calls in order
St == [hook |-> hook, hq |-> hq, hsent |-> hsent, hrecv |-> hrecv, recent |-> recent,
       waiting |-> waiting, inMsgwait |-> inMsgwait, res |-> res, sres |-> sres,
       queued |-> queued, vetoed |-> vetoed, dropped |-> dropped]

Apply(T) ==
  /\ hook' = T.hook /\ hq' = T.hq /\ hsent' = T.hsent /\ hrecv' = T.hrecv
  /\ recent' = T.recent /\ waiting' = T.waiting /\ inMsgwait' = T.inMsgwait
  /\ res' = T.res /\ sres' = T.sres /\ queued' = T.queued /\ vetoed' = T.vetoed
  /\ dropped' = T.dropped

Held(T, e) == T.res[e].state = "live" /\ T.res[e].hw

\* no get_message for 5 s, no thread waiting on the queue, and not waiting
\* in the client
is_queue_hung(T) == ~T.recent /\ ~T.waiting /\ ~(sync = "msgwait" /\ T.inMsgwait)

\* the hardware message goes on to routing
queue_hardware_message(T, e) == [T EXCEPT !.queued = Append(@, e)]

free_result(T, e) ==
  [T EXCEPT !.res[e] = [@ EXCEPT !.state = "freed", !.timeout = FALSE, !.hw = FALSE],
            !.dropped = IF T.res[e].hw THEN @ \cup {e} ELSE @]

remove_result_from_sender(T, e) ==
  LET U == [T EXCEPT !.res[e].sender = FALSE,
                     !.sres = SelectSeq(@, LAMBDA x : x # e)]
  IN IF ~U.res[e].receiver THEN free_result(U, e) ELSE U

\* store_message_result leaving the timeout armed
store_message_result_keep_timeout(T, e, result, err) ==
  LET r == [T.res[e] EXCEPT !.replied = TRUE, !.err = err]
      U == [T EXCEPT !.res[e] = [r EXCEPT !.hw = FALSE]]
      V == IF ~r.hw THEN U
           ELSE IF err = "none" /\ result = 1 THEN [U EXCEPT !.vetoed = @ \cup {e}]
           ELSE queue_hardware_message(U, e)
  IN IF ~r.sender /\ ~r.receiver THEN free_result(V, e) ELSE V

\* store_message_result keeping the hardware message pointer
store_message_result_keep_hw(T, e, result, err) ==
  LET r == [T.res[e] EXCEPT !.replied = TRUE, !.timeout = FALSE, !.err = err]
      U == [T EXCEPT !.res[e] = r]
      V == IF ~r.hw THEN U
           ELSE IF err = "none" /\ result = 1 THEN [U EXCEPT !.vetoed = @ \cup {e}]
           ELSE queue_hardware_message(U, e)
  IN IF ~r.sender /\ ~r.receiver THEN free_result(V, e) ELSE V

\* the reply is recorded, the timeout cancelled, and the held hardware
\* message freed (a rejection by the hook) or queued; a result nobody
\* refers to any more is freed.  Waking the sender is SentMessages'.
store_message_result(T, e, result, err) ==
  LET r == [T.res[e] EXCEPT !.replied = TRUE, !.timeout = FALSE, !.err = err]
      U == [T EXCEPT !.res[e] = [r EXCEPT !.hw = FALSE]]
      V == IF ~r.hw THEN U
           ELSE IF err = "none" /\ result = 1 THEN [U EXCEPT !.vetoed = @ \cup {e}]
           ELSE queue_hardware_message(U, e)
  IN IF ~r.sender /\ ~r.receiver THEN free_result(V, e) ELSE V

\* free_message of a MSG_HOOK_LL message still in H's sent list
free_message(T, e) ==
  store_message_result([T EXCEPT !.res[e].msg = FALSE, !.res[e].receiver = FALSE],
                       e, 0, "denied")

\* alloc_message_result with no timeout for a message without a sender
alloc_message_result_untimed(T, e, k, snd) ==
  [T EXCEPT !.res[e] = [NoResult EXCEPT !.state = "live", !.msg = TRUE, !.sender = snd,
                        !.receiver = TRUE, !.timeout = snd, !.hw = TRUE, !.kind = k],
            !.sres = IF snd THEN <<e>> \o @ ELSE @]

\* a result linked to the message and both queues, its timeout armed (the
\* 2 s of the hook timeout is never infinite), on the head of the sender's
\* send_result
alloc_message_result(T, e, k, snd) ==
  [T EXCEPT !.res[e] = [NoResult EXCEPT !.state = "live", !.msg = TRUE, !.sender = snd,
                        !.receiver = TRUE, !.timeout = TRUE, !.hw = TRUE, !.kind = k],
            !.sres = IF snd THEN <<e>> \o @ ELSE @]

\* the MSG_HOOK_LL message is added to H's sent list; set_queue_bits wakes
\* H, which leaves the wait queue.  FALSE when there is no active hook, H
\* has no queue, or its queue is hung.
send_hook_ll_message(T, e, k, snd) ==
  IF T.hook[k] # "active" \/ T.hq # "live" \/ is_queue_hung(T)
  THEN [st |-> T, sent |-> FALSE]
  ELSE [st |-> [alloc_message_result(T, e, k, snd) EXCEPT !.hsent = Append(@, e),
                                                           !.waiting = FALSE],
        sent |-> TRUE]

\* one hardware message: to the hook, or else to queue_hardware_message
SendOne(T, e, k, snd) ==
  LET r == send_hook_ll_message(T, e, k, snd)
  IN IF r.sent THEN r.st ELSE queue_hardware_message(T, e)

\* the messages first..last of one mouse input; only the last has a sender
RECURSIVE SendMouseMessages(_, _, _, _)
SendMouseMessages(T, first, last, inj) ==
  IF first > last THEN T
  ELSE SendMouseMessages(SendOne(T, first, "mouse", inj /\ first = last),
                         first + 1, last, inj)
\* desktop hook table (hook.c): the hook stops being offered messages
disable_hung_hook(T, k) == [T EXCEPT !.hook[k] = IF @ = "active" THEN "disabled" ELSE @]

\* H's queue, created with last_get_msg = now and in_msgwait = 0
EnsureHookQueue(T) ==
  IF T.hq = "none" THEN [T EXCEPT !.hq = "live", !.recent = TRUE, !.inMsgwait = FALSE]
  ELSE T

\* H's reply to the result on top of its stack; with remove, the result is
\* popped, and freed at once if neither a sender nor a hardware message
\* waits for it
reply_message(T, result, err, remove) ==
  LET e == Head(T.hrecv)
      U == IF remove THEN [T EXCEPT !.hrecv = Tail(@), !.res[e].receiver = FALSE] ELSE T
  IN IF remove /\ ~U.res[e].sender /\ ~U.res[e].hw THEN free_result(U, e)
     ELSE IF ~U.res[e].replied THEN store_message_result(U, e, result, err)
     ELSE U

RECURSIVE ReplyAll(_)
ReplyAll(T) == IF T.hrecv = <<>> THEN T ELSE ReplyAll(reply_message(T, 0, "denied", TRUE))

RECURSIVE EmptySent(_)
EmptySent(T) ==
  IF T.hsent = <<>> THEN T
  ELSE EmptySent(free_message([T EXCEPT !.hsent = Tail(@)], Head(T.hsent)))

RECURSIVE LeaveAll(_)
LeaveAll(T) == IF T.sres = <<>> THEN T ELSE LeaveAll(remove_result_from_sender(T, Head(T.sres)))

H_Idle == ~waiting /\ ~inMsgwait

NewEvents(n, k) ==
  /\ nev + n <= MaxEvents
  /\ nev' = nev + n
  /\ evKind' = [e \in Evs |-> IF e \in nev + 1..nev + n THEN k ELSE evKind[e]]

\* send_hardware_message of a mouse input of n messages (a move and a
\* button, say); injected input has the caller's queue as sender
SendMouse(inj, n) ==
  /\ inj => sq # "gone"
  /\ NewEvents(n, "mouse")
  /\ Apply(SendMouseMessages(St, nev + 1, nev + n, inj))
  /\ sq' = IF inj /\ sq = "none" THEN "live" ELSE sq
  /\ UNCHANGED sync

\* send_hardware_message of a keyboard input: one message
SendKey(inj) ==
  /\ inj => sq # "gone"
  /\ NewEvents(1, "kbd")
  /\ Apply(SendOne(St, nev + 1, "kbd", inj))
  /\ sq' = IF inj /\ sq = "none" THEN "live" ELSE sq
  /\ UNCHANGED sync

\* H's get_message: last_get_msg = now, then the first sent message is
\* received and its result pushed on the stack
HookGetMessage ==
  /\ hq # "gone" /\ H_Idle
  /\ LET T == [EnsureHookQueue(St) EXCEPT !.recent = TRUE]
         e == Head(T.hsent)
     IN Apply(IF T.hsent = <<>> THEN T
              ELSE [T EXCEPT !.hsent = Tail(@), !.hrecv = <<e>> \o @, !.res[e].msg = FALSE])
  /\ UNCHANGED <<sync, sq, nev, evKind>>

\* H blocks on its queue (server build); a signaled queue returns at once
HookWait ==
  /\ sync = "server" /\ hq = "live" /\ H_Idle /\ hsent = <<>>
  /\ waiting' = TRUE
  /\ UNCHANGED <<sync, hook, hq, hsent, hrecv, recent, inMsgwait, res, sq, sres,
                 queued, vetoed, dropped, nev, evKind>>

\* H's wait ends for another reason: a posted message, a timer, its timeout
HookWakeOther ==
  /\ waiting
  /\ waiting' = FALSE
  /\ UNCHANGED <<sync, hook, hq, hsent, hrecv, recent, inMsgwait, res, sq, sres,
                 queued, vetoed, dropped, nev, evKind>>

\* esync_msgwait / fsync_msgwait: H enters or leaves its client-side wait
HookMsgwait(b) ==
  /\ sync = "msgwait" /\ hq # "gone" /\ inMsgwait # b
  /\ Apply([EnsureHookQueue(St) EXCEPT !.inMsgwait = b])
  /\ UNCHANGED <<sync, sq, nev, evKind>>

\* reply_message from H: 1 rejects the hardware message
HookReply(result, remove) ==
  /\ hq = "live" /\ H_Idle /\ hrecv # <<>>
  /\ Apply(reply_message(St, result, "none", remove))
  /\ UNCHANGED <<sync, sq, nev, evKind>>

\* result_timeout: a message H has not received is taken back, and its hook
\* disabled if the result has a sender; then the result is settled
Timeout(e) ==
  /\ res[e].state = "live" /\ res[e].timeout
  /\ LET r == res[e]
         T == [St EXCEPT !.res[e].timeout = FALSE]
         U == IF r.sender THEN disable_hung_hook(T, r.kind) ELSE T
         V == [U EXCEPT !.res[e].msg = FALSE, !.res[e].receiver = FALSE,
                        !.hsent = SelectSeq(@, LAMBDA x : x # e)]
     IN Apply(store_message_result(IF r.msg THEN V ELSE T, e, 0, "timeout"))
  /\ UNCHANGED <<sync, sq, nev, evKind>>

\* 5 s pass without H calling get_message
Tick ==
  /\ hq = "live" /\ recent
  /\ recent' = FALSE
  /\ UNCHANGED <<sync, hook, hq, hsent, hrecv, waiting, inMsgwait, res, sq, sres,
                 queued, vetoed, dropped, nev, evKind>>

\* SetWindowsHookEx / UnhookWindowsHookEx by H (hook.c)
SetHook(k) ==
  /\ hq # "gone" /\ H_Idle /\ hook[k] = "none"
  /\ hook' = [hook EXCEPT ![k] = "active"]
  /\ UNCHANGED <<sync, hq, hsent, hrecv, recent, waiting, inMsgwait, res, sq, sres,
                 queued, vetoed, dropped, nev, evKind>>

Unhook(k) ==
  /\ H_Idle /\ hook[k] \in {"active", "disabled"}
  /\ hook' = [hook EXCEPT ![k] = "removed"]
  /\ UNCHANGED <<sync, hq, hsent, hrecv, recent, waiting, inMsgwait, res, sq, sres,
                 queued, vetoed, dropped, nev, evKind>>

\* H exits: free_msg_queue denies every result on its stack, frees its sent
\* messages (settling their results), and its hooks go
HookExit ==
  /\ hq # "gone"
  /\ LET T == IF hq = "live" THEN EmptySent(ReplyAll(St)) ELSE St
     IN Apply([T EXCEPT !.hq = "gone", !.waiting = FALSE, !.inMsgwait = FALSE,
                        !.hook = [k \in Kinds |-> IF @[k] = "none" THEN "none" ELSE "removed"]])
  /\ UNCHANGED <<sync, sq, nev, evKind>>

\* S's get_message_reply: the head of send_result, once replied or when
\* cancelled, leaves the sender list
SenderGetReply(cancel) ==
  /\ sq = "live" /\ sres # <<>>
  /\ res[Head(sres)].replied \/ cancel
  /\ Apply(remove_result_from_sender(St, Head(sres)))
  /\ UNCHANGED <<sync, sq, nev, evKind>>

\* S exits: cleanup_results takes every result off its list
SenderExit ==
  /\ sq # "gone"
  /\ Apply(LeaveAll(St))
  /\ sq' = "gone"
  /\ UNCHANGED <<sync, nev, evKind>>

Init ==
  /\ sync \in SyncModes
  /\ hook = [k \in Kinds |-> "none"]
  /\ hq = "none" /\ hsent = <<>> /\ hrecv = <<>>
  /\ recent = FALSE /\ waiting = FALSE /\ inMsgwait = FALSE
  /\ res = [e \in Evs |-> NoResult]
  /\ sq = "none" /\ sres = <<>>
  /\ queued = <<>> /\ vetoed = {} /\ dropped = {}
  /\ nev = 0 /\ evKind = [e \in Evs |-> "none"]

Next ==
  \/ \E inj \in BOOLEAN, n \in 1..2 : SendMouse(inj, n)
  \/ \E inj \in BOOLEAN : SendKey(inj)
  \/ HookGetMessage \/ HookWait \/ HookWakeOther
  \/ \E b \in BOOLEAN : HookMsgwait(b)
  \/ \E r \in {0, 1}, rm \in BOOLEAN : HookReply(r, rm)
  \/ \E e \in Evs : Timeout(e)
  \/ Tick
  \/ \E k \in Kinds : SetHook(k) \/ Unhook(k)
  \/ HookExit
  \/ \E c \in BOOLEAN : SenderGetReply(c)
  \/ SenderExit

Spec == Init /\ [][Next]_vars

\* the server's timeout loop runs every expired timeout
FairSpec == Spec /\ \A e \in Evs : WF_vars(Timeout(e))
-----------------------------------------------------------------------------
Result == [state : {"none", "live", "freed"}, msg : BOOLEAN, sender : BOOLEAN,
           receiver : BOOLEAN, replied : BOOLEAN, timeout : BOOLEAN, hw : BOOLEAN,
           kind : Kinds, err : {"none", "timeout", "denied"}]

\* Types, and the assertion of result_timeout: a result whose timeout is
\* still armed has not been replied (store_message_result and free_result
\* cancel the timeout).
TypeOK ==
  /\ sync \in SyncModes
  /\ hook \in [Kinds -> {"none", "active", "disabled", "removed"}]
  /\ hq \in {"none", "live", "gone"} /\ sq \in {"none", "live", "gone"}
  /\ hsent \in Seq(Evs) /\ hrecv \in Seq(Evs) /\ sres \in Seq(Evs) /\ queued \in Seq(Evs)
  /\ {recent, waiting, inMsgwait} \subseteq BOOLEAN
  /\ res \in [Evs -> Result]
  /\ vetoed \subseteq Evs /\ dropped \subseteq Evs
  /\ nev \in 0..MaxEvents /\ evKind \in [Evs -> Kinds \cup {"none"}]
  /\ \A e \in Evs : res[e].timeout => res[e].state = "live" /\ ~res[e].replied

\* Each hardware message created is, at every moment, in exactly one place:
\* held by a live hook result, handed once to queue_hardware_message, or
\* freed because the hook rejected it.  None is lost with its result and
\* none is queued twice, whatever order H's replies, the timeouts, H's
\* exit and S's cancels and exit come in (store_message_result, free_result,
\* cleanup_msg_queue).
EventResolvedOnce ==
  /\ dropped = {}
  /\ \A e \in 1..nev :
       (IF Held(St, e) THEN 1 ELSE 0) + Len(SelectSeq(queued, LAMBDA x : x = e))
         + (IF e \in vetoed THEN 1 ELSE 0) = 1

\* A message held by a hook result is eventually released to the input or
\* rejected, however long H takes or if it never replies: the 2 s result
\* timeout (send_hook_ll_message) settles it.
HookedEventResolved == \A e \in Evs : Held(St, e) ~> ~Held(St, e)

\* A hook message that H never received and that timed out disables its
\* hook, so that later input does not wait on it (spec sections 4.2 and 7(d): the
\* non-responding hook is disabled).  result_timeout disables it only when
\* the result has a sender (queue.c:1044).
HungHookDisabled ==
  [][\A e \in Evs : res[e].state = "live" /\ res[e].msg /\ res'[e].err = "timeout"
                      => hook'[res[e].kind] # "active"]_vars
================================================================================
