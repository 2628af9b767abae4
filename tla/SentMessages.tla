----------------------------- MODULE SentMessages -----------------------------
(***************************************************************************)
(* The sent-message / result protocol of server/queue.c.                   *)
(*                                                                         *)
(* A thread sends a message to another thread's queue (send_message).  A   *)
(* synchronous or callback send allocates a message_result that is linked  *)
(* from the sender (send_result or callback_result list) and from the      *)
(* receiver (the queued message, then the recv_result stack once the       *)
(* receiver fetched it).  The result is settled exactly once by a reply,   *)
(* a timeout or the teardown of the receiving queue, and freed when both   *)
(* sides have let go of it.  Every handler runs atomically in the server;  *)
(* the interleaving is between the requests of different client threads   *)
(* and the server's timeout callbacks.                                     *)
(***************************************************************************)
EXTENDS Naturals, Sequences, SequencesExt

CONSTANTS
  Queues,    \* threads owning a message queue (model values)
  NoQueue,   \* the NULL queue pointer
  MaxSends   \* bound on the number of send_message requests

ASSUME NoQueue \notin Queues
ASSUME MaxSends \in Nat \ {0}

Ids == 1..MaxSends   \* the n-th sent message and its result have id n

\* enum message_type, as far as the SEND_MESSAGE list is concerned:
\* MSG_OTHER_PROCESS, MSG_ASCII and MSG_UNICODE behave alike (Sync)
Sync == "Sync"
Callback == "Callback"
Notify == "Notify"
WinEvent == "WinEvent"      \* MSG_WINEVENT, posted by post_win_event
CallbackResult == "CallbackResult"
SendTypes == {Sync, Callback, Notify}
MsgTypes == SendTypes \cup {CallbackResult, WinEvent}

\* error codes a result is settled with
NoError == "NoError"
Timeout == "STATUS_TIMEOUT"
Denied == "STATUS_ACCESS_DENIED"
Unset == "Unset"

\* the wake bits this part of the queue uses
QS_SENDMESSAGE == "QS_SENDMESSAGE"
QS_SMRESULT == "QS_SMRESULT"
Bits == {QS_SENDMESSAGE, QS_SMRESULT}

\* life cycle of a message_result allocation
Unused == "Unused"
Live == "Live"
Freed == "Freed"

VARIABLES
  alive,       \* alive[q]: free_msg_queue has not run for q
  sendList,    \* sendList[q]: msg_list[SEND_MESSAGE], a Seq of [id, type]
  sendResult,  \* sendResult[q]: send_result list, head = most recent send
  cbResult,    \* cbResult[q]: callback_result list
  recvResult,  \* recvResult[q]: recv_result stack, head = top
  wakeBits,    \* wakeBits[q]: wake_bits (and changed_bits) of q
  result,      \* result[id]: the message_result of message id
  nsent        \* number of send_message requests so far

vars == <<alive, sendList, sendResult, cbResult, recvResult, wakeBits, result, nsent>>

Msg == [id : Ids, type : MsgTypes]
Result == [state : {Unused, Live, Freed},
           msg : BOOLEAN,                 \* result->msg != NULL
           sender : Queues \cup {NoQueue},
           receiver : Queues \cup {NoQueue},
           replied : BOOLEAN,
           error : {Unset, NoError, Timeout, Denied},
           timeout : BOOLEAN,             \* result->timeout armed
           callback : BOOLEAN]            \* result->callback_msg != NULL

HasResult(m) == m.type \in {Sync, Callback}

(***************************************************************************)
(* The handlers below work on a record S of the state they touch, so that  *)
(* a C function that calls others (free_message -> store_message_result -> *)
(* remove_result_from_sender -> free_result) is one composed operator.     *)
(***************************************************************************)
St == [result |-> result, sendList |-> sendList, sendResult |-> sendResult,
       cbResult |-> cbResult, recvResult |-> recvResult, wakeBits |-> wakeBits]

\* free_result: the result is gone, its timeout removed
free_result(S, id) ==
  [S EXCEPT !.result[id].state = Freed, !.result[id].timeout = FALSE]

\* remove_result_from_sender
remove_result_from_sender(S, id) ==
  LET q == S.result[id].sender
      S1 == [S EXCEPT !.sendResult[q] = Remove(@, id),
                      !.cbResult[q] = Remove(@, id),
                      !.result[id].sender = NoQueue]
  IN IF S1.result[id].receiver = NoQueue THEN free_result(S1, id) ELSE S1

settle_result(S, id, err) ==
  [S EXCEPT !.result[id].replied = TRUE, !.result[id].error = err,
            !.result[id].timeout = FALSE]

\* store_message_result, second half: queue the callback message or wake the
\* sender if this is the result it waits on; free an orphaned result
\* (bug variant: the sender is never woken with QS_SMRESULT)
wake_sender_skips_smresult(S, id) ==
  LET s == S.result[id].sender
  IN IF s # NoQueue
     THEN IF S.result[id].callback
          THEN remove_result_from_sender(
                 [S EXCEPT !.sendList[s] = Append(@, [id |-> id, type |-> CallbackResult]),
                           !.wakeBits[s] = @ \cup {QS_SENDMESSAGE},
                           !.result[id].callback = FALSE], id)
          ELSE S
     ELSE IF S.result[id].receiver = NoQueue THEN free_result(S, id) ELSE S
wake_sender(S, id) ==
  LET s == S.result[id].sender
  IN IF s # NoQueue
     THEN IF S.result[id].callback
          THEN remove_result_from_sender(
                 [S EXCEPT !.sendList[s] = Append(@, [id |-> id, type |-> CallbackResult]),
                           !.wakeBits[s] = @ \cup {QS_SENDMESSAGE},
                           !.result[id].callback = FALSE], id)
          ELSE IF S.sendResult[s] # <<>> /\ Head(S.sendResult[s]) = id
               THEN [S EXCEPT !.wakeBits[s] = @ \cup {QS_SMRESULT}]
               ELSE S
     ELSE IF S.result[id].receiver = NoQueue THEN free_result(S, id) ELSE S

store_message_result(S, id, err) == wake_sender(settle_result(S, id, err), id)

\* free_message for a message still carrying its result
free_message(S, m) ==
  IF HasResult(m)
  THEN store_message_result([S EXCEPT !.result[m.id].msg = FALSE,
                                      !.result[m.id].receiver = NoQueue], m.id, Denied)
  ELSE S

\* reply_message, bug variants: an orphaned result is never freed; a result
\* already settled (e.g. by its timeout) is settled again
reply_message_never_frees(S, q, err, remove) ==
  LET id == Head(S.recvResult[q])
      S1 == IF remove
            THEN [S EXCEPT !.recvResult[q] = Tail(@), !.result[id].receiver = NoQueue]
            ELSE S
  IN IF ~S1.result[id].replied THEN store_message_result(S1, id, err) ELSE S1
reply_message_overwrites(S, q, err, remove) ==
  LET id == Head(S.recvResult[q])
      S1 == IF remove
            THEN [S EXCEPT !.recvResult[q] = Tail(@), !.result[id].receiver = NoQueue]
            ELSE S
  IN IF remove /\ S1.result[id].sender = NoQueue
     THEN free_result(S1, id)
     ELSE store_message_result(S1, id, err)

\* reply_message on the top of q's recv_result stack
reply_message(S, q, err, remove) ==
  LET id == Head(S.recvResult[q])
      S1 == IF remove
            THEN [S EXCEPT !.recvResult[q] = Tail(@), !.result[id].receiver = NoQueue]
            ELSE S
  IN IF remove /\ S1.result[id].sender = NoQueue
     THEN free_result(S1, id)
     ELSE IF ~S1.result[id].replied THEN store_message_result(S1, id, err) ELSE S1

\* the loop of cleanup_results over the recv_result stack
RECURSIVE reply_all(_, _)
reply_all(S, q) ==
  IF S.recvResult[q] = <<>> THEN S
  ELSE reply_all(reply_message(S, q, Denied, TRUE), q)

SenderRemoved(S, id) == remove_result_from_sender(S, id)
MessageFreed(S, m) == free_message(S, m)

\* cleanup_msg_queue, bug variant: the results q sent are not detached
cleanup_msg_queue_skips_senders(S, q) ==
  LET S2 == reply_all(S, q)
      S3 == FoldLeft(MessageFreed, S2, S2.sendList[q])
  IN [S3 EXCEPT !.sendList[q] = <<>>]

\* cleanup_msg_queue: cleanup_results, then empty_msg_list on the send list
cleanup_msg_queue(S, q) ==
  LET S1 == FoldLeft(SenderRemoved, S, S.sendResult[q] \o S.cbResult[q])
      S2 == reply_all(S1, q)
      S3 == FoldLeft(MessageFreed, S2, S2.sendList[q])
  IN [S3 EXCEPT !.sendList[q] = <<>>]

\* publish a state record into the variables
Apply(S) ==
  /\ result' = S.result
  /\ sendList' = S.sendList
  /\ sendResult' = S.sendResult
  /\ cbResult' = S.cbResult
  /\ recvResult' = S.recvResult
  /\ wakeBits' = S.wakeBits

(***************************************************************************)
(* Actions: one per request handler or server callback.                    *)
(***************************************************************************)
Init ==
  /\ alive = [q \in Queues |-> TRUE]
  /\ sendList = [q \in Queues |-> <<>>]
  /\ sendResult = [q \in Queues |-> <<>>]
  /\ cbResult = [q \in Queues |-> <<>>]
  /\ recvResult = [q \in Queues |-> <<>>]
  /\ wakeBits = [q \in Queues |-> {}]
  /\ result = [id \in Ids |-> [state |-> Unused, msg |-> FALSE, sender |-> NoQueue,
                               receiver |-> NoQueue, replied |-> FALSE, error |-> Unset,
                               timeout |-> FALSE, callback |-> FALSE]]
  /\ nsent = 0

\* DECL_HANDLER(send_message) with alloc_message_result; timed says whether
\* req->timeout is finite
SendMessage(s, r, type, timed) ==
  LET id == nsent + 1
      m == [id |-> id, type |-> type]
      res == [state |-> Live, msg |-> TRUE, sender |-> s, receiver |-> r,
              replied |-> FALSE, error |-> Unset, timeout |-> timed,
              callback |-> type = Callback]
  IN
  /\ nsent < MaxSends
  /\ alive[s] /\ alive[r]
  /\ nsent' = id
  /\ sendList' = [sendList EXCEPT ![r] = Append(@, m)]
  /\ IF type = Notify
     THEN /\ wakeBits' = [wakeBits EXCEPT ![r] = @ \cup {QS_SENDMESSAGE}]
          /\ UNCHANGED <<result, sendResult, cbResult>>
     ELSE /\ result' = [result EXCEPT ![id] = res]
          /\ IF type = Callback
             THEN /\ cbResult' = [cbResult EXCEPT ![s] = Cons(id, @)]
                  /\ wakeBits' = [wakeBits EXCEPT ![r] = @ \cup {QS_SENDMESSAGE}]
                  /\ UNCHANGED sendResult
             ELSE /\ sendResult' = [sendResult EXCEPT ![s] = Cons(id, @)]
                  /\ wakeBits' = [wakeBits EXCEPT ![s] = @ \ {QS_SMRESULT},
                                                  ![r] = @ \cup {QS_SENDMESSAGE}]
                  /\ UNCHANGED cbResult
  /\ UNCHANGED <<alive, recvResult>>

\* post_win_event: a win event for the hook thread r goes on its send list
\* without a result (both allocations failing leave everything as it was)
PostWinEvent(r) ==
  /\ nsent < MaxSends
  /\ alive[r]
  /\ nsent' = nsent + 1
  /\ sendList' = [sendList EXCEPT ![r] = Append(@, [id |-> nsent + 1, type |-> WinEvent])]
  /\ wakeBits' = [wakeBits EXCEPT ![r] = @ \cup {QS_SENDMESSAGE}]
  /\ UNCHANGED <<alive, result, sendResult, cbResult, recvResult>>

\* receive_message, bug variant: QS_SENDMESSAGE cleared even if messages remain
ReceiveMessageClearsBit(q) ==
  LET m == Head(sendList[q])
  IN
  /\ alive[q]
  /\ sendList[q] # <<>>
  /\ sendList' = [sendList EXCEPT ![q] = Tail(@)]
  /\ IF HasResult(m)
     THEN /\ result' = [result EXCEPT ![m.id].msg = FALSE]
          /\ recvResult' = [recvResult EXCEPT ![q] = Cons(m.id, @)]
     ELSE UNCHANGED <<result, recvResult>>
  /\ wakeBits' = [wakeBits EXCEPT ![q] = @ \ {QS_SENDMESSAGE}]
  /\ UNCHANGED <<alive, sendResult, cbResult, nsent>>

\* DECL_HANDLER(get_message), first branch: receive_message on the head of
\* the send list
ReceiveMessage(q) ==
  LET m == Head(sendList[q])
      rest == Tail(sendList[q])
  IN
  /\ alive[q]
  /\ sendList[q] # <<>>
  /\ sendList' = [sendList EXCEPT ![q] = rest]
  /\ IF HasResult(m)
     THEN /\ result' = [result EXCEPT ![m.id].msg = FALSE]
          /\ recvResult' = [recvResult EXCEPT ![q] = Cons(m.id, @)]
     ELSE UNCHANGED <<result, recvResult>>
  /\ wakeBits' = [wakeBits EXCEPT ![q] = IF rest = <<>> THEN @ \ {QS_SENDMESSAGE} ELSE @]
  /\ UNCHANGED <<alive, sendResult, cbResult, nsent>>

\* DECL_HANDLER(reply_message)
ReplyMessage(q, remove) ==
  /\ alive[q]
  /\ recvResult[q] # <<>>
  /\ Apply(reply_message(St, q, NoError, remove))
  /\ UNCHANGED <<alive, nsent>>

\* result_timeout, bug variant: result->receiver is not cleared when the
\* queued message is retracted
ResultTimeoutKeepsReceiver(id) ==
  LET q == result[id].receiver
      keep(m) == ~(m.id = id /\ m.type # CallbackResult)
      S1 == IF result[id].msg
            THEN [St EXCEPT !.sendList[q] = SelectSeq(@, keep),
                            !.wakeBits[q] = IF SelectSeq(sendList[q], keep) = <<>>
                                            THEN @ \ {QS_SENDMESSAGE} ELSE @,
                            !.result[id].msg = FALSE]
            ELSE St
  IN
  /\ result[id].state = Live
  /\ result[id].timeout
  /\ Apply(store_message_result([S1 EXCEPT !.result[id].timeout = FALSE], id, Timeout))
  /\ UNCHANGED <<alive, nsent>>

\* result_timeout, the server's timeout callback for a result
ResultTimeout(id) ==
  LET q == result[id].receiver
      keep(m) == ~(m.id = id /\ m.type # CallbackResult)
      S1 == IF result[id].msg
            THEN [St EXCEPT !.sendList[q] = SelectSeq(@, keep),
                            !.wakeBits[q] = IF SelectSeq(sendList[q], keep) = <<>>
                                            THEN @ \ {QS_SENDMESSAGE} ELSE @,
                            !.result[id].msg = FALSE,
                            !.result[id].receiver = NoQueue]
            ELSE St
  IN
  /\ result[id].state = Live
  /\ result[id].timeout
  /\ Apply(store_message_result([S1 EXCEPT !.result[id].timeout = FALSE], id, Timeout))
  /\ UNCHANGED <<alive, nsent>>

\* get_message_reply, bug variant: QS_SMRESULT cleared without looking at the
\* next pending result
GetMessageReplyClearsBit(q, cancel) ==
  LET id == Head(sendResult[q])
  IN
  /\ alive[q]
  /\ sendResult[q] # <<>>
  /\ result[id].replied \/ cancel
  /\ Apply([remove_result_from_sender(St, id) EXCEPT !.wakeBits[q] = @ \ {QS_SMRESULT}])
  /\ UNCHANGED <<alive, nsent>>

\* DECL_HANDLER(get_message_reply) when a reply is there or the wait is
\* cancelled
GetMessageReply(q, cancel) ==
  LET id == Head(sendResult[q])
      S1 == remove_result_from_sender(St, id)
      rest == S1.sendResult[q]
      smresult == rest # <<>> /\ S1.result[Head(rest)].replied
  IN
  /\ alive[q]
  /\ sendResult[q] # <<>>
  /\ result[id].replied \/ cancel
  /\ Apply([S1 EXCEPT !.wakeBits[q] = IF smresult THEN @ \cup {QS_SMRESULT}
                                                  ELSE @ \ {QS_SMRESULT}])
  /\ UNCHANGED <<alive, nsent>>

\* free_msg_queue at thread exit
FreeMsgQueue(q) ==
  /\ alive[q]
  /\ alive' = [alive EXCEPT ![q] = FALSE]
  /\ Apply(cleanup_msg_queue(St, q))
  /\ UNCHANGED nsent

Next ==
  \/ \E s, r \in Queues, type \in SendTypes, timed \in BOOLEAN : SendMessage(s, r, type, timed)
  \/ \E r \in Queues : PostWinEvent(r)
  \/ \E q \in Queues : ReceiveMessage(q)
  \/ \E q \in Queues, remove \in BOOLEAN : ReplyMessage(q, remove)
  \/ \E id \in Ids : ResultTimeout(id)
  \/ \E q \in Queues, cancel \in BOOLEAN : GetMessageReply(q, cancel)
  \/ \E q \in Queues : FreeMsgQueue(q)

\* The server's timeout loop fires every armed timeout: weak fairness on
\* result_timeout.  Nothing obliges a client thread to fetch or reply.
Fairness == \A id \in Ids : WF_vars(ResultTimeout(id))

Spec == Init /\ [][Next]_vars
FairSpec == Spec /\ Fairness

(***************************************************************************)
(* Properties                                                              *)
(***************************************************************************)
TypeOK ==
  /\ alive \in [Queues -> BOOLEAN]
  /\ sendList \in [Queues -> Seq(Msg)]
  /\ sendResult \in [Queues -> Seq(Ids)]
  /\ cbResult \in [Queues -> Seq(Ids)]
  /\ recvResult \in [Queues -> Seq(Ids)]
  /\ wakeBits \in [Queues -> SUBSET Bits]
  /\ result \in [Ids -> Result]
  /\ nsent \in 0..MaxSends

\* where the sender and the receiver hold a reference to result id
HeldBySender(id, q) == id \in ToSet(sendResult[q]) \cup ToSet(cbResult[q])
HeldByReceiver(id, q) ==
  \/ \E i \in DOMAIN sendList[q] : sendList[q][i].id = id /\ HasResult(sendList[q][i])
  \/ id \in ToSet(recvResult[q])

\* No dangling result: a result reachable from a queue list, the recv_result
\* stack or a queued message is live, and its sender/receiver back pointers
\* name exactly the queues holding it (remove_result_from_sender, free_message,
\* result_timeout and reply_message must each clear the right side).
ResultLinksConsistent ==
  \A id \in Ids, q \in Queues :
    /\ HeldBySender(id, q) => result[id].state = Live /\ result[id].sender = q
    /\ HeldByReceiver(id, q) => result[id].state = Live /\ result[id].receiver = q
    /\ result[id].state = Live =>
         /\ (result[id].sender = q => HeldBySender(id, q))
         /\ (result[id].receiver = q => HeldByReceiver(id, q))

\* No leaked result: a live result is still held by its sender or its
\* receiver, so that somebody will free it.
NoLeakedResult ==
  \A id \in Ids : result[id].state = Live =>
    result[id].sender # NoQueue \/ result[id].receiver # NoQueue

\* A result references only queues whose thread is alive: free_msg_queue
\* detaches every result from the dying queue on both sides.
NoResultOnDeadQueue ==
  \A id \in Ids : result[id].state = Live =>
    /\ result[id].sender # NoQueue => alive[result[id].sender]
    /\ result[id].receiver # NoQueue => alive[result[id].receiver]

SenderWokenOnReply ==
  \A q \in Queues :
    alive[q] /\ sendResult[q] # <<>> /\ result[Head(sendResult[q])].replied
      => QS_SMRESULT \in wakeBits[q]

\* A queue with pending sent messages has QS_SENDMESSAGE set, whichever
\* path (timeout, receive, teardown of a sender) removed messages before.
SentMessagesSignalled ==
  \A q \in Queues : alive[q] /\ sendList[q] # <<>> => QS_SENDMESSAGE \in wakeBits[q]

\* Exactly-once settlement: once replied, a result stays replied with the
\* same error, whether a late reply, a timeout or a teardown comes after.
SettledOnce ==
  [][\A id \in Ids :
       result[id].replied => result'[id].replied /\ result'[id].error = result[id].error]_result

\* A sender blocked on a send with a finite timeout is eventually woken or
\* stops waiting on it.
WaitingOn(q, id) ==
  alive[q] /\ sendResult[q] # <<>> /\ Head(sendResult[q]) = id /\ result[id].timeout
TimedSendWakesSender ==
  \A q \in Queues, id \in Ids :
    WaitingOn(q, id) ~>
      (~alive[q] \/ QS_SMRESULT \in wakeBits[q] \/ sendResult[q] = <<>>
       \/ Head(sendResult[q]) # id)
================================================================================
