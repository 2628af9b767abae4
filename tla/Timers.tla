------------------------------- MODULE Timers -------------------------------
(***************************************************************************)
(* Window timers of one message queue (server/queue.c): the pending list   *)
(* kept sorted by expiry, the expired list, the single timeout armed for   *)
(* the head of the pending list, the QS_TIMER bit and the allocation of    *)
(* ids for timers without a window.  The handlers are set_win_timer,       *)
(* kill_win_timer, the timer branch of get_message (PM_REMOVE),            *)
(* queue_cleanup_window and the timer part of cleanup_msg_queue; the       *)
(* server's timeout loop runs timer_callback.  Queues do not share timers, *)
(* so one queue is enough.                                                  *)
(*                                                                         *)
(* As in the code, a timer's "when" is the negated monotonic expiry time.  *)
(***************************************************************************)
EXTENDS Integers, Sequences, FiniteSets, SequencesExt

CONSTANTS
  Wins,          \* window handles (model values); NoWin is the 0 handle
  NoWin,
  Msgs,          \* message numbers a timer may post (WM_TIMER, WM_SYSTIMER)
  ReqIds,        \* timer ids a client may pass in req->id (0 included)
  Rates,         \* req->rate values, in ms (0 included: set_timer clamps it)
  MsgRanges,     \* <<get_first, get_last>> filters of get_message
  FirstTimerId,  \* initial queue->next_timer_id (0x7fff)
  TimerIdFloor,  \* the wrap-around floor of next_timer_id (0x100)
  TicksPerMs,    \* monotonic ticks per ms (10000)
  MaxTime        \* bound on monotonic_time

ASSUME FirstTimerId > TimerIdFloor + 1 /\ TicksPerMs \in Nat \ {0}

VARIABLES
  alive,         \* the queue has not been cleaned up
  now,           \* monotonic_time
  pending,       \* queue->pending_timers
  expired,       \* queue->expired_timers
  timeout,       \* queue->timeout: {} or {when} of the armed timeout_user
  wakeBits,      \* the QS_TIMER wake bit
  nextTimerId    \* queue->next_timer_id

vars == <<alive, now, pending, expired, timeout, wakeBits, nextTimerId>>

QS_TIMER == "QS_TIMER"
NoId == 0

AnyWin == {NoWin} \cup Wins
Timer == [win : AnyWin, msg : Msgs, id : Int, rate : Nat \ {0}, when : Int]
Key(t) == [win |-> t.win, msg |-> t.msg, id |-> t.id]
\* ids a timer can have: the ones clients pass and the ones set_win_timer hands out
TimerIds == ReqIds \cup (TimerIdFloor + 1)..FirstTimerId
Keys == [win : AnyWin, msg : Msgs, id : TimerIds]

\* the record of the state a handler works on
St == [pending |-> pending, expired |-> expired, timeout |-> timeout,
       wakeBits |-> wakeBits, nextTimerId |-> nextTimerId]

\* set_next_timer: arm the head of the pending list, set/clear QS_TIMER
set_next_timer(S) ==
  [S EXCEPT !.timeout = IF S.pending = <<>> THEN {} ELSE {Head(S.pending).when},
            !.wakeBits = IF S.expired = <<>> THEN {} ELSE {QS_TIMER}]

\* find_timer: is there a timer with this window, message and id in either list
Matches(t, win, msg, id) == t.win = win /\ t.msg = msg /\ t.id = id
find_timer(S, win, msg, id) ==
  \E t \in ToSet(S.pending) \cup ToSet(S.expired) : Matches(t, win, msg, id)

\* link_timer, bug variant: the comparison is reversed
link_timer_reversed(S, t) ==
  LET i == SelectInSeq(S.pending, LAMBDA u : u.when >= t.when)
  IN [S EXCEPT !.pending = IF i = 0 THEN Append(@, t) ELSE InsertAt(@, i, t)]

\* link_timer: insert before the first timer that expires no earlier
link_timer(S, t) ==
  LET i == SelectInSeq(S.pending, LAMBDA u : u.when <= t.when)
  IN [S EXCEPT !.pending = IF i = 0 THEN Append(@, t) ELSE InsertAt(@, i, t)]

\* free_timer: unlink the timer from whichever list holds it
free_timer(S, win, msg, id) ==
  LET keep(t) == ~Matches(t, win, msg, id)
  IN set_next_timer([S EXCEPT !.pending = SelectSeq(@, keep),
                              !.expired = SelectSeq(@, keep)])

\* the catch-up loop of restart_timer
RECURSIVE catch_up(_, _)
catch_up(t, time) ==
  IF -t.when <= time THEN catch_up([t EXCEPT !.when = @ - t.rate * TicksPerMs], time) ELSE t

\* restart_timer, bug variants: the timer is moved on by one period only;
\* the next timer is not re-armed
restart_once(S, i, time) ==
  LET t == S.expired[i]
      t1 == [t EXCEPT !.when = @ - t.rate * TicksPerMs]
  IN set_next_timer(link_timer([S EXCEPT !.expired = RemoveAt(@, i)], t1))
restart_no_rearm(S, i, time) ==
  LET t == S.expired[i]
  IN link_timer([S EXCEPT !.expired = RemoveAt(@, i)], catch_up(t, time))

\* restart_timer on the i-th expired timer
restart_timer(S, i, time) ==
  LET t == S.expired[i]
  IN set_next_timer(link_timer([S EXCEPT !.expired = RemoveAt(@, i)], catch_up(t, time)))

\* set_timer, bug variant: the new head is not armed
set_timer_no_rearm(S, rate, win, msg, id, time) ==
  LET r == IF rate > 1 THEN rate ELSE 1
  IN link_timer(S, [win |-> win, msg |-> msg, id |-> id, rate |-> r,
                    when |-> -time - r * TicksPerMs])

\* set_timer: a new timer one period from now; re-arm if it became the head
set_timer(S, rate, win, msg, id, time) ==
  LET r == IF rate > 1 THEN rate ELSE 1
      t == [win |-> win, msg |-> msg, id |-> id, rate |-> r, when |-> -time - r * TicksPerMs]
      S1 == link_timer(S, t)
  IN IF Head(S1.pending) = t THEN set_next_timer(S1) ELSE S1

\* the decrement of next_timer_id with its wrap-around (bug variant: it never
\* wraps)
NextId_nowrap(n) == n - 1
NextId(n) == IF n - 1 <= TimerIdFloor THEN FirstTimerId ELSE n - 1

\* alloc_timer_id, bug variant: the id is taken without looking for a timer
\* that already has it
alloc_timer_id_unchecked(S, msg, next, end) == <<next, NextId(next)>>

\* the id search loop of set_win_timer for a timer without a window:
\* <<id, next_timer_id>>, id = NoId when every id is in use
RECURSIVE alloc_timer_id(_, _, _, _)
alloc_timer_id(S, msg, next, end) ==
  IF ~find_timer(S, NoWin, msg, next) THEN <<next, NextId(next)>>
  ELSE IF NextId(next) = end THEN <<NoId, NextId(next)>>
  ELSE alloc_timer_id(S, msg, NextId(next), end)

\* publish a state record
Apply(S) ==
  /\ pending' = S.pending
  /\ expired' = S.expired
  /\ timeout' = S.timeout
  /\ wakeBits' = S.wakeBits
  /\ nextTimerId' = S.nextTimerId

(***************************************************************************)
(* Actions                                                                 *)
(***************************************************************************)
\* create_msg_queue
Init ==
  /\ alive = TRUE
  /\ now = 0
  /\ pending = <<>>
  /\ expired = <<>>
  /\ timeout = {}
  /\ wakeBits = {}
  /\ nextTimerId = FirstTimerId

\* DECL_HANDLER(set_win_timer) for a window timer: replace any timer with
\* the same window, message and id
SetWindowTimer(win, msg, id, rate) ==
  LET S1 == IF find_timer(St, win, msg, id) THEN free_timer(St, win, msg, id) ELSE St
  IN
  /\ alive
  /\ Apply(set_timer(S1, rate, win, msg, id, now))
  /\ UNCHANGED <<alive, now>>

\* DECL_HANDLER(set_win_timer) for a timer without a window: reuse the id
\* passed in if such a timer exists, else search a free id
SetThreadTimer(msg, reqId, rate) ==
  LET reuse == reqId # NoId /\ find_timer(St, NoWin, msg, reqId)
      a == alloc_timer_id(St, msg, nextTimerId, nextTimerId)
      S1 == IF reuse THEN free_timer(St, NoWin, msg, reqId)
            ELSE [St EXCEPT !.nextTimerId = a[2]]
      id == IF reuse THEN reqId ELSE a[1]
  IN
  /\ alive
  /\ IF id = NoId
     THEN Apply(S1)                         \* ERROR_NO_MORE_USER_HANDLES
     ELSE Apply(set_timer(S1, rate, NoWin, msg, id, now))
  /\ UNCHANGED <<alive, now>>

\* DECL_HANDLER(kill_win_timer)
KillWinTimer(win, msg, id) ==
  /\ alive
  /\ find_timer(St, win, msg, id)
  /\ Apply(free_timer(St, win, msg, id))
  /\ UNCHANGED <<alive, now>>

\* timer_callback, bug variant: the next pending timer is not armed
TimerCallbackNoRearm ==
  /\ alive
  /\ \E w \in timeout : -w <= now
  /\ Apply([St EXCEPT !.timeout = {}, !.pending = Tail(@),
                      !.expired = Append(@, Head(pending)),
                      !.wakeBits = {QS_TIMER}])
  /\ UNCHANGED <<alive, now>>

\* timer_callback, run by the timeout loop once the armed expiry is reached
TimerCallback ==
  /\ alive
  /\ \E w \in timeout : -w <= now
  /\ Apply(set_next_timer([St EXCEPT !.timeout = {},
                                     !.pending = Tail(@),
                                     !.expired = Append(@, Head(pending))]))
  /\ UNCHANGED <<alive, now>>

\* DECL_HANDLER(get_message), timer branch with PM_REMOVE:
\* find_expired_timer takes the first expired timer passing the filter
GetTimerMessage(getWin, range) ==
  LET ok(t) == (getWin = NoWin \/ t.win = getWin) /\ range[1] <= t.msg /\ t.msg <= range[2]
      i == SelectInSeq(expired, ok)
  IN
  /\ alive
  /\ i # 0
  /\ Apply(restart_timer(St, i, now))
  /\ UNCHANGED <<alive, now>>

\* queue_cleanup_window: free_timer on every timer of the window
QueueCleanupWindow(win) ==
  LET mine(t) == t.win = win
      keep(t) == ~mine(t)
  IN
  /\ alive
  /\ \E t \in ToSet(pending) \cup ToSet(expired) : mine(t)
  /\ Apply(set_next_timer([St EXCEPT !.pending = SelectSeq(@, keep),
                                     !.expired = SelectSeq(@, keep)]))
  /\ UNCHANGED <<alive, now>>

\* cleanup_msg_queue: free both timer lists and the armed timeout
CleanupMsgQueue ==
  /\ alive
  /\ alive' = FALSE
  /\ pending' = <<>>
  /\ expired' = <<>>
  /\ timeout' = {}
  /\ UNCHANGED <<now, wakeBits, nextTimerId>>

\* monotonic time advances
Tick ==
  /\ now < MaxTime
  /\ now' = now + 1
  /\ UNCHANGED <<alive, pending, expired, timeout, wakeBits, nextTimerId>>

Next ==
  \/ \E win \in Wins, msg \in Msgs, id \in ReqIds, rate \in Rates : SetWindowTimer(win, msg, id, rate)
  \/ \E msg \in Msgs, id \in ReqIds, rate \in Rates : SetThreadTimer(msg, id, rate)
  \/ \E win \in AnyWin, msg \in Msgs, id \in TimerIds : KillWinTimer(win, msg, id)
  \/ TimerCallback
  \/ \E win \in AnyWin, range \in MsgRanges : GetTimerMessage(win, range)
  \/ \E win \in Wins : QueueCleanupWindow(win)
  \/ CleanupMsgQueue
  \/ Tick

\* The server's main loop runs every timeout that is due.
Spec == Init /\ [][Next]_vars
FairSpec == Spec /\ WF_vars(TimerCallback)

(***************************************************************************)
(* Properties                                                              *)
(***************************************************************************)
TypeOK ==
  /\ alive \in BOOLEAN
  /\ now \in 0..MaxTime
  /\ pending \in Seq(Timer)
  /\ expired \in Seq(Timer)
  /\ timeout \in SUBSET Int /\ Cardinality(timeout) <= 1
  /\ wakeBits \in SUBSET {QS_TIMER}
  /\ nextTimerId \in (TimerIdFloor + 1)..FirstTimerId

\* The armed timeout is the earliest expiry of all pending timers: set_timer,
\* restart_timer, free_timer and timer_callback keep the list sorted through
\* link_timer and re-arm its head, so no timer fires late.
NextExpiryArmed ==
  alive =>
    timeout = IF pending = <<>> THEN {} ELSE {Max({t.when : t \in ToSet(pending)})}

\* QS_TIMER is set exactly when an expired timer waits to be fetched, after
\* any mix of expiry, restart, kill and window cleanup (set_next_timer).
TimerBitMatchesExpired ==
  alive => (QS_TIMER \in wakeBits <=> expired # <<>>)

\* No two timers share window, message and id, across both lists: set_win_timer
\* replaces a timer of the same key and its id search skips ids in use.
UniqueTimerKeys ==
  \A i \in 1..Len(pending \o expired), j \in 1..Len(pending \o expired) :
    i # j => Key((pending \o expired)[i]) # Key((pending \o expired)[j])

\* A timer that moves from the expired list back to the pending list (fetched
\* by get_message or set again) then expires in the future and at most one
\* period from now (restart_timer's catch-up, set_timer).
RestartedWithinOnePeriod ==
  [][\A t \in ToSet(expired), u \in ToSet(pending') :
       Key(t) = Key(u) /\ u \notin ToSet(pending) =>
         now' < -u.when /\ -u.when <= now' + u.rate * TicksPerMs]_vars

\* A pending timer whose expiry has passed is eventually moved to the expired
\* list, restarted or removed: the armed timeout of the head always fires
\* (timer_callback re-arms the next one).
DuePending(k) == \E t \in ToSet(pending) : Key(t) = k /\ -t.when <= now
DueTimerExpires == \A k \in Keys : DuePending(k) ~> ~DuePending(k)

================================================================================
