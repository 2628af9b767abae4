---------------------------- MODULE HardwareInput ----------------------------
(***************************************************************************)
(* The hardware message list of one thread input (server/queue.c) and the  *)
(* threads attached to it: queue_hardware_message with the merge policy    *)
(* (merge_mousemove, merge_mousewheel through find_mouse_message), the     *)
(* scan of get_hardware_message (drop, wake another thread, filter, claim  *)
(* with a unique id) and release_hardware_message through                  *)
(* accept_hardware_message.  The window tree (window under the cursor,     *)
(* focus) is an environment that may change between requests.             *)
(*                                                                         *)
(* Ghost state: every injected event gets a number; a queued message       *)
(* records the events merged into it (evs) and events[e] the position and  *)
(* wheel delta of event e.                                                 *)
(***************************************************************************)
EXTENDS Integers, Sequences, FiniteSets, SequencesExt

CONSTANTS
  Threads,      \* the threads whose queues share this thread input
  Wins,         \* window handles (model values)
  NoWin,        \* the 0 handle
  Owner,        \* Owner[w]: the thread of window w, or OtherInput
  OtherInput,   \* a thread attached to another thread input
  Positions,    \* cursor x coordinates: the top window rectangle, left to right - 1
  ClipRects,    \* <<left, right>> rectangles a set_cursor request may ask to clip to
  Deltas,       \* wheel deltas an event may carry (signed 16 bits)
  MsgRanges,    \* <<first, last>> filters of get_message
  FilterWins,   \* window filters of get_message (NoWin: any window)
  UidMax,       \* largest unique id before the counter wraps (2^32 - 1)
  RemoveFlags,  \* whether get_message passes PM_REMOVE; it matters for raw input only
  MaxEvents     \* bound on injected events and set_cursor requests

VARIABLES
  list,         \* input->msg_list
  cursor,       \* desktop->shared->cursor.x
  cursorWin,    \* desktop->cursor_win
  clip,         \* desktop->shared->cursor.clip, <<left, right>>
  clipFlags,    \* desktop->cursor_clip_flags, as the set of SET_CURSOR_* bits
  hitWin,       \* window under the cursor (environment)
  focusWin,     \* input->shared->focus, also standing for the active window (environment)
  wakeBits,     \* wakeBits[t]: hardware wake bits of thread t's queue
  uidCounter,   \* the static id of get_unique_id
  events        \* ghost: [pos, delta] of every injected event or request

vars == <<list, cursor, cursorWin, clip, clipFlags, hitWin, focusWin, wakeBits, uidCounter, events>>

\* message codes (winuser.h)
WM_INPUT_DEVICE_CHANGE == 254
WM_INPUT == 255
WM_KEYDOWN == 256
WM_KEYFIRST == 256
WM_KEYLAST == 265
WM_NCMOUSEFIRST == 160
WM_NCLBUTTONDBLCLK == 163
WM_MOUSEFIRST == 512
WM_MOUSEMOVE == 512
WM_LBUTTONDOWN == 513
WM_LBUTTONDBLCLK == 515
WM_MOUSEWHEEL == 522
WM_MOUSELAST == 526
\* WM_WINE_SETCURSOR and WM_WINE_CLIPCURSOR sit at 0x80001ff0 and up, in the
\* driver range, above every filter but the full one (first 0, last ~0);
\* TLC integers stop at 2^31 - 1, so the top of the full range is MAXUINT
WM_WINE_SETCURSOR == 2147483640
WM_WINE_CLIPCURSOR == 2147483641
MAXUINT == 2147483647
SET_CURSOR_POS == "SET_CURSOR_POS"
SET_CURSOR_CLIP == "SET_CURSOR_CLIP"
SET_CURSOR_NOCLIP == "SET_CURSOR_NOCLIP"
NoRect == <<>>
\* set_cursor requests for the position or the clip, one flag each as the
\* SetCursorPos and ClipCursor clients send them
SetCursorFlags == {{SET_CURSOR_POS}, {SET_CURSOR_CLIP}, {SET_CURSOR_NOCLIP}}
MINSHORT == -32768
MAXSHORT == 32767

QS_KEY == "QS_KEY"
QS_MOUSEMOVE == "QS_MOUSEMOVE"
QS_MOUSEBUTTON == "QS_MOUSEBUTTON"
QS_RAWINPUT == "QS_RAWINPUT"
QS_POINTER == "QS_POINTER"
QS_INPUT == {QS_KEY, QS_MOUSEMOVE, QS_MOUSEBUTTON, QS_RAWINPUT, QS_POINTER}

Codes == {WM_KEYDOWN, WM_MOUSEMOVE, WM_LBUTTONDOWN, WM_MOUSEWHEEL,
          WM_WINE_SETCURSOR, WM_WINE_CLIPCURSOR, WM_INPUT, WM_INPUT_DEVICE_CHANGE}
\* get_top_window_rectangle, x extent
TopRect == <<Min(Positions), Max(Positions) + 1>>
AnyWin == Wins \cup {NoWin}
EvIds == 1..MaxEvents

\* get_hardware_msg_bit for the codes modelled
get_hardware_msg_bit(code) ==
  CASE code = WM_MOUSEMOVE -> QS_MOUSEMOVE
    [] code >= WM_KEYFIRST /\ code <= WM_KEYLAST -> QS_KEY
    [] code \in {WM_INPUT, WM_INPUT_DEVICE_CHANGE, WM_WINE_CLIPCURSOR, WM_WINE_SETCURSOR} -> QS_RAWINPUT
    [] OTHER -> QS_MOUSEBUTTON

\* is_internal_hardware_message: the driver notifications
is_internal_hardware_message(code) == code \in {WM_WINE_SETCURSOR, WM_WINE_CLIPCURSOR}

check_msg_filter(code, range) == range[1] <= code /\ code <= range[2]

\* check_hw_message_filter: a mouse message may still become a non-client
\* message or a double-click; only a key message checks the window filter
check_hw_message_filter(win, code, filterWin, range) ==
  CASE get_hardware_msg_bit(code) = QS_KEY ->
         (filterWin = NoWin \/ win = filterWin) /\ check_msg_filter(code, range)
    [] get_hardware_msg_bit(code) = QS_RAWINPUT -> check_msg_filter(code, range)
    [] OTHER ->
       \/ check_msg_filter(code, range)
       \/ code # WM_MOUSEWHEEL /\ check_msg_filter(code + (WM_NCMOUSEFIRST - WM_MOUSEFIRST), range)
       \/ code = WM_LBUTTONDOWN /\
            \/ check_msg_filter(code + (WM_LBUTTONDBLCLK - WM_LBUTTONDOWN), range)
            \/ check_msg_filter(code + (WM_NCLBUTTONDBLCLK - WM_LBUTTONDOWN), range)

\* find_hardware_message_window: keys go to the focus window, mouse messages
\* to their visible target window or the window under the cursor, driver
\* notifications to their window or the focus
find_hardware_message_window(m) ==
  IF get_hardware_msg_bit(m.code) = QS_KEY THEN focusWin
  ELSE IF m.win # NoWin THEN m.win
  ELSE IF get_hardware_msg_bit(m.code) = QS_RAWINPUT THEN focusWin
  ELSE hitWin
WinThread(w) == IF w = NoWin THEN OtherInput ELSE Owner[w]

\* get_unique_id: an unsigned counter that skips 0 on wrap-around
get_unique_id(u) == IF u = UidMax THEN 1 ELSE u + 1

(***************************************************************************)
(* Merging                                                                 *)
(***************************************************************************)
\* find_mouse_message from index i towards the head: pass over WM_INPUT
\* messages (no WM_POINTERUPDATE is modelled), then take the first other
\* message if it has no result, a compatible window and the same code; the
\* index, or 0.  Messages on this list never carry a result, and msg->type
\* is MSG_HARDWARE for all of them.
RECURSIVE find_mouse_from(_, _, _)
find_mouse_from(L, i, m) ==
  IF i = 0 THEN 0
  ELSE IF L[i].code = WM_INPUT THEN find_mouse_from(L, i - 1, m)
  ELSE IF L[i].win # NoWin /\ m.win # NoWin /\ L[i].win # m.win THEN 0
  ELSE IF L[i].code # m.code THEN 0
  ELSE i

\* find_mouse_message: the scan starts at the tail of the list
find_mouse_message(L, m) == find_mouse_from(L, Len(L), m)

\* unlink element i and add it back at the tail with new contents
MoveToTail(L, i, new) == Append(RemoveAt(L, i), new)

\* the signed 16-bit high word MAKEWPARAM keeps of a wheel delta
ToShort(d) == ((d - MINSHORT) % 65536) + MINSHORT

\* merge_mousewheel, bug variants without the short bound check: the sum
\* wraps in the wparam high word; the sum is kept whole
merge_mousewheel_wraps(L, m) ==
  LET i == find_mouse_message(L, m)
  IN IF i = 0 \/ L[i].x # m.x THEN <<FALSE, L>>
     ELSE <<TRUE, MoveToTail(L, i, [L[i] EXCEPT !.delta = ToShort(@ + m.delta), !.x = m.x,
                                                !.evs = @ \cup m.evs])>>
merge_mousewheel_unbounded(L, m) ==
  LET i == find_mouse_message(L, m)
  IN IF i = 0 \/ L[i].x # m.x THEN <<FALSE, L>>
     ELSE <<TRUE, MoveToTail(L, i, [L[i] EXCEPT !.delta = @ + m.delta, !.x = m.x,
                                                !.evs = @ \cup m.evs])>>

\* merge_mousewheel: same cursor position, accumulated delta within a short
merge_mousewheel(L, m) ==
  LET i == find_mouse_message(L, m)
      delta == IF i = 0 THEN 0 ELSE L[i].delta + m.delta
  IN IF i = 0 \/ L[i].x # m.x \/ delta < MINSHORT \/ delta > MAXSHORT THEN <<FALSE, L>>
     ELSE <<TRUE, MoveToTail(L, i, [L[i] EXCEPT !.delta = delta, !.x = m.x,
                                                !.evs = @ \cup m.evs])>>

\* merge_mousemove, bug variant: the position of the new move is not copied
merge_mousemove_keeps_pos(L, m) ==
  LET i == find_mouse_message(L, m)
  IN IF i = 0 THEN <<FALSE, L>>
     ELSE <<TRUE, MoveToTail(L, i, [L[i] EXCEPT !.evs = @ \cup m.evs])>>

\* merge_mousemove: the last move takes the new position
merge_mousemove(L, m) ==
  LET i == find_mouse_message(L, m)
  IN IF i = 0 THEN <<FALSE, L>>
     ELSE <<TRUE, MoveToTail(L, i, [L[i] EXCEPT !.x = m.x, !.evs = @ \cup m.evs])>>

\* merge_unique_message: the last message with this code, whatever its
\* position in the list or its unique id, if it has the same window, takes
\* the new contents and moves to the tail
merge_unique_message(L, m) ==
  LET i == SelectLastInSeq(L, LAMBDA p : p.code = m.code)
  IN IF i = 0 \/ L[i].win # m.win THEN <<FALSE, L>>
     ELSE <<TRUE, MoveToTail(L, i, [L[i] EXCEPT !.x = m.x, !.evs = @ \cup m.evs])>>

\* merge_message: <<merged, new list>>
merge_message(L, m) ==
  CASE m.code = WM_MOUSEWHEEL -> merge_mousewheel(L, m)
    [] m.code = WM_MOUSEMOVE -> merge_mousemove(L, m)
    [] m.code \in {WM_WINE_CLIPCURSOR, WM_WINE_SETCURSOR} -> merge_unique_message(L, m)
    [] OTHER -> <<FALSE, L>>

(***************************************************************************)
(* The desktop cursor.  A handler may queue several messages, so the steps *)
(* below map a state record S to the next one; an action applies the last *)
(***************************************************************************)
Hw == [list |-> list, cursor |-> cursor, cursorWin |-> cursorWin, clip |-> clip,
       clipFlags |-> clipFlags, wakeBits |-> wakeBits]

Apply(S) ==
  \E s \in {S} :
    /\ list' = s.list /\ cursor' = s.cursor /\ cursorWin' = s.cursorWin
    /\ clip' = s.clip /\ clipFlags' = s.clipFlags /\ wakeBits' = s.wakeBits

\* the max( min( x, right - 1 ), left ) of the cursor code
ClampX(x, r) == Max({Min({x, r[2] - 1}), r[1]})

\* is_cursor_clipped
is_cursor_clipped(S) == S.clip # TopRect

\* the tail of queue_hardware_message once the position is final: drop the
\* message without a window of this input; queue it when always_queue is
\* set or the window found is not the one asked for, merging where it can
QueueOnInput(S, msg, always) ==
  LET win == find_hardware_message_window(msg)
      th == WinThread(win)
      r == merge_message(S.list, msg)
  IN IF th = OtherInput THEN S
     ELSE IF ~(always \/ win # msg.win) THEN S
     ELSE IF r[1] THEN [S EXCEPT !.list = r[2]]
     ELSE [S EXCEPT !.list = Append(@, msg),
                    !.wakeBits[th] = @ \cup {get_hardware_msg_bit(msg.code)}]

\* queue_cursor_message: a driver notification at the cursor position, for
\* win or else the active window
queue_cursor_message(S, win, code, ev) ==
  QueueOnInput(S, [code |-> code, win |-> IF win # NoWin THEN win ELSE focusWin,
                   x |-> S.cursor, delta |-> 0, uid |-> 0, evs |-> ev], TRUE)

\* update_desktop_cursor_window: a new cursor window with a thread tells it
\* (and the active window as well while the cursor is clipped); <<S, updated>>
update_desktop_cursor_window(S, win, ev) ==
  LET S1 == [S EXCEPT !.cursorWin = win]
      S2 == IF is_cursor_clipped(S1)
            THEN queue_cursor_message(S1, NoWin, WM_WINE_SETCURSOR, ev) ELSE S1
  IN IF win # S.cursorWin /\ win # NoWin
     THEN <<queue_cursor_message(S2, win, WM_WINE_SETCURSOR, ev), TRUE>>
     ELSE <<S1, win # S.cursorWin>>

\* update_desktop_cursor_pos: clamp into the clip rectangle, then the window
\* (the target, or the one under the cursor); <<S, updated>>
update_desktop_cursor_pos(S, win, x, ev) ==
  LET cx == ClampX(x, S.clip)
      r == update_desktop_cursor_window([S EXCEPT !.cursor = cx],
                                        IF win # NoWin THEN win ELSE hitWin, ev)
  IN <<r[1], cx # S.cursor \/ r[2]>>

\* queue_hardware_message: a mouse message moves the cursor first and takes
\* its final position; only a move that changed nothing may be dropped
queue_hardware_message(S, m, always) ==
  LET mouse == get_hardware_msg_bit(m.code) \in {QS_MOUSEMOVE, QS_MOUSEBUTTON}
      u == IF mouse THEN update_desktop_cursor_pos(S, m.win, m.x, m.evs) ELSE <<S, FALSE>>
  IN QueueOnInput(u[1], [m EXCEPT !.x = u[1].cursor],
                  always \/ m.code # WM_MOUSEMOVE \/ u[2])

\* set_cursor_pos, with no raw input device registered: a move message
set_cursor_pos(S, x, ev) ==
  queue_hardware_message(S, [code |-> WM_MOUSEMOVE, win |-> NoWin, x |-> x, delta |-> 0,
                             uid |-> 0, evs |-> ev], TRUE)

\* set_clip_rectangle, bug variant: the clip changes but the cursor is not
\* warped inside it
set_clip_rectangle_no_warp(S, rect, flags, ev) ==
  LET lr == IF rect = NoRect THEN TopRect
            ELSE <<Max({rect[1], TopRect[1]}), Min({rect[2], TopRect[2]})>>
      new == IF lr[1] > lr[2] THEN TopRect ELSE lr
      S1 == [S EXCEPT !.clip = new, !.clipFlags = flags]
  IN IF flags # {SET_CURSOR_NOCLIP} \/ S.clipFlags # {SET_CURSOR_NOCLIP}
     THEN queue_cursor_message(S1, NoWin, WM_WINE_CLIPCURSOR, ev) ELSE S1

\* set_clip_rectangle without reset: clip to the request within the top
\* rectangle (the whole of it for none or an inverted one), warp the cursor
\* inside, and notify the active window unless no clip is set or released
set_clip_rectangle(S, rect, flags, ev) ==
  LET lr == IF rect = NoRect THEN TopRect
            ELSE <<Max({rect[1], TopRect[1]}), Min({rect[2], TopRect[2]})>>
      new == IF lr[1] > lr[2] THEN TopRect ELSE lr
      S1 == [S EXCEPT !.clip = new, !.clipFlags = flags]
      x == ClampX(S.cursor, new)
      S2 == IF x # S.cursor THEN set_cursor_pos(S1, x, ev) ELSE S1
  IN IF flags # {SET_CURSOR_NOCLIP} \/ S.clipFlags # {SET_CURSOR_NOCLIP}
     THEN queue_cursor_message(S2, NoWin, WM_WINE_CLIPCURSOR, ev) ELSE S2

(***************************************************************************)
(* Actions                                                                 *)
(***************************************************************************)
Init ==
  /\ list = <<>>
  /\ cursor \in Positions
  /\ cursorWin = NoWin        \* a new desktop: no cursor window,
  /\ clip = TopRect           \* no clip
  /\ clipFlags = {}           \* and no clip flags
  /\ hitWin \in AnyWin
  /\ focusWin \in AnyWin
  /\ wakeBits = [t \in Threads |-> {}]
  /\ uidCounter = 0
  /\ events = <<>>

\* the id of the next event
NextEv == {Len(events) + 1}

\* a new event of the given kind, target window, position and delta
NewMessage(code, win, x, delta) ==
  [code |-> code, win |-> win, x |-> x, delta |-> delta, uid |-> 0, evs |-> NextEv]

\* an injected event: the handler's state S, recorded in the ghost with the
\* cursor position its messages carry
Inject(S, delta) ==
  /\ Len(events) < MaxEvents
  /\ \E s \in {S} :
       /\ Apply(s)
       /\ events' = Append(events, [pos |-> s.cursor, delta |-> delta])
  /\ UNCHANGED <<hitWin, focusWin, uidCounter>>

\* send_hardware_message -> queue_mouse_message, MOUSEEVENTF_MOVE to x; a move
\* to the current position is no move message at all.  The refresh of the
\* cursor window comes first.
SendMouseMove(win, x) ==
  /\ x # cursor
  /\ \E S0 \in {update_desktop_cursor_pos(Hw, cursorWin, cursor, NextEv)[1]} :
       Inject(queue_hardware_message(S0, NewMessage(WM_MOUSEMOVE, win, x, 0), FALSE), 0)

\* queue_mouse_message with MOUSEEVENTF_LEFTDOWN
SendMouseButton(win) ==
  \E S0 \in {update_desktop_cursor_pos(Hw, cursorWin, cursor, NextEv)[1]} :
    Inject(queue_hardware_message(S0, NewMessage(WM_LBUTTONDOWN, win, cursor, 0), FALSE), 0)

\* queue_mouse_message with MOUSEEVENTF_WHEEL
SendMouseWheel(win, delta) ==
  \E S0 \in {update_desktop_cursor_pos(Hw, cursorWin, cursor, NextEv)[1]} :
    Inject(queue_hardware_message(S0, NewMessage(WM_MOUSEWHEEL, win, cursor, delta), FALSE),
           delta)

\* queue_keyboard_message, a key press with no hotkey registered for it
SendKey(win) ==
  Inject(queue_hardware_message(Hw, NewMessage(WM_KEYDOWN, win, cursor, 0), FALSE), 0)

\* DECL_HANDLER(set_cursor) for the position and clip flags (the cursor
\* handle and count are not modelled): SET_CURSOR_POS, then SET_CURSOR_CLIP,
\* then SET_CURSOR_NOCLIP, each step on the state the one before left
SetCursor(flags, x, rect) ==
  \E S1 \in {IF SET_CURSOR_POS \in flags THEN set_cursor_pos(Hw, x, NextEv) ELSE Hw} :
  \E S2 \in {IF SET_CURSOR_CLIP \in flags
             THEN set_clip_rectangle(S1, rect, flags, NextEv) ELSE S1} :
  \E S3 \in {IF SET_CURSOR_NOCLIP \in flags
             THEN set_clip_rectangle(S2, NoRect, {SET_CURSOR_NOCLIP}, NextEv) ELSE S2} :
    Inject(S3, 0)

\* the window tree changes: another window under the cursor, another focus
WindowTreeChanges(hw, fw) ==
  /\ <<hw, fw>> # <<hitWin, focusWin>>
  /\ hitWin' = hw
  /\ focusWin' = fw
  /\ UNCHANGED <<list, cursor, cursorWin, clip, clipFlags, wakeBits, uidCounter, events>>

\* one step of the loop of get_hardware_message over the list from index i:
\* a message without a window of this input is dropped, one for another
\* attached thread wakes it, one this thread may not take yet is skipped
\* (its bit stays set); returns the list, the bits, the index found (0 if
\* none) and the bits to clear
RECURSIVE scan(_, _, _, _, _, _, _, _)
scan(L, W, t, i, filterWin, range, clear, got) ==
  IF i > Len(L) THEN [list |-> L, bits |-> W, found |-> 0, clear |-> clear]
  ELSE
    LET m == L[i]
        win == find_hardware_message_window(m)
        th == WinThread(win)
        bit == get_hardware_msg_bit(m.code)
    IN IF th = OtherInput
       THEN scan(RemoveAt(L, i), W, t, i, filterWin, range, clear, got)
       ELSE IF th # t
       THEN scan(L, [W EXCEPT ![th] = @ \cup {bit}], t, i + 1, filterWin, range, clear, TRUE)
       ELSE IF got \/ ~check_hw_message_filter(win, m.code, filterWin, range)
       THEN scan(L, W, t, i + 1, filterWin, range, clear \ {bit}, got)
       ELSE [list |-> L, bits |-> W, found |-> i, clear |-> clear]

\* release_hardware_message on the message at index i of L for thread t:
\* remove it; clear its bit on t's queue if no other message of that kind
\* is left
release_hardware_message(L, W, t, i) ==
  LET bit == get_hardware_msg_bit(L[i].code)
      others == \E j \in DOMAIN L : j # i /\ get_hardware_msg_bit(L[j].code) = bit
  IN [list |-> RemoveAt(L, i),
      bits |-> IF others THEN W ELSE [W EXCEPT ![t] = @ \ {bit}]]

\* get_hardware_message for thread t: hwId is the id of the message the
\* client looked at last (0 for none); the scan starts after it.  A message
\* returned gets a unique id unless it already has one; a driver
\* notification, and a raw input message taken with PM_REMOVE, is released
\* at once.
GetHardwareMessage(t, hwId, filterWin, range, remove) ==
  LET at == IF hwId = 0 THEN 0 ELSE SelectInSeq(list, LAMBDA m : m.uid = hwId)
      start == IF at = 0 THEN 1 ELSE at + 1
  IN
  \E r \in {scan(list, wakeBits, t, start, filterWin, range,
                 IF start = 1 THEN QS_INPUT ELSE {}, FALSE)} :
  LET new == r.found # 0 /\ r.list[r.found].uid = 0
      uid == get_unique_id(uidCounter)
      L == IF new THEN [r.list EXCEPT ![r.found].uid = uid] ELSE r.list
      rel == release_hardware_message(L, r.bits, t, r.found)
      released == \/ get_hardware_msg_bit(L[r.found].code) = QS_RAWINPUT /\ remove
                  \/ is_internal_hardware_message(L[r.found].code)
  IN
  /\ IF r.found # 0 /\ released
     THEN /\ list' = rel.list
          /\ wakeBits' = rel.bits
          /\ uidCounter' = IF new THEN uid ELSE uidCounter
     ELSE IF r.found # 0
     THEN /\ list' = L
          /\ wakeBits' = r.bits
          /\ uidCounter' = IF new THEN uid ELSE uidCounter
     ELSE /\ list' = r.list
          /\ wakeBits' = [r.bits EXCEPT ![t] = @ \ r.clear]
          /\ UNCHANGED uidCounter
  /\ UNCHANGED <<cursor, cursorWin, clip, clipFlags, hitWin, focusWin, events>>

\* release_hardware_message, bug variant: the bit is cleared even when other
\* messages of its kind remain
AcceptClearsBit(t, hwId) ==
  LET i == SelectInSeq(list, LAMBDA m : m.uid = hwId)
  IN
  /\ i # 0
  /\ wakeBits' = [wakeBits EXCEPT ![t] = @ \ {get_hardware_msg_bit(list[i].code)}]
  /\ list' = RemoveAt(list, i)
  /\ UNCHANGED <<cursor, cursorWin, clip, clipFlags, hitWin, focusWin, uidCounter, events>>

\* DECL_HANDLER(accept_hardware_message) -> release_hardware_message of the
\* message with this id
AcceptHardwareMessage(t, hwId) ==
  LET i == SelectInSeq(list, LAMBDA m : m.uid = hwId)
      rel == release_hardware_message(list, wakeBits, t, i)
  IN
  /\ i # 0
  /\ wakeBits' = rel.bits
  /\ list' = rel.list
  /\ UNCHANGED <<cursor, cursorWin, clip, clipFlags, hitWin, focusWin, uidCounter, events>>

Claimed == {m.uid : m \in ToSet(list)} \ {0}

Next ==
  \/ \E w \in AnyWin, x \in Positions : SendMouseMove(w, x)
  \/ \E w \in AnyWin : SendMouseButton(w)
  \/ \E w \in AnyWin, d \in Deltas : SendMouseWheel(w, d)
  \/ \E w \in AnyWin : SendKey(w)
  \/ \E f \in SetCursorFlags, x \in Positions, r \in ClipRects : SetCursor(f, x, r)
  \/ \E hw, fw \in AnyWin : WindowTreeChanges(hw, fw)
  \/ \E t \in Threads, id \in {0} \cup Claimed, fw \in FilterWins, r \in MsgRanges,
        rm \in RemoveFlags : GetHardwareMessage(t, id, fw, r, rm)
  \/ \E t \in Threads, id \in Claimed : AcceptHardwareMessage(t, id)

Spec == Init /\ [][Next]_vars

(***************************************************************************)
(* Properties                                                              *)
(***************************************************************************)
TypeOK ==
  /\ list \in Seq([code : Codes, win : AnyWin, x : Positions, delta : MINSHORT..MAXSHORT,
                   uid : 0..UidMax, evs : SUBSET EvIds])
  /\ cursor \in Positions
  /\ cursorWin \in AnyWin
  /\ clip \in (TopRect[1]..TopRect[2]) \X (TopRect[1]..TopRect[2])
  /\ clipFlags \in SUBSET {SET_CURSOR_POS, SET_CURSOR_CLIP, SET_CURSOR_NOCLIP}
  /\ hitWin \in AnyWin /\ focusWin \in AnyWin
  /\ wakeBits \in [Threads -> SUBSET QS_INPUT]
  /\ uidCounter \in 0..UidMax
  /\ events \in Seq([pos : Positions, delta : Int])

\* P1 (spec): once a hardware message has been handed to a consumer (it has a
\* unique id), no later event is merged into it; it changes only by being
\* accepted or dropped (merge_mousemove / merge_mousewheel via
\* find_mouse_message, against the claim in get_hardware_message).
ClaimedNeverMergedInto ==
  [][\A m \in ToSet(list), m2 \in ToSet(list') :
       m.uid # 0 /\ m2.uid = m.uid => m2.evs = m.evs]_vars

\* No lost wakeup: for every message on the input's list, some attached
\* thread has the message's wake bit set, after any mix of queueing, scans
\* that skip, drop or hand over messages, and accepts (queue_hardware_message,
\* get_hardware_message's clear_bits, release_hardware_message).
HardwareInputSignalled ==
  \A m \in ToSet(list) : \E t \in Threads : get_hardware_msg_bit(m.code) \in wakeBits[t]

\* P3 (spec): a queued message carries the position of the latest event
\* merged into it, so a run of merged moves reports where the cursor went
\* last, clamped into the clip rectangle (merge_mousemove, merge_mousewheel,
\* update_desktop_cursor_pos).  Driver notifications and raw input messages
\* (the QS_RAWINPUT kinds) carry the position of their own moment and are
\* left out.
MergedMessageCarriesLatest ==
  \A m \in ToSet(list) :
    get_hardware_msg_bit(m.code) # QS_RAWINPUT => m.x = events[Max(m.evs)].pos

\* The cursor never leaves the clip rectangle: every way the cursor moves
\* (injected moves, SetCursorPos, the warp of set_clip_rectangle when the
\* clip shrinks around it) goes through the clamp of update_desktop_cursor_pos,
\* and a clip change warps the cursor into the new rectangle (an empty
\* rectangle, left = right, holds the cursor at left).
CursorInClip ==
  clip[1] <= cursor /\ cursor <= Max({clip[1], clip[2] - 1})

\* P4 (spec): a wheel message's delta is the exact sum of the deltas of the
\* events merged into it; a sum beyond a short is a new message instead of a
\* wrapped one (merge_mousewheel).
WheelDeltaIsSum ==
  \A m \in ToSet(list) :
    m.code = WM_MOUSEWHEEL => m.delta = MapThenSumSet(LAMBDA e : events[e].delta, m.evs)

================================================================================
