----------------------------- MODULE ThreadInput -----------------------------
(***************************************************************************)
(* The thread inputs of server/queue.c: which input each queue uses,       *)
(* attach_thread_input and detach_thread_input, the keystate lock that     *)
(* set_queue_bits and clear_queue_bits take for key and mouse-button       *)
(* input, the cursor show counts, focus and active windows, the desktop's  *)
(* foreground input, window destruction and queue destruction.             *)
(*                                                                         *)
(* create_thread_input does not allocate the input's shared block: it      *)
(* points the input at its thread's mapping (thread->input_shared) and     *)
(* resets it.  So the shared fields (focus, active, cursor_count,          *)
(* keystate_lock) are kept per thread mapping, and an input reads them     *)
(* through shm[i], the thread whose mapping it took.                       *)
(*                                                                         *)
(* Every handler runs atomically.  A handler is written as a function from *)
(* a state record to a state record, composed in the order the code calls  *)
(* its helpers; Apply makes the result the next state.                     *)
(*                                                                         *)
(* Capture, menu owner and caret windows are shared fields too.           *)
(*                                                                         *)
(* Abstracted: the keystate bytes (the lock only decides whether they are  *)
(* synchronised, and no property reads them), the move-size window (set    *)
(* and cleared with capture, read only by get_thread_input), the caret     *)
(* rectangle, hide count and blink state (set_caret_info changes only      *)
(* those), the cursor position sync when capture is released, the cursor   *)
(* handle and clip rectangle, the desktop check of attach (one desktop).   *)
(***************************************************************************)
EXTENDS Integers, FiniteSets, Functions, FiniteSetsExt

CONSTANTS
  Threads,     \* client threads
  Inputs,      \* thread_input objects the server may allocate
  Wins,        \* windows
  Owner,       \* Owner[w]: the thread that created window w
  NoWin,       \* the null window handle
  NoInput,     \* a NULL thread_input pointer
  ShowCounts,  \* show_count values of set_cursor requests
  MaxShow,     \* bound on |queue->cursor_count|
  CaptureFlags,\* flag sets of set_capture_window requests (CAPTURE_MENU or none)
  RequestWins  \* windows (or NoWin) set_capture_window and set_caret_window name

VARIABLES
  queue,       \* queue[t]: "none" (never had one), "live", or "gone" (freed at exit)
  qinput,      \* qinput[t]: queue->input
  qlock,       \* qlock[t]: queue->keystate_lock, which is set exactly while
               \* QS_KEY or QS_MOUSEBUTTON is in queue->wake_bits
  qcursor,     \* qcursor[t]: queue->cursor_count
  inputs,      \* the allocated thread_input objects
  shm,         \* shm[i]: the thread whose input_shared mapping input i uses
  focus,       \* focus[m]: shared->focus in the mapping of thread m
  active,      \* active[m]: shared->active
  scursor,     \* scursor[m]: shared->cursor_count
  slock,       \* slock[m]: shared->keystate_lock
  capture,     \* capture[m]: shared->capture
  menuOwner,   \* menuOwner[m]: shared->menu_owner
  caret,       \* caret[m]: shared->caret
  foreground,  \* desktop->foreground_input
  win,         \* win[w]: "none", "alive" or "gone"
  aliased      \* ghost: create_thread_input has reset a mapping a live input used

vars == <<queue, qinput, qlock, qcursor, inputs, shm, focus, active,
          scursor, slock, capture, menuOwner, caret, foreground, win, aliased>>

WinOrNull == Wins \cup {NoWin}

(***************************************************************************)
(* The state as a record, and making a record the next state.              *)
(***************************************************************************)
St == [queue |-> queue, qinput |-> qinput, qlock |-> qlock,
       qcursor |-> qcursor, inputs |-> inputs, shm |-> shm, focus |-> focus,
       active |-> active, scursor |-> scursor, slock |-> slock,
       capture |-> capture, menuOwner |-> menuOwner, caret |-> caret,
       foreground |-> foreground, aliased |-> aliased]

Apply(S) ==
  /\ queue' = S.queue /\ qinput' = S.qinput /\ qlock' = S.qlock
  /\ qcursor' = S.qcursor /\ inputs' = S.inputs
  /\ shm' = S.shm /\ focus' = S.focus /\ active' = S.active
  /\ scursor' = S.scursor /\ slock' = S.slock /\ foreground' = S.foreground
  /\ capture' = S.capture /\ menuOwner' = S.menuOwner /\ caret' = S.caret
  /\ aliased' = S.aliased

\* the queues holding a reference to input i
Refs(S, i) == {t \in Threads : S.queue[t] = "live" /\ S.qinput[t] = i}

\* get_window_thread(w) = t: the window exists and t created it
IsWindowThread(w, t) == w # NoWin /\ win[w] = "alive" /\ Owner[w] = t

(***************************************************************************)
(* Object lifetime.                                                        *)
(***************************************************************************)
\* thread_input_destroy, bug variant: the foreground pointer is left dangling
thread_input_destroy_keep_foreground(S, i) ==
  [S EXCEPT !.inputs = @ \ {i}, !.shm[i] = CHOOSE t \in Threads : TRUE]

\* thread_input_destroy: the desktop forgets a destroyed foreground input
thread_input_destroy(S, i) ==
  [S EXCEPT !.inputs = @ \ {i}, !.shm[i] = CHOOSE t \in Threads : TRUE,
            !.foreground = IF @ = i THEN NoInput ELSE @]

\* release_object, bug variant: the input is destroyed on any release
release_input_unconditionally(S, i) ==
  IF i \in S.inputs THEN thread_input_destroy(S, i) ELSE S

\* release_object(input): destroyed when no queue refers to it any more
release_input(S, i) ==
  IF i \in S.inputs /\ Refs(S, i) = {} THEN thread_input_destroy(S, i) ELSE S

\* the object alloc_object returns
NewInput(S) == CHOOSE i \in Inputs \ S.inputs : TRUE

\* create_thread_input: the new input takes thread t's mapping and resets it
\* (set_caret_window(input, shared, 0) clears the caret)
create_thread_input(S, t, i) ==
  [S EXCEPT !.inputs = @ \cup {i}, !.shm[i] = t,
            !.focus[t] = NoWin, !.active[t] = NoWin,
            !.capture[t] = NoWin, !.menuOwner[t] = NoWin, !.caret[t] = NoWin,
            !.scursor[t] = 0, !.slock[t] = 0,
            !.aliased = @ \/ \E j \in S.inputs : S.shm[j] = t]

\* create_msg_queue(thread, input) with a given input
queue_with_input(S, t, i) ==
  [S EXCEPT !.queue[t] = "live", !.qinput[t] = i, !.qlock[t] = FALSE,
            !.qcursor[t] = 0]

\* create_msg_queue(thread, NULL): a new input of its own
create_msg_queue(S, t) ==
  LET i == NewInput(S) IN queue_with_input(create_thread_input(S, t, i), t, i)

\* get_current_queue and init_thread_queue
EnsureQueue(S, t) == IF S.queue[t] = "live" THEN S ELSE create_msg_queue(S, t)

lock_input_keystate(S, i) == [S EXCEPT !.slock[S.shm[i]] = @ + 1]
\* the re-synchronisation when the count drops to 0 changes only keystate bytes
unlock_input_keystate(S, i) == [S EXCEPT !.slock[S.shm[i]] = @ - 1]

\* assign_thread_input, bug variant: the lock is not taken off the old input
assign_thread_input_keep_lock(S, t, i) ==
  IF S.queue[t] # "live" THEN queue_with_input(S, t, i)
  ELSE LET old == S.qinput[t]
           S1 == [S EXCEPT !.scursor[S.shm[old]] = @ - S.qcursor[t]]
           S3 == release_input([S1 EXCEPT !.qinput[t] = i], old)
           S4 == IF S.qlock[t] THEN lock_input_keystate(S3, i) ELSE S3
       IN [S4 EXCEPT !.scursor[S4.shm[i]] = @ + S.qcursor[t]]

\* assign_thread_input
assign_thread_input(S, t, i) ==
  IF S.queue[t] # "live" THEN queue_with_input(S, t, i)
  ELSE LET old == S.qinput[t]
           S1 == [S EXCEPT !.scursor[S.shm[old]] = @ - S.qcursor[t]]
           S2 == IF S.qlock[t] THEN unlock_input_keystate(S1, old) ELSE S1
           S3 == release_input([S2 EXCEPT !.qinput[t] = i], old)
           S4 == IF S.qlock[t] THEN lock_input_keystate(S3, i) ELSE S3
       IN [S4 EXCEPT !.scursor[S4.shm[i]] = @ + S.qcursor[t]]

\* cleanup_msg_queue and free_msg_queue (the input part)
free_msg_queue(S, t) ==
  LET in == S.qinput[t]
      S1 == [S EXCEPT !.scursor[S.shm[in]] = @ - S.qcursor[t]]
      S2 == IF S.qlock[t] THEN unlock_input_keystate(S1, in) ELSE S1
  IN release_input([S2 EXCEPT !.queue[t] = "gone", !.qinput[t] = NoInput,
                              !.qlock[t] = FALSE,
                              !.qcursor[t] = 0], in)

\* attach_thread_input: a target without focus or active window takes the
\* ones of the input thread_from leaves
attach_thread_input(S, from, to) ==
  LET S1 == IF S.queue[to] = "live" THEN S ELSE create_msg_queue(S, to)
      i == S1.qinput[to]
      m == S1.shm[i]
      S2 == IF S1.queue[from] # "live" THEN S1
            ELSE LET o == S1.shm[S1.qinput[from]]
                     Sf == [S1 EXCEPT !.focus[m] = IF @ = NoWin THEN S1.focus[o] ELSE @]
                 IN [Sf EXCEPT !.active[m] = IF @ = NoWin THEN Sf.active[o] ELSE @]
  IN assign_thread_input(S2, from, i)

\* detach_thread_input: a new input, which takes the focus and active windows
\* of the old input that belong to thread_from; both are read after the new
\* input has reset its mapping
detach_thread_input(S, from) ==
  LET old == S.qinput[from]
      i == NewInput(S)
      S1 == create_thread_input(S, from, i)
      o == S1.shm[old]
      f == S1.focus[o]
      S2 == IF IsWindowThread(f, from)
            THEN [[S1 EXCEPT !.focus[from] = f] EXCEPT !.focus[o] = NoWin] ELSE S1
      a == S2.active[o]
      S3 == IF IsWindowThread(a, from)
            THEN [[S2 EXCEPT !.active[from] = a] EXCEPT !.active[o] = NoWin] ELSE S2
  IN assign_thread_input(S3, from, i)

\* check_queue_input_window
check_queue_input_window(S, t, w) ==
  \/ w = NoWin
  \/ /\ w \in Wins /\ win[w] = "alive"
     /\ S.qinput[Owner[w]] = S.qinput[t]

(***************************************************************************)
(* Handlers.  c is the thread making the request (current).                *)
(***************************************************************************)
Alive(c) == queue[c] # "gone"

\* init_thread_queue
InitThreadQueue(c) ==
  /\ Alive(c) /\ queue[c] = "none"
  /\ Apply(create_msg_queue(St, c))
  /\ UNCHANGED win

\* DECL_HANDLER(attach_thread_input) with attach set
AttachThreadInput(c, from, to) ==
  /\ Alive(c) /\ from # to
  /\ queue[to] = "live" \/ to = c
  /\ queue[from] = "live" \/ from = c
  /\ Apply(attach_thread_input(St, from, to))
  /\ UNCHANGED win

\* DECL_HANDLER(attach_thread_input) with attach clear
DetachThreadInput(c, from, to) ==
  /\ Alive(c) /\ from # to
  /\ queue[from] = "live" /\ queue[to] = "live"
  /\ qinput[from] = qinput[to]
  /\ Apply(detach_thread_input(St, from))
  /\ UNCHANGED win

\* set_queue_bits with QS_KEY: queue_hardware_message queued a key message
\* for t's window
SetKeyBits(t) ==
  /\ queue[t] = "live"
  /\ LET S == IF qlock[t] THEN St ELSE lock_input_keystate(St, qinput[t])
     IN Apply([S EXCEPT !.qlock[t] = TRUE])
  /\ UNCHANGED win

\* clear_queue_bits with QS_KEY | QS_MOUSEBUTTON: the last key and button
\* messages have been taken
ClearKeyBits(t) ==
  /\ queue[t] = "live"
  /\ LET S == IF qlock[t] THEN unlock_input_keystate(St, qinput[t]) ELSE St
     IN Apply([S EXCEPT !.qlock[t] = FALSE])
  /\ UNCHANGED win

\* DECL_HANDLER(set_focus_window)
SetFocusWindow(c, w) ==
  /\ Alive(c)
  /\ \E S \in {EnsureQueue(St, c)} :
        Apply(IF check_queue_input_window(S, c, w)
              THEN [S EXCEPT !.focus[S.shm[S.qinput[c]]] = w] ELSE S)
  /\ UNCHANGED win

\* DECL_HANDLER(set_active_window); make_window_active (window.c) may fail
SetActiveWindow(c, w) ==
  /\ Alive(c)
  /\ \E made \in IF w = NoWin THEN {TRUE} ELSE BOOLEAN :
     \E S \in {EnsureQueue(St, c)} :
          Apply(IF check_queue_input_window(S, c, w) /\ made
                THEN [S EXCEPT !.active[S.shm[S.qinput[c]]] = w] ELSE S)
  /\ UNCHANGED win

CAPTURE_MENU == "CAPTURE_MENU"

\* DECL_HANDLER(set_capture_window): in menu mode only a CAPTURE_MENU
\* request may change capture (STATUS_ACCESS_DENIED); the menu owner is
\* the new capture window for a CAPTURE_MENU request and cleared otherwise
SetCaptureWindow(c, w, flags) ==
  /\ Alive(c)
  /\ \E S \in {EnsureQueue(St, c)} :
     LET m == S.shm[S.qinput[c]]
     IN Apply(IF check_queue_input_window(S, c, w)
                 /\ (S.menuOwner[m] = NoWin \/ CAPTURE_MENU \in flags)
              THEN [S EXCEPT !.capture[m] = w,
                             !.menuOwner[m] = IF CAPTURE_MENU \in flags THEN w ELSE NoWin]
              ELSE S)
  /\ UNCHANGED win

\* set_caret_window: the caret window of mapping m (rectangle, hide count
\* and blink state abstracted)
set_caret_window(S, m, w) == [S EXCEPT !.caret[m] = w]

\* DECL_HANDLER(set_caret_window): set_caret_window on the caller's input
SetCaretWindow(c, w) ==
  /\ Alive(c)
  /\ \E S \in {EnsureQueue(St, c)} :
        Apply(IF check_queue_input_window(S, c, w)
              THEN set_caret_window(S, S.shm[S.qinput[c]], w) ELSE S)
  /\ UNCHANGED win

\* DECL_HANDLER(set_cursor) with SET_CURSOR_COUNT
SetCursor(c, n) ==
  /\ Alive(c)
  /\ \E S \in {EnsureQueue(St, c)} :
        /\ S.qcursor[c] + n \in -MaxShow..MaxShow
        /\ Apply([S EXCEPT !.qcursor[c] = @ + n,
                           !.scursor[S.shm[S.qinput[c]]] = @ + n])
  /\ UNCHANGED win

\* DECL_HANDLER(set_foreground_window); is_valid_foreground_window
\* (window.c) is taken to hold for every live window
SetForegroundWindow(c, w) ==
  /\ Alive(c)
  /\ \E S \in {EnsureQueue(St, c)} :
        Apply(IF w \in Wins /\ win[w] = "alive"
              THEN [S EXCEPT !.foreground = S.qinput[Owner[w]]] ELSE S)
  /\ UNCHANGED win

\* a thread with a queue creates a window (window.c)
CreateWindow(w) ==
  /\ win[w] = "none" /\ queue[Owner[w]] = "live"
  /\ win' = [win EXCEPT ![w] = "alive"]
  /\ UNCHANGED <<queue, qinput, qlock, qcursor, inputs, shm, focus,
                 active, scursor, slock, capture, menuOwner, caret, foreground, aliased>>

\* destroy_window (window.c) calls queue_cleanup_window on the owner, which
\* ends with thread_input_cleanup_window on the owner's input
DestroyWindow(w) ==
  /\ win[w] = "alive"
  /\ win' = [win EXCEPT ![w] = "gone"]
  /\ LET m == shm[qinput[Owner[w]]]
         clear(f) == [f EXCEPT ![m] = IF @ = w THEN NoWin ELSE @]
     IN /\ focus' = clear(focus) /\ active' = clear(active)
        /\ capture' = clear(capture) /\ menuOwner' = clear(menuOwner)
        /\ caret' = clear(caret)
  /\ UNCHANGED <<queue, qinput, qlock, qcursor, inputs, shm,
                 scursor, slock, foreground, aliased>>

\* thread exit: its windows are destroyed, then free_msg_queue
FreeMsgQueue(t) ==
  /\ queue[t] = "live"
  /\ \A w \in Wins : Owner[w] = t => win[w] # "alive"
  /\ Apply(free_msg_queue(St, t))
  /\ UNCHANGED win

Init ==
  /\ queue = [t \in Threads |-> "none"]
  /\ qinput = [t \in Threads |-> NoInput]
  /\ qlock = [t \in Threads |-> FALSE]
  /\ qcursor = [t \in Threads |-> 0]
  /\ inputs = {}
  /\ shm = [i \in Inputs |-> CHOOSE t \in Threads : TRUE]
  /\ focus = [t \in Threads |-> NoWin]
  /\ active = [t \in Threads |-> NoWin]
  /\ scursor = [t \in Threads |-> 0]
  /\ slock = [t \in Threads |-> 0]
  /\ capture = [t \in Threads |-> NoWin]
  /\ menuOwner = [t \in Threads |-> NoWin]
  /\ caret = [t \in Threads |-> NoWin]
  /\ foreground = NoInput
  /\ win = [w \in Wins |-> "none"]
  /\ aliased = FALSE

Next ==
  \/ \E c \in Threads :
       \/ InitThreadQueue(c)
       \/ \E from, to \in Threads : AttachThreadInput(c, from, to) \/ DetachThreadInput(c, from, to)
       \/ \E w \in WinOrNull : SetFocusWindow(c, w) \/ SetActiveWindow(c, w) \/ SetForegroundWindow(c, w)
       \/ \E n \in ShowCounts : SetCursor(c, n)
       \/ \E w \in RequestWins : SetCaretWindow(c, w)
       \/ \E w \in RequestWins, flags \in CaptureFlags : SetCaptureWindow(c, w, flags)
  \/ \E t \in Threads : SetKeyBits(t) \/ ClearKeyBits(t) \/ FreeMsgQueue(t)
  \/ \E w \in Wins : CreateWindow(w) \/ DestroyWindow(w)

Spec == Init /\ [][Next]_vars

(***************************************************************************)
(* Properties.                                                             *)
(***************************************************************************)
TypeOK ==
  /\ queue \in [Threads -> {"none", "live", "gone"}]
  /\ qinput \in [Threads -> Inputs \cup {NoInput}]
  /\ \A t \in Threads : queue[t] = "live" <=> qinput[t] \in inputs
  /\ qlock \in [Threads -> BOOLEAN]
  /\ qcursor \in [Threads -> -MaxShow..MaxShow]
  /\ inputs \subseteq Inputs /\ shm \in [Inputs -> Threads]
  /\ focus \in [Threads -> WinOrNull] /\ active \in [Threads -> WinOrNull]
  /\ capture \in [Threads -> WinOrNull] /\ menuOwner \in [Threads -> WinOrNull]
  /\ caret \in [Threads -> WinOrNull]
  /\ scursor \in [Threads -> Int] /\ slock \in [Threads -> Int]
  /\ foreground \in Inputs \cup {NoInput}
  /\ win \in [Wins -> {"none", "alive", "gone"}]
  /\ aliased \in BOOLEAN
\* The desktop's foreground input is a pointer without a reference: it
\* never names a destroyed input, through every path that releases the last
\* reference (assign_thread_input in attach and detach, free_msg_queue), as
\* thread_input_destroy clears it.
ForegroundIsLive == foreground \in inputs \cup {NoInput}

\* The number of queues on input i that hold the keystate lock
LockersOf(i) == Quantify(Refs(St, i), LAMBDA t : qlock[t])

\* The keystate lock count of every input is the number of its queues
\* holding the lock (lock_input_keystate, unlock_input_keystate, as
\* set_queue_bits, clear_queue_bits, assign_thread_input and
\* cleanup_msg_queue use them).
KeystateLockCounted == \A i \in inputs : slock[shm[i]] = LockersOf(i)

\* As long as no input has been created over a mapping a live input uses,
\* the keystate lock count and the cursor show count of every input are
\* exactly those of its queues, across attach, detach and queue exit.
SharedCountsExact ==
  ~aliased =>
    \A i \in inputs :
      /\ slock[shm[i]] = LockersOf(i)
      /\ scursor[shm[i]] = SumFunctionOnSet(qcursor, Refs(St, i))

\* Every window handle an input holds (focus, active, capture, menu owner,
\* caret) is a window that exists: destroy_window's
\* thread_input_cleanup_window clears it from the input of the window's
\* thread, and set_focus_window, set_active_window, set_capture_window and
\* set_caret_window only accept windows of the caller's input.
InputWindowsLive ==
  \A i \in inputs :
    \A h \in {focus, active, capture, menuOwner, caret} :
      h[shm[i]] = NoWin \/ win[h[shm[i]]] = "alive"
================================================================================
