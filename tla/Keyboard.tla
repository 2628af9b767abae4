------------------------------- MODULE Keyboard -------------------------------
(***************************************************************************)
(* Keyboard events and hotkeys in server/queue.c.                          *)
(*                                                                         *)
(* SendKey is queue_keyboard_message for a non-Unicode event: the left or  *)
(* right variant of Alt and Ctrl chosen by the extended flag, the          *)
(* WM_KEY/WM_SYSKEY classification with desktop->last_press_alt, the       *)
(* repeat flag, then queue_hardware_message: update_desktop_key_state,     *)
(* and queue_hotkey_message, which turns a key-down matching a registered  *)
(* hotkey into a WM_HOTKEY posted to the hotkey's queue.  A message that   *)
(* is not diverted is appended to "delivered", the keyboard messages in    *)
(* the order the input router receives them (routing itself is modelled   *)
(* in HardwareInput).  There are no low-level hooks here (LowLevelHooks).  *)
(*                                                                         *)
(* A keystate byte is kept as the set of its three bits the code uses:    *)
(* 0x80 (down), 0x40 (pressed since the last async read, desktop only) and *)
(* 0x01 (toggle).  The handlers here decide on the 0x80 bit alone; the     *)
(* whole byte matters to sync_input_keystate (KeyboardInput).              *)
(* Shift and the Windows keys are left out: Shift is handled exactly as    *)
(* Ctrl, and no handler here treats the Windows keys other than as a       *)
(* modifier.                                                               *)
(***************************************************************************)
EXTENDS Integers, Sequences, FiniteSets

CONSTANTS
  Threads,    \* client threads
  Wins,       \* windows
  Owner,      \* Owner[w]: the thread of window w
  NoWin,      \* the null window handle
  NoQueue,    \* a NULL msg_queue pointer
  Ids,        \* hotkey ids
  InVkeys,    \* virtual keys of the events sent
  HkVkeys,    \* virtual keys of hotkeys registered
  HkMods,     \* modifier sets of hotkeys registered
  MaxEvents   \* bound on the number of key events

VARIABLES
  dks,        \* dks[k]: the bits of desktop->shared->keystate[k]
  lastPressAlt, \* desktop->last_press_alt
  hotkeys,    \* desktop->hotkeys, as a set of records
  queue,      \* queue[t]: "none", "live" or "gone" (thread->queue)
  hotkeyPosted, \* hotkeyPosted[t]: the WM_HOTKEY messages posted to t's queue
  delivered,  \* the keyboard messages passed on to the input router
  altUnbroken, \* ghost: no key but Alt has had an event since an Alt SYSKEYDOWN
  nevents     \* the number of key events sent

vars == <<dks, lastPressAlt, hotkeys, queue, hotkeyPosted, delivered, altUnbroken,
          nevents>>

VK_CONTROL == 17
VK_MENU == 18
VK_A == 65
VK_F10 == 121
VK_LCONTROL == 162
VK_RCONTROL == 163
VK_LMENU == 164
VK_RMENU == 165
WM_KEYDOWN == 256
WM_KEYUP == 257
WM_SYSKEYDOWN == 260
WM_SYSKEYUP == 261
MOD_ALT == "MOD_ALT"
MOD_CONTROL == "MOD_CONTROL"

Keys == {VK_MENU, VK_LMENU, VK_RMENU, VK_CONTROL, VK_LCONTROL, VK_RCONTROL, VK_F10, VK_A}
AltKeys == {VK_LMENU, VK_RMENU}
CtrlKeys == {VK_LCONTROL, VK_RCONTROL}
WinOrNull == Wins \cup {NoWin}

DOWN == 128     \* 0x80
ASYNC == 64     \* 0x40
TOGGLE == 1     \* 0x01
Byte == SUBSET {DOWN, ASYNC, TOGGLE}

\* the 0x80 bit of every key of keystate ks
DownMap(ks) == [k \in Keys |-> DOWN \in ks[k]]
QueueOf(t) == IF queue[t] = "live" THEN t ELSE NoQueue

(***************************************************************************)
(* queue_keyboard_message: the key after left/right normalisation.         *)
(***************************************************************************)
NormalVkey(vk, ext) ==
  CASE vk \in {VK_MENU} \cup AltKeys -> IF ext THEN VK_RMENU ELSE VK_LMENU
    [] vk \in {VK_CONTROL} \cup CtrlKeys -> IF ext THEN VK_RCONTROL ELSE VK_LCONTROL
    [] OTHER -> vk

\* The message code and the new last_press_alt for key vk going up or down,
\* from the desktop keystate before the event.
Classify(vk, up, ks, lpa) ==
  LET plain == IF up THEN WM_KEYUP ELSE WM_KEYDOWN
      sys == IF up THEN WM_SYSKEYUP ELSE WM_SYSKEYDOWN
      R(c, l) == [code |-> c, lpa |-> l]
  IN CASE vk \in AltKeys /\ up ->
            IF ~ks[VK_MENU] \/ ~lpa THEN R(plain, lpa) ELSE R(WM_SYSKEYUP, FALSE)
       [] vk \in AltKeys ->
            IF ks[VK_CONTROL] THEN R(plain, lpa) ELSE R(WM_SYSKEYDOWN, TRUE)
       [] vk \in CtrlKeys ->
            IF ~up \/ ~ks[VK_MENU] THEN R(plain, lpa) ELSE R(WM_SYSKEYUP, FALSE)
       [] vk = VK_F10 -> R(sys, FALSE)
       [] OTHER ->
            IF ks[VK_CONTROL] \/ ~ks[VK_MENU] THEN R(plain, lpa) ELSE R(sys, FALSE)

(***************************************************************************)
(* update_key_state: the key, then the generic Ctrl or Alt key from the   *)
(* 0x80 bits of both of its sides.  The desktop's presses set 0x40 too.    *)
(***************************************************************************)
IsDown(code) == code \in {WM_KEYDOWN, WM_SYSKEYDOWN}

\* set_input_key_state: a press of a key that is up flips its toggle bit
set_input_key_state(b, down) ==
  IF down = {} THEN b \ {DOWN}
  ELSE (IF DOWN \in b THEN b ELSE (b \ {TOGGLE}) \cup ({TOGGLE} \ b)) \cup down

update_key_state(ks, code, key, desktop) ==
  LET down == IF ~IsDown(code) THEN {} ELSE IF desktop THEN {DOWN, ASYNC} ELSE {DOWN}
      k1 == [ks EXCEPT ![key] = set_input_key_state(@, down)]
      Generic(g, l, r) == [k1 EXCEPT ![g] = set_input_key_state(@, {DOWN} \cap (k1[l] \cup k1[r]))]
  IN CASE key \in CtrlKeys -> Generic(VK_CONTROL, VK_LCONTROL, VK_RCONTROL)
       [] key \in AltKeys -> Generic(VK_MENU, VK_LMENU, VK_RMENU)
       [] OTHER -> k1

\* the modifiers queue_hotkey_message reads from the desktop keystate
Modifiers(ks) == {m \in {MOD_ALT} : ks[VK_MENU]} \cup {m \in {MOD_CONTROL} : ks[VK_CONTROL]}

\* the hotkey a key-down of vk with modifiers mods is diverted to
Matching(code, vk, mods) ==
  {h \in hotkeys : IsDown(code) /\ h.vkey = vk /\ h.flags = mods}

(***************************************************************************)
(* Handlers.                                                               *)
(***************************************************************************)
\* the message queue_keyboard_message builds: KF_REPEAT for a release or a
\* key already down; queue_hardware_message adds KF_ALTDOWN from the
\* desktop keystate it has just updated (ks)
KeyMessage(code, key, up, ks) ==
  [code |-> code, vkey |-> key, repeat |-> up \/ DOWN \in dks[key],
   altdown |-> DOWN \in ks[VK_MENU]]

\* queue_keyboard_message and queue_hardware_message for one key event.  A
\* hotkey whose queue is NULL makes queue_hotkey_message dereference NULL:
\* the server stops, and the model has no successor state.
SendKey(vk, ext, up) ==
  LET key == NormalVkey(vk, ext)
      c == Classify(key, up, DownMap(dks), lastPressAlt)
      ks == update_key_state(dks, c.code, key, TRUE)
      M == Matching(c.code, key, Modifiers(DownMap(ks)))
  IN /\ nevents < MaxEvents
     /\ nevents' = nevents + 1
     /\ dks' = ks
     /\ lastPressAlt' = c.lpa
     /\ altUnbroken' = IF key \in AltKeys THEN altUnbroken \/ c.code = WM_SYSKEYDOWN ELSE FALSE
     /\ \/ /\ M = {}
           /\ delivered' = Append(delivered, KeyMessage(c.code, key, up, ks))
           /\ UNCHANGED hotkeyPosted
        \/ \E h \in M :
             /\ h.queue \in Threads
             /\ hotkeyPosted' = [hotkeyPosted EXCEPT ![h.queue] = @ + 1]
             /\ UNCHANGED delivered
     /\ UNCHANGED <<hotkeys, queue>>

\* the window a thread may name: none, or one of its own (a thread that
\* has created a window has a queue)
OwnWindow(c, w) == w \in {NoWin} \cup {x \in Wins : Owner[x] = c /\ queue[c] = "live"}

\* register_hotkey, bug variant: a key and modifiers already taken by another
\* hotkey are accepted
RegisterHotkeyNoConflictCheck(c, w, id, vk, mods) ==
  LET same == {h \in hotkeys : h.queue = QueueOf(c) /\ h.win = w /\ h.id = id}
  IN /\ queue[c] # "gone" /\ OwnWindow(c, w)
     /\ hotkeys' = IF same = {}
                   THEN hotkeys \cup {[queue |-> QueueOf(c), win |-> w, id |-> id, vkey |-> vk, flags |-> mods]}
                   ELSE LET h == CHOOSE x \in same : TRUE
                        IN (hotkeys \ {h}) \cup {[h EXCEPT !.vkey = vk, !.flags = mods]}
     /\ UNCHANGED <<dks, lastPressAlt, queue, hotkeyPosted, delivered, altUnbroken, nevents>>

\* DECL_HANDLER(register_hotkey): refused when the key and modifiers are
\* taken; otherwise the thread's hotkey with the same window and id is
\* changed, or a new one is added
RegisterHotkey(c, w, id, vk, mods) ==
  LET same == {h \in hotkeys : h.queue = QueueOf(c) /\ h.win = w /\ h.id = id}
  IN /\ queue[c] # "gone" /\ OwnWindow(c, w)
     /\ ~\E h \in hotkeys : h.vkey = vk /\ h.flags = mods
     /\ hotkeys' = IF same = {}
                   THEN hotkeys \cup {[queue |-> QueueOf(c), win |-> w, id |-> id, vkey |-> vk, flags |-> mods]}
                   ELSE LET h == CHOOSE x \in same : TRUE
                        IN (hotkeys \ {h}) \cup {[h EXCEPT !.vkey = vk, !.flags = mods]}
     /\ UNCHANGED <<dks, lastPressAlt, queue, hotkeyPosted, delivered, altUnbroken, nevents>>

\* DECL_HANDLER(unregister_hotkey)
UnregisterHotkey(c, w, id) ==
  /\ queue[c] # "gone" /\ OwnWindow(c, w)
  /\ \E h \in hotkeys :
       /\ h.queue = QueueOf(c) /\ h.win = w /\ h.id = id
       /\ hotkeys' = hotkeys \ {h}
  /\ UNCHANGED <<dks, lastPressAlt, queue, hotkeyPosted, delivered, altUnbroken, nevents>>

\* init_thread_queue or get_current_queue
InitThreadQueue(c) ==
  /\ queue[c] = "none"
  /\ queue' = [queue EXCEPT ![c] = "live"]
  /\ UNCHANGED <<dks, lastPressAlt, hotkeys, hotkeyPosted, delivered, altUnbroken, nevents>>

\* thread exit, bug variant: the queue's hotkeys are kept
ThreadExitKeepHotkeys(t) ==
  /\ queue[t] # "gone"
  /\ queue' = [queue EXCEPT ![t] = "gone"]
  /\ hotkeyPosted' = [hotkeyPosted EXCEPT ![t] = 0]
  /\ UNCHANGED <<dks, lastPressAlt, hotkeys, delivered, altUnbroken, nevents>>

\* thread exit, bug variant: the posted list is not emptied
ThreadExitKeepMessages(t) ==
  /\ queue[t] # "gone"
  /\ queue' = [queue EXCEPT ![t] = "gone"]
  /\ hotkeys' = IF queue[t] = "live" THEN {h \in hotkeys : h.queue # t} ELSE hotkeys
  /\ UNCHANGED <<dks, lastPressAlt, hotkeyPosted, delivered, altUnbroken, nevents>>

\* thread exit: free_msg_queue, whose cleanup_msg_queue frees the queue's
\* hotkeys and its messages
ThreadExit(t) ==
  /\ queue[t] # "gone"
  /\ queue' = [queue EXCEPT ![t] = "gone"]
  /\ hotkeys' = IF queue[t] = "live" THEN {h \in hotkeys : h.queue # t} ELSE hotkeys
  /\ hotkeyPosted' = [hotkeyPosted EXCEPT ![t] = 0]
  /\ UNCHANGED <<dks, lastPressAlt, delivered, altUnbroken, nevents>>

Init ==
  /\ dks = [k \in Keys |-> {}]
  /\ lastPressAlt = FALSE
  /\ hotkeys = {}
  /\ queue = [t \in Threads |-> "none"]
  /\ hotkeyPosted = [t \in Threads |-> 0]
  /\ delivered = <<>>
  /\ altUnbroken = FALSE
  /\ nevents = 0

Next ==
  \/ \E vk \in InVkeys, ext, up \in BOOLEAN : SendKey(vk, ext, up)
  \/ \E c \in Threads, w \in WinOrNull, id \in Ids :
       \/ \E vk \in HkVkeys, mods \in HkMods : RegisterHotkey(c, w, id, vk, mods)
       \/ UnregisterHotkey(c, w, id)
  \/ \E t \in Threads : InitThreadQueue(t) \/ ThreadExit(t)

Spec == Init /\ [][Next]_vars

(***************************************************************************)
(* Properties.                                                             *)
(***************************************************************************)
Hotkey == [queue : Threads \cup {NoQueue}, win : WinOrNull, id : Ids,
           vkey : HkVkeys, flags : HkMods]
Message == [code : {WM_KEYDOWN, WM_KEYUP, WM_SYSKEYDOWN, WM_SYSKEYUP},
            vkey : Keys, repeat : BOOLEAN, altdown : BOOLEAN]

TypeOK ==
  /\ dks \in [Keys -> Byte] /\ lastPressAlt \in BOOLEAN
  /\ hotkeys \subseteq Hotkey
  /\ queue \in [Threads -> {"none", "live", "gone"}]
  /\ hotkeyPosted \in [Threads -> 0..MaxEvents]
  /\ \A t \in Threads : queue[t] # "live" => hotkeyPosted[t] = 0
  /\ delivered \in Seq(Message) /\ altUnbroken \in BOOLEAN
  /\ nevents \in 0..MaxEvents

\* No two registered hotkeys have the same key and modifiers, so a key-down
\* goes to one hotkey only; and no two have the same queue, window and id,
\* so unregister_hotkey and the replacement in register_hotkey find one.
HotkeysUnique ==
  \A h1, h2 \in hotkeys : h1 # h2 =>
    /\ <<h1.vkey, h1.flags>> # <<h2.vkey, h2.flags>>
    /\ <<h1.queue, h1.win, h1.id>> # <<h2.queue, h2.win, h2.id>>

\* A hotkey never names a queue that has been freed: cleanup_msg_queue
\* removes the queue's hotkeys at thread exit.
NoHotkeyOfFreedQueue == \A h \in hotkeys : h.queue = NoQueue \/ queue[h.queue] = "live"

\* An Alt release is reported as WM_SYSKEYUP only when no other key has had
\* an event since the Alt press that was reported as WM_SYSKEYDOWN (spec
\* 4.4: "only if a matching SYSKEYDOWN state flag was set and no intervening
\* key broke the sequence").
AltUpSysOnlyUnbroken ==
  [][ Len(delivered') > Len(delivered)
      /\ delivered'[Len(delivered')].vkey \in AltKeys
      /\ delivered'[Len(delivered')].code = WM_SYSKEYUP
      => altUnbroken ]_vars
================================================================================
