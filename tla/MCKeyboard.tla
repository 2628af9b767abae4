----------------------------- MODULE MCKeyboard -----------------------------
(***************************************************************************)
(* Two threads and a window of t1.  Events use the generic Alt and Ctrl    *)
(* keys (the extended flag picks the side), F10 and A.  The key runs send  *)
(* more events and register no hotkey; the hotkey runs register hotkeys on *)
(* A with no modifier or Alt, and send fewer events.  The focus thread    *)
(* sets and reads the keystate of A and Alt.                              *)
(***************************************************************************)
EXTENDS KeyboardInput

CONSTANTS t1, t2, wa, id1, id2

MCThreads == {t1, t2}
MCWins == {wa}
MCOwner == [w \in MCWins |-> t1]
MCIds == {id1}
MCKeyVkeys == {VK_MENU, VK_CONTROL, VK_F10, VK_A}
MCHotkeyInVkeys == {VK_MENU, VK_A}
MCAllInVkeys == {VK_MENU, VK_CONTROL, VK_A}
MCHkVkeys == {VK_A}
MCHkMods == {{}, {MOD_ALT}}
NoHotkeys == {}
\* SetKeyboardState with nothing down, with A down, or with left Alt down
MCSetStates == {{}, {VK_LMENU, VK_MENU}}
MCGetKeys == {VK_A, VK_MENU}
================================================================================
