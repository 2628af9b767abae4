------------------------------ MODULE MCQueueBits ------------------------------
(***************************************************************************)
(* One window and thread messages.  Producers post WM_USER, WM_QUIT and    *)
(* WM_HOTKEY messages.  The owner gets with every filter kind, with window *)
(* filters any/thread-only/w1, and with ranges full, WM_USER only and      *)
(* WM_HOTKEY only.  It waits on wake masks and on changed masks.           *)
(***************************************************************************)
EXTENDS QueueBits

CONSTANTS w1

WM_USER == 1024
MCWins == {w1}
MCPostCodes == {WM_USER, WM_QUIT, WM_HOTKEY}
MCGetWins == {NoWin, ThreadOnly, w1}
MCRanges == {<<0, LastMsg>>, <<WM_USER, WM_USER>>, <<WM_HOTKEY, WM_HOTKEY>>}
MCFilters == {{}, {QS_HOTKEY}, {QS_PAINT}}
\* a GetMessage-style wait on new input of every kind, and MsgWait-style
\* waits on present posted and hotkey input
MCWaitMasks == {<<{QS_SENDMESSAGE}, Bits>>,
                <<{QS_POSTMESSAGE}, {}>>, <<{QS_HOTKEY}, {}>>}
MCClearMasks == {Bits, {QS_POSTMESSAGE}}
================================================================================
