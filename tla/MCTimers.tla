------------------------------ MODULE MCTimers ------------------------------
EXTENDS Timers

CONSTANTS w1

WM_TIMER == 275      \* 0x0113
WM_SYSTIMER == 280   \* 0x0118

MCWins == {w1}
MCMsgs == {WM_TIMER}
MCRanges == {<<0, 65535>>}
================================================================================
