------------------------------ MODULE MCRawInput ------------------------------
EXTENDS RawInput

CONSTANTS t1, t2, tOther, w1, w2

MCThreads == {t1, t2}
MCWins == {w1, w2}
MCOwner == (w1 :> t1) @@ (w2 :> t2)
MCRanges == {<<0, 65535>>, <<WM_KEYFIRST, WM_KEYLAST>>}
MCThreads1 == {t1}
MCWins1 == {w1}
MCOwner1 == w1 :> t1
MCDeltas == {MAXSHORT}
MCClipRects == {<<0, 1>>}
\* device notifications without a target window
MCRegs == {[flags |-> {RIDEV_DEVNOTIFY}, win |-> NoWin]}
================================================================================
