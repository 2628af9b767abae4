---------------------------- MODULE MCThreadInput ----------------------------
(***************************************************************************)
(* Two or three threads; t1 and t2 each create a window.  There are as     *)
(* many inputs as threads: outside a handler each live input has a queue   *)
(* on it, and detach creates its input while the old one is shared, so     *)
(* |Threads| inputs are never exhausted.  Inputs are interchangeable.      *)
(***************************************************************************)
EXTENDS ThreadInput, TLC

CONSTANTS t1, t2, t3, i1, i2, i3, wa, wb

MCThreads2 == {t1, t2}
MCInputs2 == {i1, i2}
MCThreads3 == {t1, t2, t3}
MCInputs3 == {i1, i2, i3}
MCWins1 == {wa}
MCWins2 == {wa, wb}
MCOwner == [w \in MCWins2 |-> IF w = wa THEN t1 ELSE t2]
MCShowCounts == {1, -1}
InputSymmetry2 == Permutations(MCInputs2)
InputSymmetry3 == Permutations(MCInputs3)
\* a request in menu mode and one outside it
MCCaptureFlags == {{}, {CAPTURE_MENU}}
MCCaptureFlags1 == {{}}
MCRequestWins1 == {wa}

\* The window handles capture, menu owner and caret are written only by
\* set_capture_window, set_caret_window, create_thread_input and
\* thread_input_cleanup_window, and no guard or assignment of any other
\* variable reads them.  A run whose properties are about the other
\* variables may identify states that differ only in those three: it
\* reaches the same states of the other variables.
CountsView ==
  <<queue, qinput, qlock, qcursor, inputs, shm, focus, active,
    scursor, slock, foreground, win, aliased>>

\* Once two inputs share a mapping, the shared counts of that mapping drift
\* by the counts of the other input's queues with every reset; they are
\* explored up to MaxShared in size.
MaxShared == 2
SharedCountBound ==
  \A m \in Threads : scursor[m] \in -MaxShared..MaxShared /\ slock[m] \in -MaxShared..MaxShared
================================================================================
