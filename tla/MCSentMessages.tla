---------------------------- MODULE MCSentMessages ----------------------------
(* Model-checking instance of SentMessages: two threads, a few sends.      *)
EXTENDS SentMessages, TLC

CONSTANTS q1, q2, q3

MCQueues == {q1, q2}
MCQueues3 == {q1, q2, q3}
MCSymmetry == Permutations(MCQueues)
================================================================================
