---------------------------- MODULE QueueReadiness ----------------------------
(***************************************************************************)
(* What a message queue promises its owner thread, without wake bits or   *)
(* counters.                                                               *)
(*                                                                         *)
(* The contents are the sent list, the posted list, the quit flag and the  *)
(* paint count.  Which kinds of input are present is computed from them    *)
(* (Present).  Only "fresh" is kept as a variable: the kinds that arrived  *)
(* since the owner last cleared them.                                      *)
(*                                                                         *)
(* A wait armed with a wake mask W and a changed mask C is satisfied as    *)
(* soon as Present meets W or fresh meets C, and never while neither       *)
(* holds.                                                                  *)
(*                                                                         *)
(* A get returns the head of the sent list if there is one.  Otherwise it *)
(* returns the first posted message its filter makes eligible, then the   *)
(* quit message, then a paint.  Failing all of these, it arms a wait.      *)
(***************************************************************************)
EXTENDS Naturals, Sequences, SequencesExt

CONSTANTS Wins, NoWin, ThreadOnly, PostCodes, GetWins, Ranges, Filters, WaitMasks

VARIABLES sent, posted, quit, paintCount, fresh, wait, reply

avars == <<sent, posted, quit, paintCount, fresh, wait, reply>>

WM_PAINT == 15
WM_QUIT == 18
WM_HOTKEY == 786
QS_SENDMESSAGE == "QS_SENDMESSAGE"
QS_POSTMESSAGE == "QS_POSTMESSAGE"
QS_ALLPOSTMESSAGE == "QS_ALLPOSTMESSAGE"
QS_HOTKEY == "QS_HOTKEY"
QS_PAINT == "QS_PAINT"
\* the owner is not waiting
Run == [armed |-> FALSE, wake |-> {}, changed |-> {}, asleep |-> FALSE]
Armed(wm) == [armed |-> TRUE, wake |-> wm[1], changed |-> wm[2], asleep |-> FALSE]
NoReply == [type |-> "none", win |-> NoWin, msg |-> 0]

\* the kinds of input the contents hold
Present(s, p, q, n) ==
  {b \in {QS_SENDMESSAGE} : s # <<>>}
  \cup {b \in {QS_POSTMESSAGE, QS_ALLPOSTMESSAGE} : p # <<>> \/ q}
  \cup {b \in {QS_HOTKEY} : \E i \in DOMAIN p : p[i].msg = WM_HOTKEY}
  \cup {b \in {QS_PAINT} : n > 0}

Signal(w, pr, f) == (pr \cap w.wake) \cup (f \cap w.changed) # {}
PresentNext == Present(sent', posted', quit', paintCount')

\* after new input: a sleeping waiter whose wait is now satisfied is woken
Arrive(kinds) ==
  /\ fresh' = fresh \cup kinds
  /\ wait' = IF wait.asleep /\ Signal(wait, PresentNext, fresh') THEN Run ELSE wait
  /\ UNCHANGED reply

\* after input went away: no kind is fresh that is no longer present
Leave ==
  /\ fresh' = fresh \cap PresentNext
  /\ UNCHANGED <<wait, reply>>

Post(w, code) ==
  /\ posted' = Append(posted, [win |-> w, msg |-> code])
  /\ Arrive({QS_POSTMESSAGE, QS_ALLPOSTMESSAGE} \cup {b \in {QS_HOTKEY} : code = WM_HOTKEY})
  /\ UNCHANGED <<sent, quit, paintCount>>

Notify(w) ==
  /\ sent' = Append(sent, w)
  /\ Arrive({QS_SENDMESSAGE})
  /\ UNCHANGED <<posted, quit, paintCount>>

PostQuit ==
  /\ wait = Run
  /\ quit' = TRUE
  /\ Arrive({QS_POSTMESSAGE, QS_ALLPOSTMESSAGE})
  /\ UNCHANGED <<sent, posted, paintCount>>

\* a paint count that stays positive counts as new paint input
Repaint ==
  /\ paintCount' \in Nat
  /\ IF paintCount' > 0 THEN Arrive({QS_PAINT}) ELSE Leave
  /\ UNCHANGED <<sent, posted, quit>>

\* the messages of a destroyed window go away; a WM_QUIT among them
\* becomes the quit message
CleanupWindow(w) ==
  LET ofW(m) == m.win = w
  IN /\ sent' = SelectSeq(sent, LAMBDA x : x # w)
     /\ posted' = SelectSeq(posted, LAMBDA m : ~ofW(m))
     /\ quit' = (quit \/ \E i \in DOMAIN posted : ofW(posted[i]) /\ posted[i].msg = WM_QUIT)
     /\ Leave
     /\ UNCHANGED paintCount

InRange(code, r) == r[1] <= code /\ code <= r[2]
MatchWin(win, mwin) == win = NoWin \/ (win = ThreadOnly /\ mwin = NoWin) \/ mwin = win
\* a posted message the filter asks for
Eligible(m, win, r, f) ==
  /\ MatchWin(win, m.win)
  /\ \/ QS_POSTMESSAGE \in f /\ InRange(m.msg, r)
     \/ QS_HOTKEY \in f /\ m.msg = WM_HOTKEY /\ InRange(WM_HOTKEY, r)

\* the owner's get: the reply, and the removal when it removes
Get(win, r, f, remove) ==
  LET i == SelectInSeq(posted, LAMBDA m : Eligible(m, win, r, f))
      Done(rep) == /\ reply' = rep /\ wait' = Run
                   /\ fresh' \subseteq fresh \cap PresentNext
  IN /\ wait = Run
     /\ CASE sent # <<>> ->
               /\ Done([type |-> "sent", win |-> Head(sent), msg |-> 0])
               /\ sent' = Tail(sent) /\ UNCHANGED <<posted, quit, paintCount>>
          [] i # 0 ->
               /\ Done([type |-> "posted", win |-> posted[i].win, msg |-> posted[i].msg])
               /\ posted' = IF remove THEN RemoveAt(posted, i) ELSE posted
               /\ UNCHANGED <<sent, quit, paintCount>>
          [] QS_POSTMESSAGE \in f /\ quit ->
               /\ Done([type |-> "quit", win |-> NoWin, msg |-> WM_QUIT])
               /\ quit' = (quit /\ ~remove)
               /\ UNCHANGED <<sent, posted, paintCount>>
          [] OTHER ->
               /\ UNCHANGED <<sent, posted, quit, paintCount>>
               /\ fresh' \subseteq fresh
               /\ \/ /\ QS_PAINT \in f /\ paintCount > 0 /\ InRange(WM_PAINT, r)
                     /\ reply' \in [type : {"paint"}, win : Wins, msg : {WM_PAINT}]
                     /\ wait' = Run
                  \/ /\ reply' = [type |-> "pending", win |-> NoWin, msg |-> 0]
                     /\ \E wm \in WaitMasks : wait' = Armed(wm)

\* the owner blocks on an armed wait, or returns at once if it is satisfied
Wait ==
  /\ wait.armed /\ ~wait.asleep
  /\ wait' = IF Signal(wait, Present(sent, posted, quit, paintCount), fresh) THEN Run
             ELSE [wait EXCEPT !.asleep = TRUE]
  /\ UNCHANGED <<sent, posted, quit, paintCount, fresh, reply>>

\* the owner arms a wait without a get; with skip it does not wait when the
\* wait would be satisfied at once
SetMask(wm, skip) ==
  /\ wait = Run
  /\ wait' = IF skip /\ Signal([wake |-> wm[1], changed |-> wm[2]],
                              Present(sent, posted, quit, paintCount), fresh)
             THEN Run ELSE Armed(wm)
  /\ UNCHANGED <<sent, posted, quit, paintCount, fresh, reply>>

\* the owner reads its status and forgets some fresh kinds
GetStatus(clear) ==
  /\ wait = Run
  /\ fresh' = fresh \ clear
  /\ UNCHANGED <<sent, posted, quit, paintCount, wait, reply>>

AInit ==
  /\ sent = <<>> /\ posted = <<>> /\ quit = FALSE /\ paintCount = 0
  /\ fresh = {} /\ wait = Run /\ reply = NoReply

ANext ==
  \/ \E w \in Wins \cup {NoWin}, c \in PostCodes : Post(w, c)
  \/ \E w \in Wins : Notify(w) \/ CleanupWindow(w)
  \/ PostQuit
  \/ Repaint
  \/ \E win \in GetWins, r \in Ranges, f \in Filters, rm \in BOOLEAN : Get(win, r, f, rm)
  \/ Wait
  \/ \E wm \in WaitMasks, skip \in BOOLEAN : SetMask(wm, skip)
  \/ \E clear \in SUBSET {QS_SENDMESSAGE, QS_POSTMESSAGE, QS_ALLPOSTMESSAGE, QS_HOTKEY, QS_PAINT} :
       GetStatus(clear)

ASpec == AInit /\ [][ANext]_avars
================================================================================
