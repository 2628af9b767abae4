---------------------------- MODULE KeyboardInput ----------------------------
(***************************************************************************)
(* Keyboard composed with the keystate of the thread input that receives   *)
(* its key messages (server/queue.c): the input keystate, the snapshot of  *)
(* the desktop keystate it was last synchronised with (desktop_keystate)   *)
(* and the keystate lock.                                                  *)
(*                                                                         *)
(* The key messages of Keyboard ("delivered") go to the focus window of    *)
(* one thread input, read by one thread that stays alive; ncons of them    *)
(* have been released.  Queueing a key message sets QS_KEY on that         *)
(* thread's queue, and set_queue_bits takes the keystate lock; the lock is *)
(* given back by clear_queue_bits, which release_hardware_message calls    *)
(* when no other key message is left.  The input has this one queue, so   *)
(* its lock count is 0 or 1 (ThreadInput models the count across attached  *)
(* queues).  Mouse buttons, which take the lock as well, are left out.     *)
(*                                                                         *)
(* Keystates are whole bytes (Keyboard's Byte): sync_input_keystate        *)
(* compares and copies bytes, so a toggle or an async bit the desktop      *)
(* changed makes it copy the key's down bit too.                           *)
(***************************************************************************)
EXTENDS Keyboard

CONSTANTS
  SetStates,    \* the key sets set_key_state requests mark down
  GetKeys,      \* the keys get_key_state asks for
  MaxCalls      \* bound on the thread's get_key_state and set_key_state calls

VARIABLES
  ik,           \* ik[k]: input->shared->keystate[k]
  snap,         \* snap[k]: input->desktop_keystate[k]
  klock,        \* queue->keystate_lock, which is input->shared->keystate_lock
  ncalls,       \* get_key_state and set_key_state calls made so far
  ncons,        \* the messages of delivered the thread has released
  got           \* the reply of get_key_state if the last step was one:
                \* [key, state], else NoReply

kvars == <<ik, snap, klock, ncalls, ncons, got>>
NoReply == [key |-> 0, state |-> {}]
allvars == <<vars, kvars>>

\* the keystate a set_key_state request carries
AsKeystate(K) == [k \in Keys |-> IF k \in K THEN {DOWN} ELSE {}]

\* the loop of sync_input_keystate: every key whose desktop byte differs
\* from the snapshot takes it, and the snapshot follows; <<ik, snap>>
SyncKeys(k, s) == <<[x \in Keys |-> IF s[x] = dks[x] THEN k[x] ELSE dks[x]], dks>>

\* sync_input_keystate: nothing while the input is locked
sync_input_keystate(k, s) == IF klock THEN <<k, s>> ELSE SyncKeys(k, s)

\* a step of Keyboard: a message it delivers is queued with QS_KEY, and
\* set_queue_bits takes the keystate lock; the input's keystate is left alone
KeyboardStep ==
  /\ Next
  /\ klock' = (klock \/ Len(delivered') > Len(delivered))
  /\ UNCHANGED <<ik, snap, ncalls, ncons>>
  /\ got' = NoReply

\* the clr_bit loop of release_hardware_message, bug variant: the bit is
\* cleared whatever other key messages are left
LastKeyMessageAny(n) == TRUE

\* the clr_bit loop of release_hardware_message: the n-th message is the
\* last key message of the input, so QS_KEY is cleared
LastKeyMessage(n) == n = Len(delivered)

\* DECL_HANDLER(accept_hardware_message) for the first unread key message:
\* release_hardware_message clears QS_KEY when no other key message is
\* left (clear_queue_bits, unlock_input_keystate, which syncs once the
\* lock count is 0), then applies the message to the input keystate
\* (update_input_key_state)
AcceptKey ==
  LET m == delivered[ncons + 1]
      unlock == LastKeyMessage(ncons + 1) /\ klock
      synced == IF unlock THEN SyncKeys(ik, snap) ELSE <<ik, snap>>
  IN /\ ncons < Len(delivered)
     /\ klock' = (klock /\ ~LastKeyMessage(ncons + 1))
     /\ ik' = update_key_state(synced[1], m.code, m.vkey, FALSE)
     /\ snap' = synced[2]
     /\ ncons' = ncons + 1
     /\ got' = NoReply
     /\ UNCHANGED <<vars, ncalls>>

\* DECL_HANDLER(get_key_state) for one key of the thread's own input: sync
\* it, then read it
GetKeyState(k) ==
  LET r == sync_input_keystate(ik, snap)
  IN /\ ncalls < MaxCalls
     /\ ncalls' = ncalls + 1
     /\ ik' = r[1]
     /\ snap' = r[2]
     /\ got' = [key |-> k, state |-> r[1][k]]
     /\ UNCHANGED <<vars, klock, ncons>>

\* DECL_HANDLER(get_key_state) with async: the desktop byte is read and its
\* 0x40 bit cleared
GetAsyncKeyState(k) ==
  /\ ncalls < MaxCalls
  /\ ncalls' = ncalls + 1
  /\ got' = [key |-> k, state |-> dks[k]]
  /\ dks' = [dks EXCEPT ![k] = @ \ {ASYNC}]
  /\ UNCHANGED <<lastPressAlt, hotkeys, queue, hotkeyPosted, delivered, altUnbroken,
                 nevents, ik, snap, klock, ncons>>

\* DECL_HANDLER(set_key_state): the input keystate becomes the request's,
\* the snapshot becomes the desktop keystate; with async the desktop
\* keystate then becomes the request's as well
SetKeyState(K, async) ==
  /\ ncalls < MaxCalls
  /\ ncalls' = ncalls + 1
  /\ ik' = AsKeystate(K)
  /\ snap' = dks
  /\ dks' = IF async THEN AsKeystate(K) ELSE dks
  /\ UNCHANGED <<lastPressAlt, hotkeys, queue, hotkeyPosted, delivered, altUnbroken,
                 nevents, klock, ncons>>
  /\ got' = NoReply

KInit ==
  /\ Init
  /\ ik = dks      \* create_thread_input copies the desktop keystate
  /\ snap = dks
  /\ klock = FALSE
  /\ ncalls = 0
  /\ ncons = 0
  /\ got = NoReply

KNext ==
  \/ KeyboardStep
  \/ AcceptKey
  \/ \E k \in GetKeys : GetKeyState(k) \/ GetAsyncKeyState(k)
  \/ \E K \in SetStates, async \in BOOLEAN : SetKeyState(K, async)

KSpec == KInit /\ [][KNext]_allvars

(***************************************************************************)
(* Properties                                                              *)
(***************************************************************************)
KTypeOK ==
  /\ TypeOK
  /\ ik \in [Keys -> Byte] /\ snap \in [Keys -> Byte] /\ klock \in BOOLEAN
  /\ ncalls \in 0..MaxCalls /\ ncons \in 0..Len(delivered)
  /\ got \in [key : GetKeys \cup {0}, state : Byte]

\* While a key message is left unread, a step changes the input keystate
\* only by applying the message it released: no get_key_state and no
\* release synchronises the input with the desktop, whose keystate already
\* holds the unread messages.  It rests on the keystate lock being held
\* exactly while a key message is queued: taken by set_queue_bits(QS_KEY),
\* given back by release_hardware_message only with the last key message,
\* tested by sync_input_keystate.  set_key_state, the thread's own write,
\* is excepted.
LockedKeystateFrozen ==
  [][ ncons' < Len(delivered') /\ ~(\E K \in SetStates, a \in BOOLEAN : SetKeyState(K, a))
      => ik' = IF ncons' = ncons THEN ik
               ELSE update_key_state(ik, delivered[ncons'].code, delivered[ncons'].vkey, FALSE) ]_allvars
================================================================================
