\* Two threads, one window, hotkeys on A with and without Alt; two key
\* events over Alt, Ctrl and A, so both sides of a modifier can be held or
\* one key pressed and released.
CONSTANTS
  t1 = t1  t2 = t2  wa = wa  id1 = id1  id2 = id2
  NoWin = NoWin
  NoQueue = NoQueue
  Threads <- MCThreads
  Wins <- MCWins
  Owner <- MCOwner
  Ids <- MCIds
  InVkeys <- MCAllInVkeys
  HkVkeys <- MCHkVkeys
  HkMods <- MCHkMods
  SetStates <- MCSetStates
  GetKeys <- MCGetKeys
  MaxEvents = 2
  MaxCalls = 2
SPECIFICATION KSpec
INVARIANTS
  KTypeOK
  HotkeysUnique
  NoHotkeyOfFreedQueue
PROPERTIES
  LockedKeystateFrozen
\* every thread may exit, and the key events are bounded
CHECK_DEADLOCK FALSE
