\* Spec P1 against the code: one thread, one window, two events are enough
\* for a move, its claim by get_hardware_message and a second move.
CONSTANTS
  t1 = t1
  t2 = t2
  tOther = tOther
  w1 = w1
  w2 = w2
  NoWin = NoWin
  OtherInput = tOther
  Threads <- MCThreads1
  Wins <- MCWins1
  Owner <- MCOwner1
  Positions = {0, 1}
  ClipRects <- MCClipRects
  Deltas <- MCDeltas
  MsgRanges <- MCRanges
  FilterWins = {NoWin, w1}
  \* TLC integers stop at 2^31 - 1; the wrap of the 32-bit counter needs
  \* 2^32 claims, far beyond these bounds either way
  UidMax = 2147483647
  \* no raw input is queued here, and for every other message PM_REMOVE
  \* changes nothing in get_hardware_message
  RemoveFlags = {TRUE}
  MaxEvents = 2
SPECIFICATION Spec
PROPERTIES
  ClaimedNeverMergedInto
