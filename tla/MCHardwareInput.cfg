\* Two threads sharing one thread input, a window of each and one of a thread
\* on another input; two cursor positions; wheel deltas whose sum overflows a
\* short.
CONSTANTS
  t1 = t1
  t2 = t2
  tOther = tOther
  w1 = w1
  w2 = w2
  NoWin = NoWin
  OtherInput = tOther
  Threads <- MCThreads
  Wins <- MCWins
  Owner <- MCOwner
  Positions = {0, 1}
  ClipRects <- MCClipRects
  Deltas <- MCDeltas
  MsgRanges <- MCRanges
  FilterWins = {NoWin, w1}
  \* TLC integers stop at 2^31 - 1; the wrap of the 32-bit counter needs
  \* 2^32 claims, far beyond these bounds either way
  UidMax = 2147483647
  \* no raw input is queued here, and for every other message PM_REMOVE
  \* changes nothing in get_hardware_message
  RemoveFlags = {TRUE}
  MaxEvents = 2
SPECIFICATION Spec
INVARIANTS
  TypeOK
  HardwareInputSignalled
  MergedMessageCarriesLatest
  WheelDeltaIsSum
  CursorInClip
