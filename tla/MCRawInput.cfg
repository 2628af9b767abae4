\* One thread of the process on the input and its window; the device
\* registered for notifications.  Events and set_cursor requests are left
\* out (MaxEvents = 0): raw input alone reaches the violation.
CONSTANTS
  t1 = t1
  t2 = t2
  tOther = tOther
  w1 = w1
  w2 = w2
  NoWin = NoWin
  OtherInput = tOther
  Threads <- MCThreads1
  Wins <- MCWins1
  Owner <- MCOwner1
  Positions = {0, 1}
  ClipRects <- MCClipRects
  Deltas <- MCDeltas
  MsgRanges <- MCRanges
  FilterWins = {NoWin}
  UidMax = 2147483647
  RemoveFlags = {TRUE, FALSE}
  MaxEvents = 0
  NoReg = NoReg
  Regs <- MCRegs
  MaxReports = 1
SPECIFICATION RSpec
INVARIANTS
  HardwareInputSignalled
