CONSTANTS
  t1 = t1  t2 = t2  t3 = t3
  i1 = i1  i2 = i2  i3 = i3
  wa = wa  wb = wb
  NoWin = NoWin
  NoInput = NoInput
  Threads <- MCThreads3
  Inputs <- MCInputs3
  Wins <- MCWins2
  Owner <- MCOwner
  ShowCounts <- MCShowCounts
  MaxShow = 1
  CaptureFlags <- MCCaptureFlags
  RequestWins = {NoWin, wa, wb}
SPECIFICATION Spec
SYMMETRY InputSymmetry3
CONSTRAINT SharedCountBound
INVARIANT InputWindowsLive
CHECK_DEADLOCK FALSE
