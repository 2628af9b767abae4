CONSTANTS
  t1 = t1  t2 = t2  t3 = t3
  i1 = i1  i2 = i2  i3 = i3
  wa = wa  wb = wb
  NoWin = NoWin
  NoInput = NoInput
  Threads <- MCThreads2
  Inputs <- MCInputs2
  Wins <- MCWins1
  Owner <- MCOwner
  ShowCounts <- MCShowCounts
  MaxShow = 1
  CaptureFlags <- MCCaptureFlags
  RequestWins = {NoWin, wa}
SPECIFICATION Spec
SYMMETRY InputSymmetry2
CONSTRAINT SharedCountBound
INVARIANT KeystateLockCounted
CHECK_DEADLOCK FALSE
