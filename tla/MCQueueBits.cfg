\* Two posts or notifies, a paint count up to 2; the owner interleaves
\* gets, waits, masks and status reads with the producers.  Each step is
\* also checked, under the refinement mapping, against QueueReadiness.
CONSTANTS
  w1 = w1
  NoWin = NoWin
  ThreadOnly = ThreadOnly
  Wins <- MCWins
  PostCodes <- MCPostCodes
  GetWins <- MCGetWins
  Ranges <- MCRanges
  Filters <- MCFilters
  WaitMasks <- MCWaitMasks
  ClearMasks <- MCClearMasks
  MaxPosts = 2
  MaxPaint = 2
SPECIFICATION Spec
INVARIANTS
  TypeOK
  NoSleepWhileSignaled
PROPERTIES
  QueueReadinessRefined
