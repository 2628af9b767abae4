\* One window, one message; thread timer ids 2..3 (next_timer_id starts at 3
\* and wraps at 1), so the id search wraps and can run out.  FairSpec: the
\* safety properties hold of every behaviour, the liveness one of the fair.
CONSTANTS
  w1 = w1
  NoWin = NoWin
  Wins <- MCWins
  Msgs <- MCMsgs
  ReqIds = {0, 2}
  Rates = {0, 2}
  MsgRanges <- MCRanges
  FirstTimerId = 3
  TimerIdFloor = 1
  TicksPerMs = 1
  MaxTime = 4
SPECIFICATION FairSpec
INVARIANTS
  TypeOK
  NextExpiryArmed
  TimerBitMatchesExpired
  UniqueTimerKeys
PROPERTIES
  RestartedWithinOnePeriod
  DueTimerExpires
\* A behaviour ends once the clock reaches MaxTime and no handler applies,
\* e.g. after cleanup_msg_queue.
CHECK_DEADLOCK FALSE
