\* Two hardware messages (a two-message mouse input reaches the wake of H
\* by the first message), both builds, the hook thread, one injecting
\* thread and the driver; the server's timeout loop is fair.
CONSTANTS
  MaxEvents = 2
  SyncModes <- MCSyncModes
SPECIFICATION FairSpec
INVARIANTS
  TypeOK
  EventResolvedOnce
PROPERTIES
  HookedEventResolved
\* the events are bounded, and both threads may exit
CHECK_DEADLOCK FALSE
