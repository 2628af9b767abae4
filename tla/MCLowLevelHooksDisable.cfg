\* As MCLowLevelHooks.cfg, checking only that a timed-out hook message
\* disables its hook.
CONSTANTS
  MaxEvents = 2
  SyncModes <- MCSyncModes
SPECIFICATION Spec
PROPERTY HungHookDisabled
CHECK_DEADLOCK FALSE
