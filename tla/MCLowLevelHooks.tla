--------------------------- MODULE MCLowLevelHooks ---------------------------
EXTENDS LowLevelHooks

MCSyncModes == {"server", "msgwait"}
================================================================================
