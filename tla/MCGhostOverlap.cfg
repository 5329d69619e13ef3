SPECIFICATION RealtimeSpec
CONSTANTS
  Users = {ann, bob}
  Owner = ann
  NoUser = nobody
  Calls = {t1, t2}
  MaxFixes = 1
  MaxChanges = 1
  MaxDrops = 0
  MaxFailures = 0
INVARIANT GhostHidesMarker
CHECK_DEADLOCK FALSE
