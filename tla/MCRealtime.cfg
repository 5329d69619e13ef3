SPECIFICATION RealtimeSpec
CONSTANTS
  Users = {ann, bob}
  Owner = ann
  NoUser = nobody
  Calls = {t1, t2}
  MaxFixes = 2
  MaxChanges = 2
  MaxDrops = 0
  MaxFailures = 1
SYMMETRY RealtimeSymmetry
INVARIANTS
  RealtimeTypeOK
  NothingSentAfterRevocation
  StaleMarkerExplained
CHECK_DEADLOCK FALSE
