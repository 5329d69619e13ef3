SPECIFICATION FairRealtimeSpec
CONSTANTS
  Users = {ann, bob}
  Owner = ann
  NoUser = nobody
  Calls = {t1, t2}
  MaxFixes = 1
  MaxChanges = 1
  MaxDrops = 1
  MaxFailures = 1
PROPERTY RevocationReachesViewer
CHECK_DEADLOCK FALSE
