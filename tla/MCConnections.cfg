SPECIFICATION ConnSpec
CONSTANTS
  Sockets = {s1, s2}
  Pods = {p1, p2}
  Owners = {ann}
  NoOne = nobody
  MaxCalls = 2
  MaxFaults = 1
INVARIANTS ConnTypeOK LeakNeedsOverlap OfflineExplained StopHolds ResumeHolds
SYMMETRY ConnSymmetry
CHECK_DEADLOCK FALSE
