SPECIFICATION MapSpec
CONSTANTS
  Friends = {bob}
  Slots = {m1, m2}
  Start = 2
  MaxTime = 4
  Threshold = 1
  MaxEvents = 3
  MaxClicks = 4
SYMMETRY MapSymmetry
INVARIANTS
  MapAgrees
  LayerFollowsStore
  StoppedStaysOff
  WatchOwned
  AgeIsTold
CHECK_DEADLOCK FALSE
