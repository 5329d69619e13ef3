SPECIFICATION AdmissionSpec
CONSTANTS
  Handlers = {h1, h2}
  Places = {0, 2}
  Limit = 2
  Window = 3
  MaxAge = 0
  Skew = 1
  Speed = 1
  Held = 2
  Oldest = 4
INVARIANTS AdmissionTypeOK WindowBound
PROPERTIES BlockedIsServed JumpNeedsOverlap
