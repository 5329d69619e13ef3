SPECIFICATION IngestSpec
CONSTANTS
  MaxFixes = 1
  Handlers = {h1}
  MaxGone = 0
  MaxFailures = 0
INVARIANT StoredIsBroadcast
CHECK_DEADLOCK FALSE
