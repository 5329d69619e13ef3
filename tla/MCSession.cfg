CONSTANTS
  ann = ann
  bob = bob
  r1 = r1
  Users = {ann, bob}
  Ids = {r1}
  Addressee <- OnlyAnn
  Cap = 1
  None = None
  MaxClicks = 3
  MaxEvents = 2
  MaxCalls = 2
  MaxLogins = 3
SPECIFICATION SessionSpec
INVARIANTS LoggedInListens PrivatePageHasUser PollsAnnounceOnce
PROPERTY GoodTokenKept
CHECK_DEADLOCK FALSE
