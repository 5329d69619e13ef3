CONSTANTS
  u1 = u1
  typo = typo
  s1 = s1
  s2 = s2
  Others = {u1}
  FirstModes = {"EVERYONE", "SELECTED"}
  Slots = {s1, s2}
  None = None
  Unknown = {typo}
  MaxClicks = 4
  MaxFailures = 1
  MaxEvents = 1
SPECIFICATION PagesSpec
SYMMETRY PagesSymmetry
INVARIANTS DialogDoesItsAction ListsSettle ResultsFit PageAgrees RefusalIsHidden
PROPERTY FormerFriendsBlock
CHECK_DEADLOCK FALSE
