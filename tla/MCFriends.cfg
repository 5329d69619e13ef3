SPECIFICATION FriendsSpec
CONSTANTS
  Users = {ann, bob}
  NoUser = nobody
  Handlers = {h1, h2, h3}
  RequestIds = {r1, r2}
  NoRequest = none
SYMMETRY FriendsSymmetry
INVARIANTS
  FriendsTypeOK
  AnomaliesNeedOverlap
PROPERTIES
  FriendshipsConsented
  FriendsImplementEnvironment
