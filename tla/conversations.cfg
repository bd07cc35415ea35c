SPECIFICATION Spec
CONSTANTS
  u1 = u1
  u2 = u2
  a1 = a1
  a2 = a2
  Users = {u1, u2}
  Creator = u1
  Coordinator <- Coordinators
  NoUser = NoUser
  Requests = {r1, r2}
  Sockets = {s1}
  Agencies = {a1, a2}
  NoAgency = NoAgency
  Clients <- Tokens
  MaxRooms = 3
  MaxMessages = 2
  MaxCalls = 4
  Scenes <- Scenery
  Wanted <- Asked
  Uploaders = {p1, p2}
  TokenLife = 1
  RestoreWindow = 1
  MaxFiles = 3
  MaxBulk = 2
  MaxTokens = 1
  MaxTime = 3
SYMMETRY Symmetry
CHECK_DEADLOCK FALSE
INVARIANTS
  RoomsAreSound
  FilesAreSound
PROPERTIES
  ReadCoversTheRoom
