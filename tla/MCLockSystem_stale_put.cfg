\* A request of the website and a tap at the same time.
CONSTANTS
  alice = alice
  bob = bob
  be340 = be340
  cmpe121 = cmpe121
  c1 = c1
  c2 = c2
  h1 = h1
  None = None
  Blank = Blank
  Names = {alice, bob}
  Users = {alice, bob}
  Upper <- MCUpper
  Rooms = {be340}
  Groups = {cmpe121}
  Minutes = {2}
  Aliases <- MCNoAliases
  UploadedRooms <- MCUploadedRooms
  UploadedUsers <- MCUploadedUsers
  Conns = {c1}
  Hyphenated = {}
  StayDays = {0}
  MaxRequests = 1
  MaxFailures = 0
  Isolation = "user"
  Handlers = {h1}
  RoomFiles <- MCRoomFiles
  UserFiles <- MCUserFiles
  MaxEdits = 2
  MaxResets = 0
  Editing = "any"
SPECIFICATION SystemSpec
PROPERTIES
  AccessAsRequested
CHECK_DEADLOCK FALSE
