\* Lists are edited while nothing else happens; the cron job runs at any time.
CONSTANTS
  alice = alice
  bob = bob
  be340 = be340
  cmpe121 = cmpe121
  c1 = c1
  c2 = c2
  h1 = h1
  None = None
  Blank = Blank
  Names = {alice, bob}
  Users = {alice, bob}
  Upper <- MCUpper
  Rooms = {be340}
  Groups = {cmpe121}
  Minutes = {2, 58}
  Aliases <- MCNoAliases
  UploadedRooms <- MCUploadedRooms
  UploadedUsers <- MCUploadedUsers
  Conns = {c1}
  Hyphenated = {}
  StayDays = {0}
  MaxRequests = 4
  MaxFailures = 0
  Isolation = "room"
  Handlers = {h1}
  RoomFiles <- MCRoomFiles
  UserFiles <- MCUserFiles
  MaxEdits = 2
  MaxResets = 1
  Editing = "quiet"
SPECIFICATION SystemSpec
INVARIANTS
  NeverOverCounts
PROPERTIES
  AccessAsRequested
CHECK_DEADLOCK FALSE
