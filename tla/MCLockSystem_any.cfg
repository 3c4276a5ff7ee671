\* The website, the cron job and the server at the same time, calls that fail.
CONSTANTS
  alice = alice
  bob = bob
  be340 = be340
  cmpe121 = cmpe121
  c1 = c1
  c2 = c2
  h1 = h1
  None = None
  Blank = Blank
  Names = {alice, bob}
  Users = {alice, bob}
  Upper <- MCUpper
  Rooms = {be340}
  Groups = {cmpe121}
  Minutes = {2}
  Aliases <- MCNoAliases
  UploadedRooms <- MCUploadedRooms
  UploadedUsers <- MCUploadedUsers
  Conns = {c1, c2}
  Hyphenated = {}
  StayDays = {0}
  MaxRequests = 3
  MaxFailures = 1
  Isolation = "user"
  Handlers = {h1}
  RoomFiles <- MCRoomFiles
  UserFiles <- MCUserFiles
  MaxEdits = 1
  MaxResets = 1
  Editing = "any"
SPECIFICATION SystemSpec
SYMMETRY MCSymmetry
INVARIANTS
  SystemTypeOK
  NoGaps
  OpenIsLast
PROPERTIES
  ClosedStaysClosed
CHECK_DEADLOCK FALSE
