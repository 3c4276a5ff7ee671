\* The cruzID of one user is that of another with a digit appended.
CONSTANTS
  alice = alice
  bob = bob
  bob1 = bob1
  carol = carol
  be340 = be340
  be301 = be301
  be400 = be400
  e2599 = e2599
  cmpe121 = cmpe121
  c1 = c1
  c2 = c2
  None = None
  Blank = Blank
  Names = {bob, bob1}
  Users = {bob, bob1}
  Upper <- MCUpper
  Rooms = {be340}
  Groups = {cmpe121}
  Minutes = {7}
  Aliases <- MCAliases
  UploadedRooms <- MCClassRoom
  UploadedUsers <- MCUploadedUsers
  Conns = {c1}
  Hyphenated = {}
  StayDays = {0}
  MaxRequests = 22
  MaxFailures = 0
  Isolation = "room"
SPECIFICATION ServerSpec
INVARIANTS
  OwnVisit
CHECK_DEADLOCK FALSE
