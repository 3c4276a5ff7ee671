\* A registered person taps at one room, then at another.
CONSTANTS
  alice = alice
  bob = bob
  bob1 = bob1
  carol = carol
  be340 = be340
  be301 = be301
  be400 = be400
  e2599 = e2599
  cmpe121 = cmpe121
  c1 = c1
  c2 = c2
  None = None
  Blank = Blank
  Names = {bob}
  Users = {bob}
  Upper <- MCUpper
  Rooms = {be340, be301}
  Groups = {cmpe121}
  Minutes = {7}
  Aliases <- MCNoAliases
  UploadedRooms <- MCBobsRooms
  UploadedUsers <- MCUploadedUsers
  Conns = {c1}
  Hyphenated = {}
  StayDays = {0}
  MaxRequests = 2
  MaxFailures = 0
  Isolation = "user"
SPECIFICATION ServerSpec
INVARIANTS
  OneRoomAtATime
CHECK_DEADLOCK FALSE
