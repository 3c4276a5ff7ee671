\* Any tap may overtake any other; strangers, no account, long visits, calls that fail.
CONSTANTS
  alice = alice
  bob = bob
  bob1 = bob1
  carol = carol
  be340 = be340
  be301 = be301
  be400 = be400
  e2599 = e2599
  cmpe121 = cmpe121
  c1 = c1
  c2 = c2
  None = None
  Blank = Blank
  Names = {Blank, carol, bob}
  Users = {Blank, carol, bob}
  Upper <- MCUpper
  Rooms = {be340, be301, be400, e2599}
  Groups = {cmpe121}
  Minutes = {7}
  Aliases <- MCNoAliases
  UploadedRooms <- MCBlankColumns
  UploadedUsers <- MCUploadedUsers
  Conns = {c1, c2}
  Hyphenated = {e2599}
  StayDays = {0, 2}
  MaxRequests = 4
  MaxFailures = 1
  Isolation = "none"
SPECIFICATION ServerSpec
INVARIANTS
  ServerTypeOK
  NoGaps
  RightAnswer
CHECK_DEADLOCK FALSE
