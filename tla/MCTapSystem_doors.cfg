\* Two locks, taps that overlap, late and lost answers, long stays, calls that fail, power cuts.
CONSTANTS
  alice = alice
  noise = noise
  be340 = be340
  be301 = be301
  cmpe121 = cmpe121
  c1 = c1
  c2 = c2
  None = None
  Blank = Blank
  Names = {alice, noise, Blank}
  Users = {alice, noise, Blank}
  Upper <- MCUpper
  Rooms = {be340, be301}
  Groups = {cmpe121}
  Minutes = {7}
  Aliases <- MCNoAliases
  UploadedRooms <- MCUploadedRooms
  UploadedUsers <- MCUploadedUsers
  Conns = {c1, c2}
  Hyphenated = {noise}
  StayDays = {0, 2}
  MaxRequests = 2
  MaxFailures = 1
  Isolation = "none"
  Unterminated = {noise}
SPECIFICATION TapSpec
INVARIANTS
  TapTypeOK
  DoorMatchesLog
  OpensForAuthorised
PROPERTIES
  LocksComeBack
CHECK_DEADLOCK FALSE
