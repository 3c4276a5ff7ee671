\* Locks that are tapped when the server is through with the tap before.
CONSTANTS
  alice = alice
  bob = bob
  bob1 = bob1
  carol = carol
  be340 = be340
  be301 = be301
  be400 = be400
  e2599 = e2599
  cmpe121 = cmpe121
  c1 = c1
  c2 = c2
  None = None
  Blank = Blank
  Names = {alice, bob}
  Users = {alice, bob}
  Upper <- MCUpper
  Rooms = {be340, be301}
  Groups = {cmpe121}
  Minutes = {7}
  Aliases <- MCNoAliases
  UploadedRooms <- MCTwoRooms
  UploadedUsers <- MCUploadedUsers
  Conns = {c1, c2}
  Hyphenated = {}
  StayDays = {0, 2}
  MaxRequests = 4
  MaxFailures = 0
  Isolation = "room"
SPECIFICATION ServerSpec
INVARIANTS
  CapacitySettled
PROPERTIES
  CarriedThrough
  ImplementsOccupancy
  TapToggles
  Finishes
CHECK_DEADLOCK FALSE
