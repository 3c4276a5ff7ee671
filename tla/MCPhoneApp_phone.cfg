\* Two people log in and out of one phone, turn it, and hold it to locks.
CONSTANTS
  alice = alice
  bob = bob
  a1 = a1
  a2 = a2
  a3 = a3
  a4 = a4
  Names = {alice, bob}
  Nobody = Nobody
  Instances = {a1, a2, a3, a4}
  MaxDepth = 3
  MaxTasks = 3
SPECIFICATION PhoneSpec
INVARIANTS
  PhoneTypeOK
  OneIdentity
  RoomsSettle
PROPERTIES
  FormsClose
CHECK_DEADLOCK FALSE
