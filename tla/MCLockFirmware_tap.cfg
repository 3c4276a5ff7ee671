\* A lock, its reader, two phones and every failure the code can meet.
CONSTANTS
  alice = alice
  maximilian = maximilian
  maximilianus = maximilianus
  Names = {alice, maximilian, maximilianus}
  LongNames = {maximilian, maximilianus}
  FirstTen <- MCFirstTen
  Blank = Blank
  Garbage = Garbage
  Nothing = Nothing
  WaitTimeout = 1
  TestTimeout = 1
  FramePolls = 2
  MAXATTEMPS = 0
SPECIFICATION LockSpec
INVARIANTS
  LockTypeOK
  AsksForWhoIsThere
PROPERTIES
  SleepsAgain
  ImplementsDoor
CHECK_DEADLOCK FALSE
