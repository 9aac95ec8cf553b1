SPECIFICATION FairSpec
CONSTANTS
  Sensors = {s1, s2}
  MaxReadingId = 3
  MaxStamp = 4
INVARIANTS
  TypeOK
  SentOnce
  PassedWereSent
PROPERTIES
  SentInOrder
  AboveCursorSent
