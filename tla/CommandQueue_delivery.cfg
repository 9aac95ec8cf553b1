SPECIFICATION FairSpec
CONSTANTS
  Threads = {t1, t2}
  Commands = {c1, c2}
  NoThread = NoThread
  NoCommand = NoCommand
INVARIANTS
  TypeOK
  AckedWereReceived
  ReceivedInOrder
PROPERTIES
  PendingAreTaken
  CommandsResolved
