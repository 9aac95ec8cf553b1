SPECIFICATION Spec
CONSTANTS
  Threads = {t1, t2}
  Commands = {c1}
  NoThread = NoThread
  NoCommand = NoCommand
INVARIANTS
  CancelledNeverDelivered
