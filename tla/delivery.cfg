\* Wakes of one message, locallySent trimmed above one id, one crash.
SPECIFICATION Spec
CONSTANTS
  Messages = {1, 2}
  DoneSignals = {}
  MaxBatch = 1
  SentCap = 1
  SentDrop = 1
  PulseLines = 1
  MaxCrashes = 1
INVARIANTS
  TypeOK
  WokenOnce
  StampedWasShown
PROPERTIES
  WakesSpaced
