\* A message to wake for, a done signal, failures of Pi and of the room, a crash.
SPECIFICATION FairSpec
CONSTANTS
  Messages = {1, 2}
  DoneSignals = {1}
  MaxBatch = 1
  SentCap = 1
  SentDrop = 1
  PulseLines = 0
  MaxCrashes = 1
PROPERTIES
  EventuallyDelivered
