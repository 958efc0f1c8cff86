\* A session that may be killed holding the lock, and one that reclaims it. No
\* node: the model has no clock, so a node that syncs for ever could meet
\* every attempt.
SPECIFICATION FairSpec
CONSTANTS
  Sessions = {s1, s2}
  Nodes = {}
  Tools = {}
  Mortal = {s1}
  Sluggish = {}
  Failing = {}
  SessionAttempts = 3
  NodeAttempts = 2
  MaxUpdates = 3
  NoLock = NoLock
  Killed = Killed
PROPERTIES
  ImplementsAtomicRoom
  EventuallySaved
\* Every writer stops after MaxUpdates updates.
CHECK_DEADLOCK FALSE
