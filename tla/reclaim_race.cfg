\* Two sessions reclaim the lock of a third that was killed.
SPECIFICATION Spec
CONSTANTS
  Sessions = {s1, s2, s3}
  Nodes = {}
  Tools = {}
  Mortal = {s1}
  Sluggish = {}
  Failing = {}
  SessionAttempts = 3
  NodeAttempts = 2
  MaxUpdates = 1
  NoLock = NoLock
  Killed = Killed
INVARIANTS
  SessionsSaveUnderLock
\* Every writer stops after MaxUpdates updates.
CHECK_DEADLOCK FALSE
