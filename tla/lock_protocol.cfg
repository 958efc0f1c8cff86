\* Every fault the code meets: a killed session, a suspended one, a failing
\* save, a node that gives up waiting, the maintenance command.
SPECIFICATION Spec
CONSTANTS
  Sessions = {s1, s2}
  Nodes = {n1}
  Tools = {t1}
  Mortal = {s1, n1, t1}
  Sluggish = {s2}
  Failing = {s1, n1}
  SessionAttempts = 2
  NodeAttempts = 2
  MaxUpdates = 1
  NoLock = NoLock
  Killed = Killed
INVARIANTS
  TypeOK
  Exclusion
  CommittedKept
  LockHasOwner
\* Every writer stops after MaxUpdates updates.
CHECK_DEADLOCK FALSE
