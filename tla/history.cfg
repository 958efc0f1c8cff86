\* Threads die, the flush may be cut short, the sidecar may be locked; no
\* fairness of the flush timeout, so nothing but the queue ends a flush.
SPECIFICATION FairSpec
CONSTANTS
  MaxEntries = 3
  Threads = {t1, t2}
  NoThread = NoThread
  MaxErrors = 2
  MaxTimeouts = 1
INVARIANTS
  TypeOK
  ShutIsIndexed
PROPERTIES
  IndexNeverShrinks
  EventuallyIndexed
  FlushReturns
CHECK_DEADLOCK FALSE
