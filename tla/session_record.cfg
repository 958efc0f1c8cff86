\* Two calls at once, over two processes of the session.
SPECIFICATION Spec
CONSTANTS
  c1 = c1
  c2 = c2
  Calls = {c1, c2}
  NoRecord = NoRecord
  HeartbeatMs = 2
  MaxTime = 2
  MaxRuns = 2
  MaxBegun = 4
SYMMETRY CallSymmetry
INVARIANTS
  TypeOK
  QuietMeansAdvertised
  ClosedStaysClosed
PROPERTIES
  PinnedKept
CHECK_DEADLOCK FALSE
