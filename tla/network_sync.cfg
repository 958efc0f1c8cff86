\* Two machines; messages age, are too many, and do not fit.
SPECIFICATION FairSpec
CONSTANTS
  n1 = n1
  n2 = n2
  Nodes = {n1, n2}
  Pairs <- OneWay
  To <- ToSecond
  Retention = 2
  MaxMessages = 2
  Fits <- FitBudget
  MaxClock = 4
  MaxBeats <- Beats
  MaxLate = 1
INVARIANTS
  TypeOK
  NobodyAhead
PROPERTIES
  StampsKept
  Converge
