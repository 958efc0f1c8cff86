\* A poll that files are written, replaced and deleted under.
SPECIFICATION FairSpec
CONSTANTS
  Last = 2
  Sessions = {"a", "b", "c"}
  SessionIn <- MCSessionIn
  HeaderOf <- MCHeaderOf
  Texts <- MCTexts
  MaxMishaps = 1
INVARIANTS
  TypeOK
  IndexIsPrefix
  NothingOrphaned
PROPERTIES
  EventuallyIndexed
