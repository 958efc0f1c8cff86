\* Three overlapping reads and four saves.
SPECIFICATION CacheSpec
CONSTANTS
  Calls = {c1, c2, c3}
  MaxVersion = 4
SYMMETRY CallSymmetry
INVARIANTS
  CacheTypeOK
  AnswersAreFresh
