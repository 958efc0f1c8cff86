\* A page that is told of transcripts and saves, while one thing goes wrong: its
\* stream breaks, or a refresh drops a directory, cannot read a file or reads half.
SPECIFICATION FairSpec
CONSTANTS
  Pages = {p1}
  QueueSize = 1
  MaxTree = 2
  MaxRoom = 1
  Silent = {}
  MaxMishaps = 1
INVARIANTS
  TypeOK
  AnswersFollowFrames
  LabelNotAhead
PROPERTIES
  PageCatchesUp
