\* Histories of two and three sends, and everything that may be left of them.
\* A page that is built is not built again.
CHECK_DEADLOCK FALSE
SPECIFICATION Spec
CONSTANTS
  Histories <- MCHistories
  LabelOf <- MCLabelOf
  NameOf <- MCNameOf
  ActorNamed <- MCActorNamed
  Answering <- MCAnswering
  Life <- MCLife
  LongTexts <- MCLongTexts
  CallWindow = 2
  FeedWindow = 3
  WakeEarly = 12
  WakeNear = 60
  WakeFar = 2160
  AliveFor = 270
  RefusalWindow = 180
  EpisodeGap = 540
INVARIANTS
  TypeOK
  EvidenceKept
  RoomRecordWins
  ThreadsAreExchanges
  ChatsAreComponents
