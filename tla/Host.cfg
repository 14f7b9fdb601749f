SPECIFICATION FairSpec
CONSTANTS
  Threads = {t1, t2}
  Presenters = {t1, t2}
  EpochsEnd = TRUE
  PublishLimit = 1
INVARIANTS
  ReleasedClean
  PresenterExclusive
  HostIsJudged
PROPERTIES
  WorkIsTaken
  CallsReturn
CHECK_DEADLOCK FALSE
