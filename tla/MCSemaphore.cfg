SPECIFICATION FairSpec
CONSTANTS
  Threads = {t1, t2, t3}
  t1 = t1
  t2 = t2
  t3 = t3
  NoThread = none
  MaxPost = 2
  MaxPosted = 2
INVARIANTS
  NothingLost
  NoLostWakeup
PROPERTIES
  PostedIsTaken
