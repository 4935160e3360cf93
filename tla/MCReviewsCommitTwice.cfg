SPECIFICATION RvSpec
CONSTANTS
  Savers = {cap, oauth}
  LoopSavers = {oauth}
  Drafters = {}
  SaveKeys = {k1}
  NoKey = nokey
  Texts = {x, y}
  Threads = {t1, t2, loop}
  Loop = loop
  MaxReviews = 2
  MaxVersion = 1
CHECK_DEADLOCK FALSE
INVARIANT OneReviewPerKey
