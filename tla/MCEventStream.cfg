SPECIFICATION FairSpec
CONSTANTS
  Clients = {c1}
  Writers = {w1, w2}
  Page = 2
  MaxEvents = 4
  MaxDrops = 1
INVARIANT NoLostWakeup
PROPERTIES FeedSpec FinishedStreamEnds
