SPECIFICATION LFairSpec
CONSTANTS
  i1 = i1
  i2 = i2
  i3 = i3
  r1 = r1
  r2 = r2
  r3 = r3
  w1 = w1
  Requests = {r1,r2,r3}
  Workers = {w1}
  Ids = {i1,i2,i3}
  Asks <- MCAsks
  URLLike = {i1,i2,i3}
  Seeded = {}
  Finds <- MCFinds
  Manual = {}
  Capacity = 1
  MaxEvents = 1
  NoId = NoId
INVARIANTS
  CleanExitLosesNothing
  OnlyCutOffStartsAreLost
PROPERTIES
  SignalEndsProcess
  SearchesAreAnswered
