SPECIFICATION SFairSpec
CONSTANTS
  i1 = i1
  i2 = i2
  Requests = {r1,r2}
  Workers = {w1}
  Ids = {i1}
  Asks <- MCAsksAny
  URLLike = {i1}
  Seeded = {}
  Finds <- MCFinds
  Manual = {}
  Capacity = 1
  MaxEvents = 4
  NoId = NoId
PROPERTIES
  PendingIsServed
