SPECIFICATION StreamFairSpec
CONSTANTS
  Requests = {r1,r2}
  Workers = {w1}
  Ids = {i1}
  Asks <- MCAsks
  URLLike = {i1}
  Seeded = {}
  Finds <- MCFinds
  Manual = {}
  Pages = {r2}
  Capacity = 1
  MaxEvents = 6
  NoId = NoId
INVARIANTS
  StreamTypeOK
  FoundIsListed
  CompleteIsTrue
PROPERTIES
  FirstRunResolves
  FollowersAreTold
