SPECIFICATION StreamSpec
CONSTANTS
  Requests = {r1,r2}
  Pages = {r2}
  Workers = {w1}
  Ids = {i1}
  Asks <- MCAsks
  URLLike = {i1}
  Seeded = {}
  Finds <- MCFinds
  Manual = {}
  Capacity = 1
  MaxEvents = 6
  NoId = NoId
PROPERTIES
  CompleteIsCurrent
