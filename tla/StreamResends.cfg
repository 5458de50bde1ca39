SPECIFICATION StreamSpec
CONSTANTS
  Requests = {r1}
  Pages = {r1}
  Workers = {w1}
  Ids = {i1}
  Asks <- MCAsks
  URLLike = {i1}
  Seeded = {}
  Finds <- MCFinds
  Manual = {}
  Capacity = 1
  MaxEvents = 6
  NoId = NoId
INVARIANTS
  ResultsAppendedOnce
