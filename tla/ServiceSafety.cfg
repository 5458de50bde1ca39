SPECIFICATION SSpec
SYMMETRY Symmetry
CONSTANTS
  i1 = i1
  i2 = i2
  Requests = {r1,r2,r3}
  Workers = {w1,w2}
  Ids = {i1,i2}
  Asks <- MCAsksAny
  URLLike = {i1,i2}
  Seeded = {}
  Finds <- MCFinds
  Manual = {i1}
  Capacity = 1
  MaxEvents = 4
  NoId = NoId
INVARIANTS
  STypeOK
  FirstRunIsOwned
  FirstRunIsPending
  FirstRunInOrder
  OneStarter
  SeqsDistinct
  FoundIsKnown
PROPERTIES
  LostOnlyInWindow
