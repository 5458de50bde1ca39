SPECIFICATION QFairSpec
CONSTANTS
  c1 = c1
  c2 = c2
  w1 = w1
  w2 = w2
  w3 = w3
  k1 = k1
  k2 = k2
  k3 = k3
  k4 = k4
  k5 = k5
  Callers = {c1,c2}
  Workers = {w1,w2,w3}
  Keys = {k1,k2,k3,k4,k5}
  Capacity = 1
  NoKey = NoKey
INVARIANTS
  QTypeOK
  OneLiveJobPerKey
  NoLeakedKey
  OnlyFullQueueStalls
PROPERTIES
  ImplementsPool
  StopReturns
  JobsAreRun
