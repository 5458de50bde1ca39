SPECIFICATION QFairSpec
CONSTANTS
  c1 = c1
  w1 = w1
  k1 = k1
  k2 = k2
  k3 = k3
  Callers = {c1}
  Workers = {w1}
  Keys = {k1,k2,k3}
  Capacity = 1
  NoKey = NoKey
PROPERTIES
  EnqueueReturns
