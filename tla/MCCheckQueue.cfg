SPECIFICATION FairSpec
CONSTANTS
  w1 = w1
  w2 = w2
  Master = master
  c1 = c1
  c2 = c2
  c3 = c3
  c4 = c4
  Worker <- Workers
  Check <- Checks
  Bad = {c4}
  BatchSize = 2
  MaxThrown = 1
INVARIANTS IdleWhenUnused ResultIsRight
PROPERTIES WaitReturns
