SPECIFICATION FairSpec
CONSTANTS
  Threads = {t1, t2, t3}
  Handles = {h1, h2, h3}
  Items = {i1, i2, i3}
  NoThread = NoThread
  NoItem = NoItem
  ThePool = ThePool
  Limit = 2
INVARIANTS LimitKept NoUseAfterFree PoolInv
PROPERTIES ImplementsObjects CallsReturn
CHECK_DEADLOCK FALSE
