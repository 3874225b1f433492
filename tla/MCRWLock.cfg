SPECIFICATION LiveSpec
CONSTANTS
  t1 = t1
  t2 = t2
  t3 = t3
  Thread <- MCThread
  NoThread = NoThread
INVARIANTS TypeOK Exclusion LockInv
PROPERTIES NoStarvationOnFairMutexes ImplementsAbstractLive
