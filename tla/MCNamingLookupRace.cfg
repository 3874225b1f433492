SPECIFICATION LiveSpec
CONSTANTS
  m = m
  d = d
  f = f
  g = g
  x = x
  Thread = {h1, h2}
  Inserter = Inserter
  Flusher = Flusher
  Path <- MCPath
  Listed <- MCListed
  Renames <- MCRenames
  Bucket <- MCBucket
  MountPaths <- MCMountPaths
  CACHE_SIZE = 3
  MaxSame = 2
  MaxCalls = 0
CONSTRAINT Followed
PROPERTY RequestsReturn
CHECK_DEADLOCK FALSE
