SPECIFICATION CacheSpec
CONSTANTS
  Keys <- MCKeys
  d1 = d1
  d2 = d2
  Data <- MCData
  NULL = NULL
  hash_size = 2
  node_size = 3
  max_clean_size = 2
INVARIANTS
  CacheTypeOK
  PoolPartition
  SizesExact
  DirtyQueuedOnce
  HashExact
  OccupyFailsOnlyWhenFull
PROPERTIES
  PinnedSurvives
  ImplementsWriteBack
