SPECIFICATION Spec
CONSTANTS
  Keys <- MCKeys
  Data <- MCData
  NULL = NULL
  hash_size = 1
  node_size = 1
  max_clean_size = 1
  num_modules = 2
  load_actors = 1
  db_actors = 1
  capacity = 2
  SAVE_CHAR_PER_SEC = 1
  MaxVersion = 1
  MaxLogins = 1
  MaxSaveFails = 1
  MaxReadFails = 1
  MaxCrashes = 0
INVARIANTS
  TypeOK
  UnsavedIsScheduled
  ReservedIsLoading
  OwnData
  ChainIsServed
