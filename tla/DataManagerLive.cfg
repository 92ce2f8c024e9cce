SPECIFICATION FairSpec
CONSTANTS
  Keys <- MCOneKey
  Data <- MCData
  NULL = NULL
  hash_size = 1
  node_size = 1
  max_clean_size = 1
  num_modules = 2
  load_actors = 1
  db_actors = 1
  capacity = 2
  SAVE_CHAR_PER_SEC = 1
  MaxVersion = 1
  MaxLogins = 2
  MaxSaveFails = 1
  MaxReadFails = 0
  MaxCrashes = 1
INVARIANTS
  OneCopy
  UnmarkedIsStored
PROPERTIES
  LoginAnswered
  EventuallySaved
