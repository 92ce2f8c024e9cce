SPECIFICATION Spec
CONSTANTS
  act1 = act1
  act2 = act2
  t1 = t1
  t2 = t2
  Actors <- MCActors
  Tasks <- MCTasks
  home <- MCHome
  target <- MCTarget
  Offered <- MCOffered
  capacity <- MCCapacity
  MayStop <- MCMayStop
  NULL = NULL
INVARIANTS
  TypeOK
  RunsWhatItQueued
  DrainsEarly
PROPERTIES
  StopsWhenAsked
  EarlyIsRun
CHECK_DEADLOCK FALSE
