\* The GC thread may create gc_cond after the first request.
CONSTANTS
  Main = main
  Children = {c1, c2}
  Monitors = {o}
  MaxDepth = 1
  GcThreadReady = FALSE
  None = none
SPECIFICATION FairSpec
PROPERTIES
  EveryRequestServed
CHECK_DEADLOCK FALSE
