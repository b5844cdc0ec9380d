\* The GC thread is up before the first request; no symmetry, for liveness.
CONSTANTS
  Main = main
  Children = {c1, c2}
  Monitors = {o}
  MaxDepth = 1
  GcThreadReady = TRUE
  None = none
SPECIFICATION FairSpec
PROPERTIES
  RequestServed
  ProcessEnds
  WaitsEnd
