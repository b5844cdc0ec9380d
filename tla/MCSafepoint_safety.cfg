\* Main and three children: one more than the ThreadTable needs to request a
\* collection, so that a start may be half way when it begins.
CONSTANTS
  Main = main
  Children = {c1, c2, c3}
  Monitors = {o}
  MaxDepth = 2
  GcThreadReady = FALSE
  None = none
SPECIFICATION Spec
SYMMETRY ChildSymmetry
INVARIANTS
  NoJavaWhileCollecting
  NoMonitorWhileCollecting
  NoHalfStartedThread
  OneCollection
  EndIsQuiet
  IInv
PROPERTIES
  ImplementsStopTheWorld
\* A request made before gc_cond exists is lost and the machine stops for ever.
CHECK_DEADLOCK FALSE
