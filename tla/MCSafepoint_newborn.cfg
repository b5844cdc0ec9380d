\* The newborn child copies references that the collector then deletes.
CONSTANTS
  Main = main
  Children = {c1, c2}
  Monitors = {o}
  MaxDepth = 1
  GcThreadReady = TRUE
  None = none
SPECIFICATION Spec
INVARIANTS
  NoStaleReference
