\* Two threads: the parent is not always first.
CONSTANTS
  Threads = {t1, t2}
  Root = root
  Left = left
  Right = right
  Perf = perf
  Classes = {root, left, right, perf}
  Banned = {perf}
  NoClass = none
  Parent <- MCParent
  Touches <- MCTouches
SPECIFICATION Spec
INVARIANTS
  ParentFirst
