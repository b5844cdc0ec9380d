\* Two threads race through initial_client under a fair scheduler; no symmetry, for
\* liveness.
CONSTANTS
  Threads = {t1, t2}
  Root = root
  Left = left
  Right = right
  Perf = perf
  Classes = {root, left, perf}
  Banned = {perf}
  NoClass = none
  Parent <- MCParent
  Touches <- MCTouches
SPECIFICATION FairSpec
INVARIANTS
  NoReentry
  ClinitOncePerThread
  InitializedIsDone
  ParentFirstAlone
  IInv
PROPERTIES
  UsableOnReturn
  CallsReturn
