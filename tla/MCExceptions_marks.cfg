\* Any program: what is kept whichever methods throw, and what is kept if the
\* methods the VM calls are quiet.
CONSTANTS
  MaxDepth = 5
SPECIFICATION Spec
CHECK_DEADLOCK FALSE
INVARIANTS
  PcIsTops
  MonitorBalance
  QuietMarks
  IInv
PROPERTIES
  QuietHandedOver
  OnlyThrown
