\* Any method may throw: an exception may get lost.
CONSTANTS
  MaxDepth = 3
SPECIFICATION Spec
CHECK_DEADLOCK FALSE
PROPERTIES
  HandedOver
