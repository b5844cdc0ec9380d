\* Every group of instructions, one after the other.
CONSTANTS
  Subjects = {"arithmetic", "control", "typecheck", "stack", "frames", "copy"}
  HardNan = HardNan
  Null = Null
  Obj = Obj
  NoBox = NoBox
  Unset = Unset
  NoClass = NoClass
  Classes = {"Object", "Base", "Derived"}
  Interfaces = {"Cloneable", "Left", "Right"}
  Object = "Object"
  Cloneable = "Cloneable"
  Parent <- MCParent
  Implements <- MCImplements
  Basics = {"int", "boolean"}
  Dimensions = 2
  CodeLength = 5
  Keys = {0, 1, 2}
  IntMax = 2
  MaxOperands = 2
  Surplus = 1
  Types = {"int", "float", "long", "double", "null"}
  MaxValues = 3
  MaxWords = 6
  Ints <- MCInts
  Longs = {0}
  Literals <- MCLiterals
  ShortForms = 2
  MaxLocals = 3
  MaxFrames = 2
  MaxOps = 3
  AllBoxes = {1, 2, 3, 4, 5, 6, 7, 8, 9, 10, 11, 12}
  Steps = 5
  ArrayOops <- MCArrays
  Positions <- MCPositions
  Lengths <- MCPositions
SPECIFICATION MCSpec
INVARIANTS
  StatesOK
  
  ControlIsJavas
  TypeTestsAreJavas
  SameWords
  BoxesAreValues
  CopiesAreJavas
\* A program or a small machine may come to its end.
CHECK_DEADLOCK FALSE
