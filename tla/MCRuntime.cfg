\* Every part of the run-time system, one after the other; t1 and t2 are alike.
CONSTANTS
  Subjects = {"file", "linking", "loading", "pool", "gc", "monitor", "shutdown"}
  Classes = {"Object", "Base", "Derived"}
  Interfaces = {"Top", "Side"}
  Parent <- MCParent
  Implements <- MCImplements
  ClassFiles <- MCClassFiles
  FieldNames = {"x", "y"}
  Values = {0, 1}
  Constant = 1
  Stores = 2
  Mirror = "Derived"
  NoClass = NoClass
  NoField = NoField
  NoMethod = NoMethod
  Wild = Wild
  NoKlass = NoKlass
  Null = Null
  Free = Free
  Threads = {t1, t2}
  Jar = {"Object"}
  Files = {"User"}
  Basics = {"int"}
  Anonymous = {"Lambda"}
  Deps <- MCDeps
  Wanted <- MCWanted
  Requests = 3
  Entries <- MCEntries
  MaxAsked = 3
  Initial <- MCInitial
  Fields = 2
  Roots <- MCRoots
  Changes = 1
  Objects = 7
  Collections = 2
  Timeouts <- MCTimeouts
  Dword = 4
  MaxEntries = 2
  Main = "main"
  Children = {t1, t2}
  Console = "console"
  Launcher = "launcher"
  t1 = t1
  t2 = t2
SPECIFICATION MCSpec
SYMMETRY Symmetry
INVARIANTS
  StatesOK
  ParsesWhatIsWritten
  FieldsAreJavas
  CallsAreJavas
  KlassesAreOneAndWhole
  LoadersNeverDeadlock
  PoolAnswersAreRight
  WaitersNeedNobody
  EndIsAlone
PROPERTIES
  CollectionIsACopy
\* A program or a small machine may come to its end.
CHECK_DEADLOCK FALSE
