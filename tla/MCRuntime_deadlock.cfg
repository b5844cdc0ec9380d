\* findLoadedClass and a load in another thread wait for each other.
CONSTANTS
  Subjects = {"loading"}
  Classes = {"Object", "Base", "Derived"}
  Interfaces = {"Top", "Side"}
  Parent <- MCParent
  Implements <- MCImplements
  ClassFiles <- MCClassFiles
  FieldNames = {"x", "y"}
  Values = {0, 1}
  Constant = 1
  Stores = 2
  Mirror = "Derived"
  NoClass = NoClass
  NoField = NoField
  NoMethod = NoMethod
  Wild = Wild
  NoKlass = NoKlass
  Null = Null
  Free = Free
  Threads = {t1, t2}
  Jar = {"Object"}
  Files = {"User"}
  Basics = {"int"}
  Anonymous = {"Lambda"}
  Deps <- MCDeps
  Wanted <- MCWanted
  Requests = 3
  Entries <- MCEntries
  MaxAsked = 3
  Initial <- MCInitial
  Fields = 2
  Roots <- MCRoots
  Changes = 1
  Objects = 7
  Collections = 2
  Timeouts <- MCTimeouts
  Dword = 4
  MaxEntries = 2
  Main = "main"
  Children = {t1, t2}
  Console = "console"
  Launcher = "launcher"
  t1 = t1
  t2 = t2
SPECIFICATION MCSpec
INVARIANT FindingEnds
CHECK_DEADLOCK FALSE
