------------------------------ MODULE ClassInit ------------------------------
(***************************************************************************)
(* Class initialisation: BytecodeEngine::initial_client and the            *)
(* instructions and natives that call it. Klass::state is read and written *)
(* by every Java thread with no lock, so the test of the state and the     *)
(* assignment that follows it are separate steps here.                     *)
(*                                                                         *)
(* A thread's stack holds its running calls of initial_client, the         *)
(* innermost last. Between them lie the frames of the <clinit> methods,    *)
(* which appear as the classes they still touch.                           *)
(***************************************************************************)
EXTENDS Naturals, Sequences, FiniteSets

CONSTANTS
  Threads,   \* Java threads
  Classes,   \* instance classes, loaded and linked
  Banned,    \* classes whose state start-up sets to Initializing for good
  Parent,    \* Parent[c]: the superclass, or NoClass
  Touches,   \* Touches[c]: the classes the <clinit> of c uses
  NoClass    \* not a class

ASSUME ConstantsAssumption ==
  /\ Banned \subseteq Classes
  /\ NoClass \notin Classes
  /\ Parent \in [Classes -> Classes \cup {NoClass}]
  /\ Touches \in [Classes -> SUBSET Classes]

VARIABLES
  state,  \* Klass::state of each class
  stack,  \* the calls of initial_client in progress, by thread
  runs,   \* how often a thread has entered the <clinit> of a class
  done    \* the classes some <clinit> of which has returned

vars == <<state, stack, runs, done>>

States == {"NotInitialized", "Initializing", "Initialized"}

\* A call of initial_client: it tests the state, marks the class, waits for the
\* parent's call, then runs <clinit>.
Frames == [class : Classes, at : {"test", "mark", "final", "clinit"}, todo : SUBSET Classes]

Call(c) == [class |-> c, at |-> "test", todo |-> Touches[c]]

Top(t) == stack[t][Len(stack[t])]

IsAt(t, p) == stack[t] # <<>> /\ Top(t).at = p

\* The top call of thread t returns.
Popped(t) == SubSeq(stack[t], 1, Len(stack[t]) - 1)

\* The top call of thread t goes on to p.
MovedTo(t, p) == [stack[t] EXCEPT ![Len(stack[t])].at = p]

-----------------------------------------------------------------------------
(* The code before a thread runs: start-up bans Perf and PerfCounter.       *)

Init ==
  /\ state = [c \in Classes |-> IF c \in Banned THEN "Initializing" ELSE "NotInitialized"]
  /\ stack = [t \in Threads |-> <<>>]
  /\ runs = [t \in Threads |-> [c \in Classes |-> 0]]
  /\ done = {}

\* new, invokestatic, invokespecial, Class.forName or
\* Unsafe.ensureClassInitialized: one class.
UseClass(t, c) ==
  /\ stack[t] = <<>>
  /\ stack' = [stack EXCEPT ![t] = <<Call(c)>>]
  /\ UNCHANGED <<state, runs, done>>

\* getstatic or putstatic of a field whose type is a class: the class of the
\* field, and when that call has returned the class of its type.
UseField(t, c, d) ==
  /\ stack[t] = <<>>
  /\ stack' = [stack EXCEPT ![t] = <<Call(d), Call(c)>>]
  /\ UNCHANGED <<state, runs, done>>

-----------------------------------------------------------------------------
(* BytecodeEngine::initial_client.                                          *)

\* The top call goes on to p, or returns, or first calls for the parent.
GoOn(t, p) == stack' = [stack EXCEPT ![t] = MovedTo(t, p)]
Return(t) == stack' = [stack EXCEPT ![t] = Popped(t)]
CallParent(t) ==
  LET p == Parent[Top(t).class] IN
    stack' = [stack EXCEPT ![t] =
      IF p = NoClass THEN MovedTo(t, "final") ELSE Append(MovedTo(t, "final"), Call(p))]

\* Mutant of SeeNotInitialized: a class that is Initializing is begun again.
TestInitialized(t) ==
  /\ IsAt(t, "test") /\ state[Top(t).class] # "Initialized"
  /\ GoOn(t, "mark")
  /\ UNCHANGED <<state, runs, done>>

SeeNotInitialized(t) ==
  /\ IsAt(t, "test") /\ state[Top(t).class] = "NotInitialized"
  /\ GoOn(t, "mark")
  /\ UNCHANGED <<state, runs, done>>

\* Mutant of SeeInitialized: spin until the class is Initialized.
AwaitInitialized(t) ==
  /\ IsAt(t, "test") /\ state[Top(t).class] # "NotInitialized"
  /\ IF state[Top(t).class] = "Initialized" THEN Return(t) ELSE UNCHANGED stack
  /\ UNCHANGED <<state, runs, done>>

\* Initializing counts as initialised, whoever is at it.
SeeInitialized(t) ==
  /\ IsAt(t, "test") /\ state[Top(t).class] # "NotInitialized"
  /\ Return(t)
  /\ UNCHANGED <<state, runs, done>>

\* Mutant of SetInitializing: the class is marked only when it is Initialized.
MarkLate(t) ==
  /\ IsAt(t, "mark")
  /\ CallParent(t)
  /\ UNCHANGED <<state, runs, done>>

\* Mutant of SetInitializing: the class is set to Initialized before its <clinit>.
MarkInitialized(t) ==
  /\ IsAt(t, "mark")
  /\ state' = [state EXCEPT ![Top(t).class] = "Initialized"]
  /\ CallParent(t)
  /\ UNCHANGED <<runs, done>>

\* Mutant of SetInitializing: the parent is forgotten.
SkipParent(t) ==
  /\ IsAt(t, "mark")
  /\ state' = [state EXCEPT ![Top(t).class] = "Initializing"]
  /\ GoOn(t, "final")
  /\ UNCHANGED <<runs, done>>

\* The class is marked before the parent's turn; java/lang/Object has no parent.
SetInitializing(t) ==
  /\ IsAt(t, "mark")
  /\ state' = [state EXCEPT ![Top(t).class] = "Initializing"]
  /\ CallParent(t)
  /\ UNCHANGED <<runs, done>>

\* The final static fields get their constants, then <clinit> is called. A class
\* without one is like one whose <clinit> touches nothing.
RunClinit(t) ==
  /\ IsAt(t, "final")
  /\ GoOn(t, "clinit")
  /\ runs' = [runs EXCEPT ![t][Top(t).class] = @ + 1]
  /\ UNCHANGED <<state, done>>

ClinitUses(t, u) ==
  /\ IsAt(t, "clinit")
  /\ u \in Top(t).todo
  /\ stack' = [stack EXCEPT ![t] =
       Append([stack[t] EXCEPT ![Len(stack[t])].todo = @ \ {u}], Call(u))]
  /\ UNCHANGED <<state, runs, done>>

\* Mutant of SetInitialized: the state stays Initializing.
LeaveInitializing(t) ==
  /\ IsAt(t, "clinit")
  /\ done' = done \cup {Top(t).class}
  /\ Return(t)
  /\ UNCHANGED <<state, runs>>

\* Mutant of SetInitialized: the parent is recorded instead of the class.
FinishParent(t) ==
  /\ IsAt(t, "clinit")
  /\ state' = [state EXCEPT ![Top(t).class] = "Initialized"]
  /\ done' = done \cup {Parent[Top(t).class]}
  /\ Return(t)
  /\ UNCHANGED runs

\* <clinit> returns, early if it threw: its result is ignored.
SetInitialized(t) ==
  /\ IsAt(t, "clinit")
  /\ state' = [state EXCEPT ![Top(t).class] = "Initialized"]
  /\ done' = done \cup {Top(t).class}
  /\ Return(t)
  /\ UNCHANGED runs

Use(t) == \E c \in Classes : UseClass(t, c) \/ \E d \in Classes : UseField(t, c, d)

InitStep(t) ==
  \/ SeeNotInitialized(t)
  \/ SeeInitialized(t)
  \/ SetInitializing(t)
  \/ RunClinit(t)
  \/ \E u \in Classes : ClinitUses(t, u)
  \/ SetInitialized(t)

Next == \E t \in Threads : Use(t) \/ InitStep(t)

Spec == Init /\ [][Next]_vars

\* The scheduler runs every thread, and a thread inside initial_client is always
\* able to go on.
FairSpec == Spec /\ \A t \in Threads : WF_vars(InitStep(t))

-----------------------------------------------------------------------------
(* Properties.                                                             *)

TypeOK ==
  /\ state \in [Classes -> States]
  /\ stack \in [Threads -> Seq(Frames)]
  /\ runs \in [Threads -> [Classes -> Nat]]
  /\ done \subseteq Classes

\* The calls of t that have got past the test and marked their class.
Begun(t) == {i \in 1..Len(stack[t]) : stack[t][i].at \in {"final", "clinit"}}

\* A thread never initialises a class inside its own initialisation of that
\* class, however parents and <clinit> methods refer to each other: this bounds
\* the recursion of initial_client.
NoReentry ==
  \A t \in Threads : \A i, j \in Begun(t) :
    stack[t][i].class = stack[t][j].class => i = j

\* Even when threads race, no thread runs one <clinit> twice.
ClinitOncePerThread == \A t \in Threads, c \in Classes : runs[t][c] <= 1

\* A class that is Initialized has had a <clinit> return, its parent is at least
\* being initialised, and a banned class is never initialised at all.
InitializedIsDone ==
  \A c \in Classes : state[c] = "Initialized" =>
    /\ c \in done \ Banned
    /\ Parent[c] # NoClass => state[Parent[c]] # "NotInitialized"

\* The classes thread t is initialising.
InProgress(t) == {stack[t][i].class : i \in Begun(t)}

\* Inside a <clinit> of t the parent is initialised, or t is at it further out.
ParentFirstIn(t) ==
  \A i \in Begun(t) :
    LET p == Parent[stack[t][i].class] IN
      stack[t][i].at = "clinit" /\ p \notin Banned \cup {NoClass} =>
        state[p] = "Initialized" \/ p \in InProgress(t)

\* The parent comes first in every thread. Promised by the comment on
\* initial_client's recursion.
ParentFirst == \A t \in Threads : ParentFirstIn(t)

\* The parent comes first in a thread as long as no other has initialised anything.
ParentFirstAlone ==
  \A t \in Threads :
    (\A u \in Threads \ {t} : stack[u] = <<>> /\ \A c \in Classes : runs[u][c] = 0)
      => ParentFirstIn(t)

\* A call does not return before the class is initialised, unless it is banned or
\* some call, perhaps of another thread, is still at it: no class is left half
\* initialised, although racing threads set its state back.
UsableOnReturn ==
  [][\A t \in Threads, c \in Classes :
       IsAt(t, "test") /\ Top(t).class = c /\ Len(stack'[t]) < Len(stack[t])
         => state[c] = "Initialized" \/ c \in Banned \/ \E u \in Threads : c \in InProgress(u)]_vars

\* initial_client waits for nobody: every call returns, also when the <clinit>
\* methods of several threads need each other.
CallsReturn == \A t \in Threads : stack[t] # <<>> ~> stack[t] = <<>>

-----------------------------------------------------------------------------
(* The inductive invariant behind NoReentry, ClinitOncePerThread and         *)
(* InitializedIsDone.                                                        *)

\* Past the test: this call will run, or is running, the <clinit>.
Chosen(t) == {i \in 1..Len(stack[t]) : stack[t][i].at # "test"}

\* Only the innermost call can be between the test and the mark, and no class is
\* chosen twice by one thread.
ChosenInv ==
  \A t \in Threads : \A i \in Chosen(t) :
    /\ stack[t][i].class \notin Banned
    /\ stack[t][i].at = "mark" => i = Len(stack[t])
    /\ \A j \in Chosen(t) : stack[t][i].class = stack[t][j].class => i = j

\* A class some thread has begun, run or finished is marked.
MarkedInv ==
  /\ \A c \in Banned \cup done : state[c] # "NotInitialized"
  /\ \A t \in Threads : \A i \in Begun(t) : state[stack[t][i].class] # "NotInitialized"
  /\ \A t \in Threads, c \in Classes : runs[t][c] > 0 => state[c] # "NotInitialized"

\* A call that has not reached <clinit> yet has not counted it.
RunsInv ==
  \A t \in Threads :
    /\ \A c \in Classes : runs[t][c] <= 1
    /\ \A i \in Chosen(t) : stack[t][i].at \in {"mark", "final"} =>
         runs[t][stack[t][i].class] = 0

\* The parent of a begun class is marked, unless its call is the next one in.
ParentInv ==
  \A t \in Threads : \A i \in Begun(t) :
    LET p == Parent[stack[t][i].class] IN
      \/ p = NoClass
      \/ state[p] # "NotInitialized"
      \/ stack[t][i].at = "final" /\ i < Len(stack[t]) /\ stack[t][i + 1].class = p

IInv == TypeOK /\ ChosenInv /\ MarkedInv /\ RunsInv /\ ParentInv /\ InitializedIsDone

-----------------------------------------------------------------------------
(* What ParentFirstAlone and UsableOnReturn need beside it.                  *)

\* A call that is in its <clinit> has counted it.
CountedInv ==
  \A t \in Threads : \A i \in Begun(t) :
    stack[t][i].at = "clinit" => runs[t][stack[t][i].class] > 0

\* A class is left Initializing only while some call is at it, or for good by start-up.
InitializingInv ==
  \A c \in Classes : state[c] = "Initializing" =>
    c \in Banned \/ \E u \in Threads : c \in InProgress(u)

\* Thread u has not changed the state of any class, whatever calls it has begun.
Untouched(u) == Begun(u) = {} /\ \A c \in Classes : runs[u][c] = 0

\* While only t has changed a state, the parent of a class it has begun is initialised, in
\* progress, or the class of the next call in.
AloneInv ==
  \A t \in Threads : (\A u \in Threads \ {t} : Untouched(u)) =>
    \A i \in Begun(t) :
      LET p == Parent[stack[t][i].class] IN
        p \notin Banned \cup {NoClass} =>
          \/ state[p] = "Initialized" \/ p \in InProgress(t)
          \/ stack[t][i].at = "final" /\ i < Len(stack[t]) /\ stack[t][i + 1].class = p

FirstInv == CountedInv /\ InitializingInv /\ AloneInv
==============================================================================
