------------------------------ MODULE Safepoint ------------------------------
(***************************************************************************)
(* Thread start-up, safepoints, the stop-the-world rendezvous of the       *)
(* copying collector and the normal exit of the virtual machine.           *)
(*                                                                         *)
(* Actors: the Java threads (Main, which runs init_and_do_main(), and the  *)
(* children that Thread.start0 creates), the GC thread, and the launcher,  *)
(* the operating-system thread that called automan_jvm::run().             *)
(*                                                                         *)
(* _all_thread_wait_mutex and _all_thread_wait_cond are never created, so  *)
(* every WaitForSingleObject on them returns at once and every SetEvent or *)
(* ReleaseMutex on them does nothing; they do not appear as state here.    *)
(***************************************************************************)
EXTENDS Naturals, Sequences, FiniteSets

CONSTANTS
  Main,            \* the thread launched by automan_jvm::run()
  Children,        \* the java.lang.Thread objects the program may start
  Monitors,        \* the objects the program synchronizes on
  MaxDepth,        \* bound: monitors a thread holds at once, re-entries counted
  GcThreadReady,   \* has gc_thread() created gc_cond before Main starts?
  None             \* no operand

ASSUME ConstantsAssumption ==
  /\ IsFiniteSet(Children)
  /\ Main \notin Children
  /\ MaxDepth \in Nat
  /\ GcThreadReady \in BOOLEAN
  /\ None \notin Children \cup Monitors

Threads == {Main} \cup Children

VARIABLES
  pc,           \* where each Java thread is
  state,        \* vm_thread::state
  table,        \* the threads registered in ThreadTable
  bit,          \* temp::the_first_wait_executed
  monitor_num,  \* vm_thread::monitor_num
  locks,        \* the monitors a thread owns, innermost last
  operand,      \* the child being started, or the monitor being entered
  gc,           \* GC::gc()
  inited,       \* the static `inited` of BytecodeEngine::execute
  gc_cond,      \* the event: not created, or whether it is signalled
  gcpc,         \* where the GC thread is
  visited,      \* threads seen by the running scan or root copy
  thread_num,   \* automan_jvm::thread_num()
  launcher,     \* where the launcher is
  pool,         \* the generation of Mempool's objects
  arg,          \* the generation vm_thread::arg points into
  frame         \* the generation the thread's frames point into

vars == <<pc, state, table, bit, monitor_num, locks, operand, gc, inited,
          gc_cond, gcpc, visited, thread_num, launcher, pool, arg, frame>>

threadVars == <<state, table, bit, monitor_num, locks, operand>>
gcVars     == <<gc, inited, gc_cond, gcpc, visited>>
heapVars   == <<pool, arg, frame>>
exitVars   == <<thread_num, launcher>>

-----------------------------------------------------------------------------
Running == "Running"
Waiting == "Waiting"
Death   == "Death"

\* Before the first instruction of the first Java method.
StartPcs    == {"created", "registered", "bitset", "waited", "begin", "pushing"}
\* The prologue of BytecodeEngine::execute, run at every method entry.
ProloguePcs == {"entry", "trigger", "triggered", "refused", "safepoint", "park",
                "parked", "unpark"}
\* Bytecode, natives and monitor operations: the code that uses Java objects.
JavaPcs     == {"java", "enter", "leave", "count", "launch", "spin"}
ExitPcs     == {"dec", "death", "done"}
ThreadPcs   == {"unborn", "pushed"} \cup StartPcs \cup ProloguePcs \cup JavaPcs
                 \cup ExitPcs
GcPcs       == {"boot", "wait", "detect", "scan", "collect", "terminated"}
LauncherPcs == {"join", "patch", "spin", "cancel", "end", "over"}

\* detect_ready() holds gc_lock for a whole iteration; every other user holds
\* it for one step.
GcLockFree == gcpc # "scan"
\* ThreadTable's lock, likewise, is held across steps only by the scan.
TableLockFree == gcpc # "scan"
\* Mutant of InitLockFree: the test and the assignment of `inited` unlocked.
InitLockAbsent == TRUE
\* init_lock is held from the test of `inited` to its assignment.
InitLockFree == \A t \in Threads : pc[t] \notin {"trigger", "triggered", "refused"}

\* The elements of automan_jvm::threads().
VmThreads == {t \in Threads : pc[t] # "unborn"}

\* A Windows mutex is recursive: only another owner makes enter() block.
MutexFreeFor(t, m) ==
  \A u \in Threads \ {t} : \A i \in 1 .. Len(locks[u]) : locks[u][i] # m

Goto(t, from, to) == pc[t] = from /\ pc' = [pc EXCEPT ![t] = to]

Init ==
  /\ pc = [t \in Threads |-> IF t = Main THEN "created" ELSE "unborn"]
  /\ state = [t \in Threads |-> Running]
  /\ table = {}
  /\ bit = [t \in Threads |-> FALSE]
  /\ monitor_num = [t \in Threads |-> 0]
  /\ locks = [t \in Threads |-> <<>>]
  /\ operand = [t \in Threads |-> None]
  /\ gc = FALSE
  /\ inited = FALSE
  /\ gc_cond = IF GcThreadReady THEN "unset" ELSE "null"
  /\ gcpc = IF GcThreadReady THEN "wait" ELSE "boot"
  /\ visited = {}
  /\ thread_num = 0
  /\ launcher = "join"
  /\ pool = 0
  /\ arg = [t \in Threads |-> 0]
  /\ frame = [t \in Threads |-> 0]

-----------------------------------------------------------------------------
(* Starting a thread: scapegoat() and vm_thread::start().                  *)

\* scapegoat: ThreadTable::add_a_thread. Main goes on to start(), which runs
\* init_and_do_main(); a child first stops "because of gc's race".
Register(t) ==
  /\ TableLockFree
  /\ Goto(t, "created", IF t = Main THEN "entry" ELSE "registered")
  /\ table' = table \cup {t}
  /\ UNCHANGED <<state, bit, monitor_num, locks, operand, gcVars, heapVars, exitVars>>

\* wait_cur_thread_and_set_bit, statement by statement.
SetBit(t) ==
  /\ Goto(t, "registered", "bitset")
  /\ bit' = [bit EXCEPT ![t] = TRUE]
  /\ UNCHANGED <<state, table, monitor_num, locks, operand, gcVars, heapVars, exitVars>>

FirstWait(t) ==
  /\ Goto(t, "bitset", "waited")
  /\ state' = [state EXCEPT ![t] = Waiting]
  /\ UNCHANGED <<table, bit, monitor_num, locks, operand, gcVars, heapVars, exitVars>>

\* The wait on the absent event returns at once.
FirstWaitReturns(t) ==
  /\ Goto(t, "waited", "begin")
  /\ state' = [state EXCEPT ![t] = Running]
  /\ UNCHANGED <<table, bit, monitor_num, locks, operand, gcVars, heapVars, exitVars>>

\* start: StackFrame(method, ..., arg, this) copies the references in arg ...
BuildFrame(t) ==
  /\ Goto(t, "begin", "pushing")
  /\ frame' = [frame EXCEPT ![t] = arg[t]]
  /\ UNCHANGED <<threadVars, gcVars, pool, arg, exitVars>>

\* ... and push_back makes the frame visible to the collector.
PushFrame(t) ==
  /\ Goto(t, "pushing", "entry")
  /\ UNCHANGED <<threadVars, gcVars, heapVars, exitVars>>

-----------------------------------------------------------------------------
(* The prologue of BytecodeEngine::execute.                                *)

\* Under init_lock: one request for a collection once three threads exist.
CheckTrigger(t) ==
  /\ InitLockFree
  /\ Goto(t, "entry",
          IF ~inited /\ Cardinality(table) >= 3 THEN "trigger" ELSE "safepoint")
  /\ UNCHANGED <<threadVars, gcVars, heapVars, exitVars>>

\* GC::init_gc, under gc_lock. SetEvent on a gc_cond not yet created is lost.
InitGc(t) ==
  /\ GcLockFree
  /\ Goto(t, "trigger", IF gc THEN "refused" ELSE "triggered")
  /\ gc' = TRUE
  /\ gc_cond' = IF ~gc /\ gc_cond = "unset" THEN "set" ELSE gc_cond
  /\ UNCHANGED <<threadVars, inited, gcpc, visited, heapVars, exitVars>>

\* inited = GC::init_gc(); init_lock.unlock()
SetInited(t) ==
  /\ pc[t] \in {"triggered", "refused"}
  /\ pc' = [pc EXCEPT ![t] = "safepoint"]
  /\ inited' = (pc[t] = "triggered")
  /\ UNCHANGED <<threadVars, gc, gc_cond, gcpc, visited, heapVars, exitVars>>

\* Mutant of PollSafepoint: stop also while monitors are held.
PollHoldingMonitors(t) ==
  /\ GcLockFree
  /\ Goto(t, "safepoint", IF gc THEN "park" ELSE "java")
  /\ UNCHANGED <<threadVars, gcVars, heapVars, exitVars>>

\* if (monitor_num == 0) set_safepoint_here: read gc under gc_lock.
PollSafepoint(t) ==
  /\ monitor_num[t] = 0 => GcLockFree
  /\ Goto(t, "safepoint", IF monitor_num[t] = 0 /\ gc THEN "park" ELSE "java")
  /\ UNCHANGED <<threadVars, gcVars, heapVars, exitVars>>

\* wait_cur_thread: become Waiting, poll gc until it is false, become Running.
Park(t) ==
  /\ Goto(t, "park", "parked")
  /\ state' = [state EXCEPT ![t] = Waiting]
  /\ UNCHANGED <<table, bit, monitor_num, locks, operand, gcVars, heapVars, exitVars>>

\* Mutant of SeeGcOver: woken once, gc not read again.
WakeWithoutLooking(t) ==
  /\ Goto(t, "parked", "unpark")
  /\ UNCHANGED <<threadVars, gcVars, heapVars, exitVars>>

SeeGcOver(t) ==
  /\ GcLockFree
  /\ ~gc
  /\ Goto(t, "parked", "unpark")
  /\ UNCHANGED <<threadVars, gcVars, heapVars, exitVars>>

Unpark(t) ==
  /\ Goto(t, "unpark", "java")
  /\ state' = [state EXCEPT ![t] = Running]
  /\ UNCHANGED <<table, bit, monitor_num, locks, operand, gcVars, heapVars, exitVars>>

-----------------------------------------------------------------------------
(* Java code: method calls, monitors, Thread.start0, return.               *)

\* add_frame_and_execute: any Java method call runs the prologue.
CallMethod(t) ==
  /\ Goto(t, "java", "entry")
  /\ UNCHANGED <<threadVars, gcVars, heapVars, exitVars>>

\* monitorenter or a synchronized method: monitor_inc() comes first ...
MonitorInc(t, m) ==
  /\ Goto(t, "java", "enter")
  /\ Len(locks[t]) < MaxDepth
  /\ monitor_num' = [monitor_num EXCEPT ![t] = @ + 1]
  /\ operand' = [operand EXCEPT ![t] = m]
  /\ UNCHANGED <<state, table, bit, locks, gcVars, heapVars, exitVars>>

\* ... and the thread may then block in Monitor::enter().
EnterMonitor(t) ==
  /\ Goto(t, "enter", "java")
  /\ MutexFreeFor(t, operand[t])
  /\ locks' = [locks EXCEPT ![t] = Append(@, operand[t])]
  /\ operand' = [operand EXCEPT ![t] = None]
  /\ UNCHANGED <<state, table, bit, monitor_num, gcVars, heapVars, exitVars>>

\* monitorexit: monitor_dec(), then leave_monitor(). Java code is compiled to
\* release monitors in the opposite order of their acquisition.
MonitorDec(t) ==
  /\ locks[t] # <<>>
  /\ Goto(t, "java", "leave")
  /\ monitor_num' = [monitor_num EXCEPT ![t] = @ - 1]
  /\ UNCHANGED <<state, table, bit, locks, operand, gcVars, heapVars, exitVars>>

LeaveMonitor(t) ==
  /\ Goto(t, "leave", "java")
  /\ locks' = [locks EXCEPT ![t] = SubSeq(@, 1, Len(@) - 1)]
  /\ UNCHANGED <<state, table, bit, monitor_num, operand, gcVars, heapVars, exitVars>>

\* JVM_StartThread: push a vm_thread whose arg is `this` ...
StartThread(t, c) ==
  /\ pc[t] = "java" /\ pc[c] = "unborn"
  /\ pc' = [pc EXCEPT ![t] = "count", ![c] = "pushed"]
  /\ operand' = [operand EXCEPT ![t] = c]
  /\ arg' = [arg EXCEPT ![c] = frame[t]]
  /\ UNCHANGED <<state, table, bit, monitor_num, locks, gcVars, pool, frame, exitVars>>

\* Mutant of CountThread: the new thread is not counted.
LeaveUncounted(t) ==
  /\ Goto(t, "count", "launch")
  /\ UNCHANGED <<threadVars, gcVars, heapVars, exitVars>>

\* ... count it under num_lock ...
CountThread(t) ==
  /\ Goto(t, "count", "launch")
  /\ thread_num' = thread_num + 1
  /\ UNCHANGED <<threadVars, gcVars, heapVars, launcher>>

\* ... launch(): _beginthreadex(scapegoat) ...
LaunchThread(t) ==
  /\ pc[t] = "launch"
  /\ pc' = [pc EXCEPT ![t] = "spin", ![operand[t]] = "created"]
  /\ UNCHANGED <<threadVars, gcVars, heapVars, exitVars>>

\* Mutant of SeeChildWaiting: start0 returns without waiting for the child.
DoNotWaitForChild(t) ==
  /\ Goto(t, "spin", "java")
  /\ operand' = [operand EXCEPT ![t] = None]
  /\ UNCHANGED <<state, table, bit, monitor_num, locks, gcVars, heapVars, exitVars>>

\* ... and spin until the child has set its bit.
SeeChildWaiting(t) ==
  /\ Goto(t, "spin", "java")
  /\ bit[operand[t]]
  /\ operand' = [operand EXCEPT ![t] = None]
  /\ UNCHANGED <<state, table, bit, monitor_num, locks, gcVars, heapVars, exitVars>>

\* The last frame is popped: execute() returns to start(), or athrow leaves it
\* after dispatchUncaughtException. A thread that ends holds no monitor.
Return(t) ==
  /\ locks[t] = <<>>
  /\ Goto(t, "java", IF t = Main THEN "death" ELSE "dec")
  /\ UNCHANGED <<threadVars, gcVars, heapVars, exitVars>>

\* Mutant of UncountThread: the counter is not decremented.
EndCounted(t) ==
  /\ Goto(t, "dec", "death")
  /\ UNCHANGED <<threadVars, gcVars, heapVars, exitVars>>

\* A child: thread_num-- under num_lock, then state = Death.
UncountThread(t) ==
  /\ Goto(t, "dec", "death")
  /\ thread_num' = thread_num - 1
  /\ UNCHANGED <<threadVars, gcVars, heapVars, launcher>>

\* Mutant of Die: the state of an ended thread stays Running.
EndSilently(t) ==
  /\ Goto(t, "death", "done")
  /\ UNCHANGED <<threadVars, gcVars, heapVars, exitVars>>

Die(t) ==
  /\ Goto(t, "death", "done")
  /\ state' = [state EXCEPT ![t] = Death]
  /\ UNCHANGED <<table, bit, monitor_num, locks, operand, gcVars, heapVars, exitVars>>

-----------------------------------------------------------------------------
(* The GC thread: GC::gc_thread, detect_ready and system_gc.               *)

CreateGcCond ==
  /\ gcpc = "boot" /\ gcpc' = "wait"
  /\ gc_cond' = "unset"
  /\ UNCHANGED <<pc, threadVars, gc, inited, visited, heapVars, exitVars>>

\* gc_cond is an auto-reset event.
WaitGcCond ==
  /\ gcpc = "wait" /\ gcpc' = "detect"
  /\ gc_cond = "set" /\ gc_cond' = "unset"
  /\ UNCHANGED <<pc, threadVars, gc, inited, visited, heapVars, exitVars>>

\* One iteration of detect_ready: it reads the threads' states one by one, in
\* the order of a hash table, and gives up at the first that is not ready.
BeginScan ==
  /\ gcpc = "detect" /\ gcpc' = "scan"
  /\ visited' = {}
  /\ UNCHANGED <<pc, threadVars, gc, inited, gc_cond, heapVars, exitVars>>

SeeReady(t) ==
  /\ gcpc = "scan"
  /\ t \in table \ visited
  /\ state[t] \in {Waiting, Death}
  /\ visited' = visited \cup {t}
  /\ UNCHANGED <<pc, threadVars, gc, inited, gc_cond, gcpc, heapVars, exitVars>>

SeeNotReady(t) ==
  /\ gcpc = "scan" /\ gcpc' = "detect"
  /\ t \in table \ visited
  /\ state[t] = Running
  /\ UNCHANGED <<pc, threadVars, gc, inited, gc_cond, visited, heapVars, exitVars>>

AllReady ==
  /\ gcpc = "scan" /\ gcpc' = "collect"
  /\ visited = table
  /\ visited' = {}
  /\ UNCHANGED <<pc, threadVars, gc, inited, gc_cond, heapVars, exitVars>>

\* system_gc copies what a thread's arg and frames reach, and redirects them.
\* A frame that is built but not pushed is not found.
CopyRoots(t) ==
  /\ gcpc = "collect"
  /\ t \in VmThreads \ visited
  /\ visited' = visited \cup {t}
  /\ arg' = [arg EXCEPT ![t] = pool + 1]
  /\ frame' = IF pc[t] = "pushing" THEN frame ELSE [frame EXCEPT ![t] = pool + 1]
  /\ UNCHANGED <<pc, threadVars, gc, inited, gc_cond, gcpc, pool, exitVars>>

\* Mutant of EndGc: the gc bit is left set.
LeaveGcSet ==
  /\ gcpc = "collect" /\ gcpc' = "wait"
  /\ VmThreads \subseteq visited
  /\ pool' = pool + 1
  /\ visited' = {}
  /\ UNCHANGED <<pc, threadVars, gc, inited, gc_cond, arg, frame, exitVars>>

\* The old objects are deleted, the pools swapped, gc cleared without a lock.
EndGc ==
  /\ gcpc = "collect" /\ gcpc' = "wait"
  /\ VmThreads \subseteq visited
  /\ pool' = pool + 1
  /\ gc' = FALSE
  /\ visited' = {}
  /\ UNCHANGED <<pc, threadVars, inited, gc_cond, arg, frame, exitVars>>

-----------------------------------------------------------------------------
(* The launcher: the rest of vm_thread::launch after _beginthreadex.       *)

LauncherGoto(from, to) == launcher = from /\ launcher' = to

JoinMain ==
  /\ pc[Main] = "done"
  /\ LauncherGoto("join", "patch")
  /\ UNCHANGED <<pc, threadVars, gcVars, heapVars, thread_num>>

\* signal_all_patch leaves its loop only when no collection is pending.
SignalAllPatch ==
  /\ GcLockFree
  /\ ~gc
  /\ LauncherGoto("patch", "spin")
  /\ UNCHANGED <<pc, threadVars, gcVars, heapVars, thread_num>>

\* Mutant of SeeNoThreads: the launcher does not wait for the children.
IgnoreThreads ==
  /\ LauncherGoto("spin", "cancel")
  /\ UNCHANGED <<pc, threadVars, gcVars, heapVars, thread_num>>

SeeNoThreads ==
  /\ thread_num = 0
  /\ LauncherGoto("spin", "cancel")
  /\ UNCHANGED <<pc, threadVars, gcVars, heapVars, thread_num>>

CancelGcThread ==
  /\ GcLockFree
  /\ ~gc
  /\ LauncherGoto("cancel", "end")
  /\ gcpc' = "terminated"
  /\ UNCHANGED <<pc, threadVars, gc, inited, gc_cond, visited, heapVars, thread_num>>

\* automan_jvm::end frees classes, constant pools and every object.
End ==
  /\ LauncherGoto("end", "over")
  /\ UNCHANGED <<pc, threadVars, gcVars, heapVars, thread_num>>

\* The process has exited.
Exited == launcher = "over" /\ UNCHANGED vars

-----------------------------------------------------------------------------
\* Steps the virtual machine takes on its own, whatever the Java program does.
VmStep(t) ==
  \/ Register(t) \/ SetBit(t) \/ FirstWait(t) \/ FirstWaitReturns(t)
  \/ BuildFrame(t) \/ PushFrame(t)
  \/ CheckTrigger(t) \/ InitGc(t) \/ SetInited(t) \/ PollSafepoint(t)
  \/ Park(t) \/ SeeGcOver(t) \/ Unpark(t)
  \/ LeaveMonitor(t)
  \/ CountThread(t) \/ LaunchThread(t) \/ SeeChildWaiting(t)
  \/ UncountThread(t) \/ Die(t)

\* Steps the Java program chooses.
JavaStep(t) ==
  \/ CallMethod(t)
  \/ \E m \in Monitors : MonitorInc(t, m)
  \/ MonitorDec(t)
  \/ \E c \in Children : StartThread(t, c)
  \/ Return(t)

GcStep ==
  \/ CreateGcCond \/ WaitGcCond \/ BeginScan \/ AllReady \/ EndGc
  \/ \E t \in Threads : SeeReady(t) \/ SeeNotReady(t) \/ CopyRoots(t)

LauncherStep ==
  JoinMain \/ SignalAllPatch \/ SeeNoThreads \/ CancelGcThread \/ End

Next ==
  \/ \E t \in Threads : VmStep(t) \/ EnterMonitor(t) \/ JavaStep(t)
  \/ GcStep
  \/ LauncherStep
  \/ Exited

Spec == Init /\ [][Next]_vars

-----------------------------------------------------------------------------
(* Fairness.                                                               *)

\* The scheduler runs every thread, and a lock that is released again and again
\* is acquired in the end: the GC thread takes gc_lock and the table's lock in
\* every iteration of its scan, other Java threads the monitors.
SchedulerFairness ==
  /\ \A t \in Threads : SF_vars(VmStep(t) \/ EnterMonitor(t))
  /\ WF_vars(GcStep)
  /\ WF_vars(LauncherStep)

\* What is asked of the Java program: monitors that can be released are, and no
\* thread runs for ever without calling a method or returning.
ProgramFairness ==
  /\ SF_vars(\E t \in Threads : MonitorDec(t))
  /\ \A t \in Threads : SF_vars(locks[t] = <<>> /\ (CallMethod(t) \/ Return(t)))

FairSpec == Spec /\ SchedulerFairness /\ ProgramFairness

-----------------------------------------------------------------------------
(* Properties.                                                             *)

TypeOK ==
  /\ pc \in [Threads -> ThreadPcs]
  /\ state \in [Threads -> {Running, Waiting, Death}]
  /\ table \subseteq Threads
  /\ bit \in [Threads -> BOOLEAN]
  /\ monitor_num \in [Threads -> Nat]
  /\ locks \in [Threads -> Seq(Monitors)]
  /\ operand \in [Threads -> Children \cup Monitors \cup {None}]
  /\ gc \in BOOLEAN
  /\ inited \in BOOLEAN
  /\ gc_cond \in {"null", "unset", "set"}
  /\ gcpc \in GcPcs
  /\ visited \subseteq Threads
  /\ thread_num \in Nat
  /\ launcher \in LauncherPcs
  /\ pool \in Nat
  /\ arg \in [Threads -> Nat]
  /\ frame \in [Threads -> Nat]

Collecting == gcpc = "collect"

\* While system_gc moves objects, no thread executes bytecode or a native: each
\* is parked at a safepoint, has ended, or has not begun its first method.
NoJavaWhileCollecting == Collecting => \A t \in Threads : pc[t] \notin JavaPcs

\* While system_gc moves objects, no monitor is owned, nor counted on the way in
\* or out: the copy of an object gets a new Monitor, so ownership would be lost.
NoMonitorWhileCollecting ==
  Collecting => \A t \in Threads : locks[t] = <<>> /\ monitor_num[t] = 0

\* While system_gc walks automan_jvm::threads() unlocked, every element of it is
\* registered in ThreadTable: no start0 is half way, so none is being added.
NoHalfStartedThread == Collecting => VmThreads = table

\* At most one collection in the life of the process. wait_cur_thread relies on
\* it: it leaves its loop and only then stops being Waiting.
OneCollection == pool = 0 \/ (pool = 1 /\ ~gc)

\* automan_jvm::end frees everything only after the last instruction of the last
\* Java thread, with no collection pending and the GC thread gone.
EndIsQuiet ==
  launcher \in {"end", "over"} =>
    /\ ~gc /\ gcpc = "terminated"
    /\ \A t \in Threads : pc[t] \in {"unborn", "death", "done"}

\* The promise of StopTheWorld, with "executing Java code" read off pc.
World == INSTANCE StopTheWorld WITH
  java      <- {t \in Threads : pc[t] \in JavaPcs},
  collector <- IF Collecting THEN "collecting" ELSE IF pool > 0 THEN "done" ELSE "idle",
  ended     <- launcher \in {"end", "over"}

\* Safepoints, the one collection and the exit implement StopTheWorld.
ImplementsStopTheWorld == World!Spec

\* Stated by scapegoat's comment: a child stops first "because of gc's race". No
\* thread executes Java code on references into objects that were deleted.
NoStaleReference ==
  \A t \in Threads : pc[t] = "java" => frame[t] = pool

\* A collection whose request reached the GC thread is carried out.
RequestServed == (gc /\ gc_cond = "set") ~> ~gc

\* Stated by init_gc's comment "signal gc thread": the request is never lost.
EveryRequestServed == gc ~> ~gc

\* A thread stopped at a safepoint runs again, and Thread.start returns: neither
\* wait_cur_thread's loop nor JVM_StartThread's spins for ever.
WaitsEnd ==
  \A t \in Threads : (pc[t] \in {"park", "spin"}) ~> (pc[t] = "java")

\* When every thread has ended, the launcher ends the process.
ProcessEnds ==
  (\A t \in VmThreads : pc[t] = "done") ~> (launcher = "over")

-----------------------------------------------------------------------------
(* The inductive invariant behind the safety properties.                   *)

\* vm_thread::state and membership of ThreadTable, as functions of pc.
StateOfPc(p) ==
  IF p \in {"waited", "parked", "unpark"} THEN Waiting
  ELSE IF p = "done" THEN Death ELSE Running

StateInv ==
  \A t \in Threads :
    /\ state[t] = StateOfPc(pc[t])
    /\ t \in table <=> pc[t] \notin {"unborn", "pushed", "created"}
    /\ bit[t] => t \in table

\* monitor_num runs ahead of the monitors owned while entering and while leaving,
\* and is zero wherever a thread starts, parks or ends.
MonitorInv ==
  \A t \in Threads :
    /\ pc[t] = "enter" => monitor_num[t] = Len(locks[t]) + 1 /\ operand[t] \in Monitors
    /\ pc[t] = "leave" => monitor_num[t] + 1 = Len(locks[t])
    /\ pc[t] \notin {"enter", "leave"} => monitor_num[t] = Len(locks[t])
    /\ pc[t] \in {"unborn", "pushed", "park", "parked", "unpark"} \cup StartPcs \cup ExitPcs
         => locks[t] = <<>>

\* A parent inside start0 names a child at the matching stage of its start.
StarterInv ==
  \A t \in Threads :
    /\ pc[t] \in {"count", "launch"} => operand[t] \in Children /\ pc[operand[t]] = "pushed"
    /\ pc[t] = "spin" =>
         operand[t] \in Children /\ pc[operand[t]] \notin {"unborn", "pushed"}

\* No two parents start the same child.
OneStarterInv ==
  \A t, u \in Threads :
    /\ pc[t] \in {"count", "launch"} /\ pc[u] \in {"count", "launch"}
    /\ operand[t] = operand[u]
    => t = u

\* A child that is not registered yet has a parent that is still inside start0.
HasStarterInv ==
  \A c \in Children :
    /\ pc[c] = "pushed" =>
         \E u \in Threads : pc[u] \in {"count", "launch"} /\ operand[u] = c
    /\ pc[c] = "created" =>
         \E u \in Threads : pc[u] = "spin" /\ operand[u] = c

\* Main is nobody's child, and nothing happens before it is registered.
MainInv ==
  /\ pc[Main] \notin {"unborn", "pushed", "dec"} \cup (StartPcs \ {"created"})
  /\ pc[Main] = "created" =>
       ~gc /\ ~inited /\ \A c \in Children : pc[c] = "unborn"

ParentInv == StarterInv /\ OneStarterInv /\ HasStarterInv /\ MainInv

\* One request, by the one thread inside init_lock; gc stays set until the single
\* collection ends.
RequestInv ==
  /\ \A t, u \in Threads :
       pc[t] \in {"trigger", "triggered"} /\ pc[u] \in {"trigger", "triggered"} => t = u
  /\ \A t \in Threads :
       /\ pc[t] # "refused"
       /\ pc[t] = "trigger" => ~gc /\ ~inited
       /\ pc[t] = "triggered" => gc /\ ~inited
       /\ pc[t] \in {"park", "parked"} => gc \/ pool = 1
       /\ pc[t] = "unpark" => pool = 1
  /\ gc => inited \/ \E t \in Threads : pc[t] = "triggered"
  /\ ~inited => pool = 0
  /\ inited => gc \/ pool = 1
  /\ OneCollection
  /\ gc_cond = "set" => gc /\ gcpc = "wait"
  /\ gcpc = "boot" => gc_cond = "null"
  /\ gcpc \in {"detect", "scan", "collect"} => gc

\* A thread the scan has found ready executes no Java code while gc is set: it is
\* parked or dead, or a newborn on its way to its first safepoint.
Quiet(t) ==
  /\ pc[t] \in {"waited", "begin", "pushing", "entry", "safepoint", "park", "parked", "done"}
  /\ locks[t] = <<>>

ScanInv ==
  /\ gcpc = "scan" => visited \subseteq table /\ \A t \in visited : Quiet(t)
  /\ gcpc = "collect" => \A t \in Threads : Quiet(t) \/ pc[t] = "unborn"

\* The children thread_num stands for.
CountedPcs == StartPcs \cup ProloguePcs \cup JavaPcs \cup {"dec"}

Announced(c) == \E t \in Threads : pc[t] = "launch" /\ operand[t] = c

Counted ==
  {c \in Children : pc[c] \in CountedPcs \/ (pc[c] = "pushed" /\ Announced(c))}

CountInv == thread_num = Cardinality(Counted)

\* The launcher passes each stage only when the threads it waits for are over.
LauncherInv ==
  /\ launcher # "join" => pc[Main] = "done"
  /\ launcher \in {"cancel", "end", "over"} =>
       \A c \in Children : pc[c] \in {"unborn", "death", "done"}
  /\ launcher \in {"end", "over"} => ~gc
  /\ launcher \in {"end", "over"} <=> gcpc = "terminated"

ExitInv == CountInv /\ LauncherInv

\* The inductive invariant: every safety property of this module follows from it.
IInv ==
  TypeOK /\ StateInv /\ MonitorInv /\ ParentInv /\ RequestInv /\ ScanInv /\ ExitInv
=============================================================================
