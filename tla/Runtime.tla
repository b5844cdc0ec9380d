------------------------------- MODULE Runtime -------------------------------
(* The models of the run-time system that are both checked and proved: loading, *)
(* linking, constant pools, collection, monitors and shutdown. One of them      *)
(* runs, the others stay in an initial state. Loading is extended, the others   *)
(* are instances.                                                               *)
EXTENDS ClassLoading

CONSTANTS
  Subjects,                                                   \* bound: what runs
  Null,
  Classes, Interfaces, Parent, Implements, ClassFiles,        \* Linking
  Mirror, NoClass, NoField, NoMethod, Wild, FieldNames, Values, Constant, Stores,
  Entries, MaxAsked,                                          \* ConstantPool
  Initial, Fields, Roots, Changes, Objects, Collections,      \* CopyGC
  Timeouts, Dword, MaxEntries,                                \* ObjectMonitor
  Main, Children, Console, Launcher                           \* Shutdown

VARIABLES subject,
  file, layout, total, owned, slots, statics, vtable, ready, object, java, stray, stores,  \* Linking
  pool, table, strings, real, reads, got, answers, poolFate, asked,                  \* ConstantPool
  heap, slot, handlers, phase, next, todo, map, before, made, changes, collections,  \* CopyGC
  owner, entries, signalled, waiting,                                                \* ObjectMonitor
  at, state, threads, starting, thread_num, gc, lock, seen                           \* Shutdown

L == INSTANCE Linking WITH Names <- FieldNames

Pool == INSTANCE ConstantPool WITH fate <- poolFate

GC == INSTANCE CopyGC

Mon == INSTANCE ObjectMonitor WITH None <- Null

Exit == INSTANCE Shutdown WITH None <- Null

lVars == <<file, layout, total, owned, slots, statics, vtable, ready, object, java, stray, stores>>
pVars == <<pool, table, strings, real, reads, got, answers, poolFate, asked>>
gVars == <<heap, slot, handlers, phase, next, todo, map, before, made, changes, collections>>
mVars == <<owner, entries, signalled, waiting>>
sVars == <<at, state, threads, starting, thread_num, gc, lock, seen>>

ASSUME RuntimeAssumption ==
  /\ LoadingAssumption /\ L!LinkingAssumption /\ Pool!PoolAssumption
  /\ GC!HeapAssumption /\ Mon!MonitorAssumption /\ Exit!ShutdownAssumption

\* The graph at the start matters to the collector only.
RuntimeInit ==
  /\ subject \in Subjects
  /\ GC!Init
  /\ subject # "gc" => /\ slot = [r \in GC!RootSet |-> Null]
                       /\ \A o \in DOMAIN heap : \A j \in 1 .. Len(heap[o].fields) : heap[o].fields[j] = Null
  /\ Init /\ L!Init /\ Pool!Init /\ Mon!Init /\ Exit!Init

RuntimeNext ==
  \/ subject = "loading" /\ Next /\ UNCHANGED <<subject, lVars, pVars, gVars, mVars, sVars>>
  \/ subject = "linking" /\ L!Next /\ UNCHANGED <<subject, vars, pVars, gVars, mVars, sVars>>
  \/ subject = "pool" /\ Pool!Next /\ UNCHANGED <<subject, vars, lVars, gVars, mVars, sVars>>
  \/ subject = "gc" /\ GC!Next /\ UNCHANGED <<subject, vars, lVars, pVars, mVars, sVars>>
  \/ subject = "monitor" /\ Mon!Next /\ UNCHANGED <<subject, vars, lVars, pVars, gVars, sVars>>
  \/ subject = "shutdown" /\ Exit!Next /\ UNCHANGED <<subject, vars, lVars, pVars, gVars, mVars>>

runtimeVars == <<subject, vars, lVars, pVars, gVars, mVars, sVars>>

RuntimeSpec == RuntimeInit /\ [][RuntimeNext]_runtimeVars

-----------------------------------------------------------------------------
\* The states are of their types; more, the inductive invariants of the six modules hold.
StatesOK == IInv /\ L!IInv /\ Pool!IInv /\ GC!IInv /\ Mon!IInv /\ Exit!IInv

\* Two fields of an object never share a place; a reference finds the field Java's resolution
\* finds; what is stored by field, by Unsafe or by the preparation of finals is read where
\* Java says, but for stores of Unsafe to static fields, which reach the mirror or the static
\* fields of java/lang/Class; reflection lists a class's own members
\* (InstanceKlass::parse_fields, get_field).
FieldsAreJavas ==
  /\ L!FieldsHaveTheirPlaces /\ L!FieldsResolveAsInJava
  /\ L!LocationsHoldJavasValues /\ L!OnlyStaticsGoAstray /\ L!ReflectsOwnMembers

\* invokevirtual selects through the vtable, and invokeinterface by its search, what Java
\* selects (InstanceKlass::parse_methods, get_class_method, get_interface_method).
CallsAreJavas == L!VirtualCallsAreJavas /\ L!InterfaceCallsAreJavas

\* What a thread reads of the constant pool is what the entry stands for, races included;
\* equal string constants are one String; a call of MethodHandle.invoke is made with the
\* descriptor of its own call site (rt_constant_pool, java_lang_string::intern).
PoolAnswersAreRight == Pool!AnswersAreRight /\ Pool!StringsAreOne /\ Pool!SitesUseTheirDescriptor

\* A collection keeps what the roots lead to, sharing and cycles included, frees all the rest
\* and enters every copy into the handler pool (GC::system_gc).
CollectionIsACopy == GC!SameGraph /\ GC!GarbageIsFreed

\* One thread waits for an object at a time, so an auto-reset event does; Object.wait ends
\* although its mutex keeps notifiers out, but for wait(-1) and the longest wait, which never
\* end (JVM_MonitorWait, Monitor::notify_all).
WaitersNeedNobody == Mon!OneWaits /\ Mon!WaitersNeedNobody

\* When everything is freed nobody executes Java code, and it is freed once, signals aside
\* (main_thread_exception, SIGINT_handler, vm_thread::launch).
EndIsAlone == Exit!EndIsAlone /\ Exit!EndsOnce
=============================================================================
