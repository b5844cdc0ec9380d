------------------------------ MODULE Shutdown ------------------------------
(***************************************************************************)
(* The ways the process ends: the launcher after Main and the last child,  *)
(* and main_thread_exception, called by System.exit (halt0) in any thread, *)
(* by Main for an uncaught exception, and by SIGINT_handler, which Windows *)
(* runs in a thread of its own after it has used the gc bit to stop the    *)
(* Java threads. There is no collection here: module Safepoint has it, and *)
(* the single statements of parking and of thread ends.                    *)
(*                                                                         *)
(* main_thread_exception walks automan_jvm::threads() under                *)
(* automan_jvm::lock(). It is meant to wait for each thread that is alive, *)
(* but opens the handle of the thread it runs in: it then waits for ever.  *)
(***************************************************************************)
EXTENDS Naturals, Sequences, FiniteSets

CONSTANTS
  Main, Children,   \* the Java threads
  Console,          \* the thread that runs SIGINT_handler
  Launcher,         \* the thread that called automan_jvm::run()
  None              \* no owner of a lock

JavaThreads == {Main} \cup Children
Enders == JavaThreads \cup {Console, Launcher}

ShutdownAssumption ==
  /\ IsFiniteSet(Children) /\ Main \notin Children /\ None \notin Enders
  /\ Console \notin JavaThreads /\ Launcher \notin JavaThreads \cup {Console}

VARIABLES
  at,          \* where each actor is
  state,       \* vm_thread::state
  threads,     \* automan_jvm::threads()
  starting,    \* the child a thread is starting, or None
  thread_num,  \* automan_jvm::thread_num()
  gc,          \* GC::gc()
  lock,        \* the owner of automan_jvm::lock()
  seen         \* how many threads the walk of each ender has seen

vars == <<at, state, threads, starting, thread_num, gc, lock, seen>>

Goto(a, from, to) == at[a] = from /\ at' = [at EXCEPT ![a] = to]

LockFreeFor(a) == lock \in {None, a}

-----------------------------------------------------------------------------
(* Java threads.                                                            *)

\* A safepoint: the thread is Waiting while gc is set.
Park(t) == gc /\ Goto(t, "java", "parked") /\ state' = [state EXCEPT ![t] = "Waiting"]
           /\ UNCHANGED <<threads, thread_num, gc, lock, seen, starting>>
Unpark(t) == ~gc /\ Goto(t, "parked", "java") /\ state' = [state EXCEPT ![t] = "Running"]
             /\ UNCHANGED <<threads, thread_num, gc, lock, seen, starting>>

\* JVM_StartThread: under the lock the child enters the list ...
Push(t, c) ==
  /\ at[t] = "java" /\ at[c] = "unborn" /\ LockFreeFor(t)
  /\ at' = [at EXCEPT ![t] = "pushed", ![c] = "pushing"]
  /\ threads' = Append(threads, c) /\ starting' = [starting EXCEPT ![t] = c]
  /\ UNCHANGED <<state, thread_num, gc, lock, seen>>

\* ... then it is counted and launched.
Launch(t, c) ==
  /\ at[t] = "pushed" /\ starting[t] = c
  /\ at' = [at EXCEPT ![t] = "java", ![c] = "java"]
  /\ thread_num' = thread_num + 1 /\ starting' = [starting EXCEPT ![t] = None]
  /\ UNCHANGED <<state, threads, gc, lock, seen>>

\* The end of vm_thread::start: a child is uncounted, then the thread is Death.
Return(t) ==
  /\ Goto(t, "java", "dying")
  /\ thread_num' = IF t = Main THEN thread_num ELSE thread_num - 1
  /\ UNCHANGED <<state, threads, gc, lock, seen, starting>>

Die(t) == Goto(t, "dying", "dead") /\ state' = [state EXCEPT ![t] = "Death"]
          /\ UNCHANGED <<threads, thread_num, gc, lock, seen, starting>>

\* Mutant of Halt: a child that calls System.exit is uncounted first.
HaltUncounted(t) ==
  /\ Goto(t, "java", "lock")
  /\ thread_num' = IF t = Main THEN thread_num ELSE thread_num - 1
  /\ UNCHANGED <<state, threads, gc, lock, seen, starting>>

\* halt0, or athrow in Main's last frame.
Halt(t) == Goto(t, "java", "lock") /\ UNCHANGED <<state, threads, thread_num, gc, lock, seen, starting>>

-----------------------------------------------------------------------------
(* SIGINT_handler: the test of gc and its assignment hold gc_lock each, the   *)
(* reset holds nothing.                                                       *)

Signal ==
  /\ ~gc /\ Goto(Console, "idle", "set")
  /\ UNCHANGED <<state, threads, thread_num, gc, lock, seen, starting>>

SetGc ==
  /\ Goto(Console, "set", "detect") /\ gc' = TRUE
  /\ UNCHANGED <<state, threads, thread_num, lock, seen, starting>>

\* detect_ready returns when it has found every registered thread stopped.
DetectReady ==
  /\ \A t \in JavaThreads : state[t] \in {"Waiting", "Death"} \/ at[t] \in {"unborn", "pushing"}
  /\ Goto(Console, "detect", "lock") /\ gc' = FALSE
  /\ UNCHANGED <<state, threads, thread_num, lock, seen, starting>>

-----------------------------------------------------------------------------
(* main_thread_exception.                                                   *)

Lock(a) ==
  /\ LockFreeFor(a) /\ Goto(a, "lock", "walk") /\ lock' = a
  /\ UNCHANGED <<state, threads, thread_num, gc, seen, starting>>

InWalk(a) == at[a] = "walk" /\ seen[a] < Len(threads)
Visited(a) == threads[seen[a] + 1]

\* Mutant of Ignored: a thread at a safepoint counts as ended.
IgnoredOrStopped(t) == state[t] # "Running"

\* A thread that has ended is passed, any other is waited for.
Ignored(t) == state[t] = "Death"

PassDead(a) ==
  /\ InWalk(a) /\ Ignored(Visited(a))
  /\ seen' = [seen EXCEPT ![a] = @ + 1]
  /\ UNCHANGED <<at, state, threads, thread_num, gc, lock, starting>>

PassSelf(a) ==
  /\ InWalk(a) /\ ~Ignored(Visited(a)) /\ Visited(a) = a
  /\ seen' = [seen EXCEPT ![a] = @ + 1] /\ state' = [state EXCEPT ![a] = "Death"]
  /\ UNCHANGED <<at, threads, thread_num, gc, lock, starting>>

\* A wait for the calling thread's own end, the lock held.
Hang(a) ==
  /\ InWalk(a) /\ ~Ignored(Visited(a)) /\ Visited(a) # a
  /\ at' = [at EXCEPT ![a] = "hung"]
  /\ UNCHANGED <<state, threads, thread_num, gc, lock, seen, starting>>

Unlock(a) ==
  /\ seen[a] = Len(threads) /\ Goto(a, "walk", "cancel") /\ lock' = None
  /\ UNCHANGED <<state, threads, thread_num, gc, seen, starting>>

\* cancel_gc_thread waits until gc is reset; automan_jvm::end then frees everything.
End(a) == ~gc /\ Goto(a, "cancel", "end") /\ UNCHANGED <<state, threads, thread_num, gc, lock, seen, starting>>

-----------------------------------------------------------------------------
(* vm_thread::launch in the launcher: Main's handle, then thread_num; then End. *)

JoinMain == at[Main] = "dead" /\ Goto(Launcher, "join", "count")
            /\ UNCHANGED <<state, threads, thread_num, gc, lock, seen, starting>>
SeeNoThreads == thread_num = 0 /\ Goto(Launcher, "count", "cancel")
                /\ UNCHANGED <<state, threads, thread_num, gc, lock, seen, starting>>

Init ==
  /\ at = [a \in Enders |-> CASE a = Main -> "java" [] a = Console -> "idle"
                              [] a = Launcher -> "join" [] OTHER -> "unborn"]
  /\ state = [t \in JavaThreads |-> "Running"] /\ threads = <<Main>> /\ thread_num = 0
  /\ starting = [t \in JavaThreads |-> None]
  /\ gc = FALSE /\ lock = None /\ seen = [a \in Enders |-> 0]

Next ==
  \/ \E t \in JavaThreads : Park(t) \/ Unpark(t) \/ Return(t) \/ Die(t) \/ Halt(t)
  \/ \E t \in JavaThreads, c \in Children : Push(t, c) \/ Launch(t, c)
  \/ Signal \/ SetGc \/ DetectReady
  \/ \E a \in JavaThreads \cup {Console} : Lock(a) \/ PassDead(a) \/ PassSelf(a) \/ Hang(a) \/ Unlock(a)
  \/ JoinMain \/ SeeNoThreads
  \/ \E a \in Enders : End(a)

Spec == Init /\ [][Next]_vars

-----------------------------------------------------------------------------
Places == {"unborn", "pushing", "java", "parked", "pushed", "dying", "dead", "idle", "set",
           "detect", "lock", "walk", "hung", "join", "count", "cancel", "end"}

TypeOK ==
  /\ at \in [Enders -> Places]
  /\ \A t \in JavaThreads : at[t] \notin {"idle", "set", "detect", "join", "count"}
  /\ state \in [JavaThreads -> {"Running", "Waiting", "Death"}]
  /\ threads \in Seq(JavaThreads) /\ starting \in [JavaThreads -> Children \cup {None}]
  /\ thread_num \in 0 .. Cardinality(Children) /\ gc \in BOOLEAN
  /\ lock \in Enders \cup {None}
  /\ seen \in [Enders -> 0 .. Cardinality(JavaThreads)]

\* Whoever frees everything, no thread executes Java code or is about to: neither one that
\* was being started during the walk, nor one that the signal had stopped.
EndIsAlone ==
  \A a \in Enders : at[a] = "end" =>
    \A t \in JavaThreads : at[t] \in {"unborn", "dying", "dead", "cancel", "end"}

\* Everything is freed once: of System.exit, an uncaught exception and the launcher one
\* comes to the end. Only SIGINT_handler may come there besides another.
EndsOnce == Cardinality({a \in Enders \ {Console} : at[a] = "end"}) <= 1

-----------------------------------------------------------------------------
(* The inductive invariant behind EndIsAlone and EndsOnce.                  *)

Walked == {"walk", "hung", "cancel", "end"}

\* The list holds each thread that has been pushed, once; one that has not been launched yet
\* is being started by one other.
ListInv ==
  /\ \A t \in JavaThreads : at[t] # "unborn" <=> \E i \in 1 .. Len(threads) : threads[i] = t
  /\ \A i, j \in 1 .. Len(threads) : threads[i] = threads[j] => i = j
  /\ \A c \in Children : at[c] = "pushing" => \E t \in JavaThreads : at[t] = "pushed" /\ starting[t] = c
  /\ \A t \in JavaThreads : at[t] = "pushed" =>
       /\ starting[t] \in Children /\ at[starting[t]] = "pushing"
       /\ \A u \in JavaThreads : at[u] = "pushed" /\ starting[u] = starting[t] => u = t

\* Who walks holds the lock and has found ended all that it has passed; a thread is Death
\* when it is dead or has found itself.
WalkInv ==
  /\ \A a \in Enders : at[a] \in {"walk", "hung"} => lock = a
  /\ \A a \in Enders : at[a] \notin Walked => seen[a] = 0
  /\ \A a \in Enders : seen[a] <= Len(threads)
  /\ \A a \in Enders : at[a] = "walk" => \A i \in 1 .. seen[a] : state[threads[i]] = "Death"
  /\ \A t \in JavaThreads : state[t] = "Death" => at[t] \in {"dead"} \cup Walked

\* The children that have been launched and have not returned.
Live == {"java", "parked", "pushed", "lock"} \cup Walked
Counted == {c \in Children : at[c] \in Live}

\* Who is past its walk or its wait, and what it leaves of the others.
EndInv ==
  /\ at[Launcher] \in {"count", "cancel", "end"} => at[Main] = "dead"
  /\ at[Launcher] \in {"cancel", "end"} => \A t \in JavaThreads : at[t] \in {"unborn", "dying", "dead"}
  /\ at[Console] \in {"cancel", "end"} => \A t \in JavaThreads : at[t] \in {"unborn", "dead", "cancel", "end"}
  /\ \A a \in JavaThreads : at[a] \in {"cancel", "end"} =>
       \A t \in JavaThreads \ {a} : at[t] \in {"unborn", "dead"}

IInv == TypeOK /\ ListInv /\ WalkInv /\ thread_num = Cardinality(Counted) /\ EndInv
=============================================================================
