---------------------------- MODULE ObjectMonitor ----------------------------
(***************************************************************************)
(* The Monitor inside an object: a recursive mutex and an auto-reset       *)
(* event. Object.wait(long) and Object.notifyAll are natives on it;        *)
(* Object.notify is an assertion and ends the process.                     *)
(*                                                                         *)
(* wait neither releases the mutex nor tests who owns it, and hands its    *)
(* argument, unchecked, on to WaitForSingleObject, whose DWORD 0 means "do *)
(* not wait" and whose greatest DWORD means "without limit".               *)
(* The programs modelled own an object when they wait or notify, as Java   *)
(* demands.                                                                *)
(***************************************************************************)
EXTENDS Integers, FiniteSets

CONSTANTS
  Threads,
  None,        \* no owner; no timeout
  Timeouts,    \* the arguments of wait(long), negative ones too; Object.wait() passes 0
  Dword,       \* how many values a DWORD has
  MaxEntries   \* bound: re-entries

MonitorAssumption ==
  /\ None \notin Threads \cup Timeouts /\ MaxEntries \in Nat
  /\ Timeouts \subseteq Int /\ Dword \in Nat \ {0, 1}

VARIABLES
  owner, entries,  \* _mutex
  signalled,       \* _cond
  waiting          \* the argument of wait a thread waits with, or None

vars == <<owner, entries, signalled, waiting>>

Runs(t) == waiting[t] = None

Enter(t) ==
  /\ Runs(t) /\ owner \in {None, t} /\ entries < MaxEntries
  /\ owner' = t /\ entries' = entries + 1
  /\ UNCHANGED <<signalled, waiting>>

Leave(t) ==
  /\ Runs(t) /\ owner = t
  /\ entries' = entries - 1
  /\ owner' = IF entries = 1 THEN None ELSE t
  /\ UNCHANGED <<signalled, waiting>>

\* WaitForSingleObject's INFINITE.
Infinite == Dword - 1

\* Mutant of Timeout: wait(0) waits without limit, the mutex still held.
TimeoutAsInJava(ms) == IF ms = 0 THEN Infinite ELSE ms % Dword

\* The long becomes a DWORD: -1, and every number whose low bits are all ones, is INFINITE.
Timeout(ms) == ms % Dword

\* Mutant of Wait: the mutex is released, and not taken again.
WaitReleasing(t) ==
  /\ Runs(t) /\ owner = t
  /\ \E ms \in Timeouts : waiting' = [waiting EXCEPT ![t] = ms]
  /\ owner' = None /\ entries' = 0
  /\ UNCHANGED signalled

Wait(t) ==
  /\ Runs(t) /\ owner = t
  /\ \E ms \in Timeouts : waiting' = [waiting EXCEPT ![t] = ms]
  /\ UNCHANGED <<owner, entries, signalled>>

\* The wait ends by the event, which it resets, or when its time is over.
WaitReturns(t) ==
  /\ ~Runs(t) /\ (signalled \/ Timeout(waiting[t]) # Infinite)
  /\ waiting' = [waiting EXCEPT ![t] = None]
  /\ signalled' = FALSE
  /\ UNCHANGED <<owner, entries>>

\* notify_all sets the event: it lets one thread go.
NotifyAll(t) ==
  /\ Runs(t) /\ owner = t
  /\ signalled' = TRUE
  /\ UNCHANGED <<owner, entries, waiting>>

Init ==
  /\ owner = None /\ entries = 0 /\ signalled = FALSE
  /\ waiting = [t \in Threads |-> None]

Next == \E t \in Threads : Enter(t) \/ Leave(t) \/ Wait(t) \/ WaitReturns(t) \/ NotifyAll(t)

Spec == Init /\ [][Next]_vars

-----------------------------------------------------------------------------
TypeOK ==
  /\ owner \in Threads \cup {None} /\ entries \in 0 .. MaxEntries
  /\ (owner = None) = (entries = 0)
  /\ signalled \in BOOLEAN
  /\ waiting \in [Threads -> Timeouts \cup {None}]

\* One thread waits at a time, because the mutex stays with it. So it does no harm that
\* notify_all sets an auto-reset event, which lets only one thread go.
OneWaits == Cardinality({t \in Threads : ~Runs(t)}) <= 1

\* The numbers a DWORD has, but the greatest: Java accepts them all.
Ordinary == 0 .. Dword - 2

\* No thread waits for a notification that cannot come: the mutex stays with the waiter, so
\* its wait must end by itself. This rests on wait(0) not being Java's wait without limit. It
\* fails for wait(-1), where Java throws, and for a wait of 2^32 - 1 milliseconds: the wait is
\* without limit, and whoever could end it waits for the mutex.
WaitersNeedNobody ==
  \A t \in Threads : ~Runs(t) /\ ~signalled =>
    LET others == {u \in Threads \ {t} : Runs(u) /\ owner \in {None, u}}
    IN /\ waiting[t] \in Ordinary => Timeout(waiting[t]) # Infinite \/ others # {}
       /\ Timeout(waiting[t]) = Infinite => others = {}

\* The inductive invariant: who waits owns the mutex.
IInv ==
  /\ TypeOK
  /\ \A t \in Threads : ~Runs(t) => owner = t
=============================================================================
