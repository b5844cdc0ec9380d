--------------------------- MODULE SafepointProofs ---------------------------
(***************************************************************************)
(* Proofs about Safepoint, for every set of children and monitors.         *)
(*                                                                         *)
(* IInv is inductive (Initially, Inductive); the type invariant and the    *)
(* safety invariants follow from it (Safety), and so does the refinement   *)
(* of StopTheWorld. Each lemma ...Step below carries one conjunct of IInv  *)
(* over a step. The steps of the GC thread and of the launcher leave the   *)
(* Java threads alone, so most lemmas treat them together.                 *)
(***************************************************************************)
EXTENDS Safepoint, TLAPS, FiniteSetTheorems, SequenceTheorems

USE DEF Goto, LauncherGoto, threadVars, gcVars, heapVars, exitVars, Threads,
        Running, Waiting, Death

-----------------------------------------------------------------------------
(* Two actions change pc at two threads; what they do, thread by thread.   *)

TwoPcsChange(t, p, c, q) ==
  /\ pc' \in [Threads -> ThreadPcs]
  /\ t # c /\ pc'[t] = p /\ pc'[c] = q
  /\ \A u \in Threads \ {t, c} : pc'[u] = pc[u]

\* Thread.start0's first step, thread by thread: the parent counts, the child is pushed.
LEMMA StartEffect ==
  ASSUME TypeOK, NEW t \in Threads, NEW c \in Children, StartThread(t, c)
  PROVE  TwoPcsChange(t, "count", c, "pushed") /\ pc[t] = "java" /\ pc[c] = "unborn"
  BY DEF StartThread, TypeOK, ThreadPcs, JavaPcs, TwoPcsChange

\* launch(), thread by thread: the parent spins, the child is created.
LEMMA LaunchEffect ==
  ASSUME TypeOK, StarterInv, NEW t \in Threads, LaunchThread(t)
  PROVE  /\ operand[t] \in Children /\ pc[t] = "launch" /\ pc[operand[t]] = "pushed"
         /\ TwoPcsChange(t, "spin", operand[t], "created")
<1>1. operand[t] \in Children /\ pc[t] = "launch" /\ pc[operand[t]] = "pushed"
  BY DEF LaunchThread, StarterInv
<1>2. pc' = [pc EXCEPT ![t] = "spin", ![operand[t]] = "created"]
  BY DEF LaunchThread
<1>3. "spin" \in ThreadPcs /\ "created" \in ThreadPcs
  BY DEF ThreadPcs, JavaPcs, StartPcs
<1> QED
  BY <1>1, <1>2, <1>3 DEF TypeOK, TwoPcsChange

-----------------------------------------------------------------------------
(* What every thread counts for.                                           *)

\* thread_num is the size of a finite set: decrementing it stays in Nat.
LEMMA CountedFinite == IsFiniteSet(Counted)
  BY ConstantsAssumption, FS_Subset DEF Counted

\* Every step keeps every variable in its type.
LEMMA TypeStep == IInv /\ [Next]_vars => TypeOK'
<1> SUFFICES ASSUME IInv, [Next]_vars PROVE TypeOK'
  OBVIOUS
<1> USE DEF IInv, TypeOK, ThreadPcs, StartPcs, ProloguePcs, JavaPcs, ExitPcs
<1>1. ASSUME NEW t \in Threads, Register(t) PROVE TypeOK'
  BY <1>1 DEF Register
<1>2. ASSUME NEW t \in Threads, SetBit(t) PROVE TypeOK'
  BY <1>2 DEF SetBit
<1>3. ASSUME NEW t \in Threads, FirstWait(t) PROVE TypeOK'
  BY <1>3 DEF FirstWait
<1>4. ASSUME NEW t \in Threads, FirstWaitReturns(t) PROVE TypeOK'
  BY <1>4 DEF FirstWaitReturns
<1>5. ASSUME NEW t \in Threads, BuildFrame(t) PROVE TypeOK'
  BY <1>5 DEF BuildFrame
<1>6. ASSUME NEW t \in Threads, PushFrame(t) PROVE TypeOK'
  BY <1>6 DEF PushFrame
<1>7. ASSUME NEW t \in Threads, CheckTrigger(t) PROVE TypeOK'
  BY <1>7 DEF CheckTrigger
<1>8. ASSUME NEW t \in Threads, InitGc(t) PROVE TypeOK'
  BY <1>8 DEF InitGc
<1>9. ASSUME NEW t \in Threads, SetInited(t) PROVE TypeOK'
  BY <1>9 DEF SetInited
<1>10. ASSUME NEW t \in Threads, PollSafepoint(t) PROVE TypeOK'
  BY <1>10 DEF PollSafepoint
<1>11. ASSUME NEW t \in Threads, Park(t) PROVE TypeOK'
  BY <1>11 DEF Park
<1>12. ASSUME NEW t \in Threads, SeeGcOver(t) PROVE TypeOK'
  BY <1>12 DEF SeeGcOver
<1>13. ASSUME NEW t \in Threads, Unpark(t) PROVE TypeOK'
  BY <1>13 DEF Unpark
<1>14. ASSUME NEW t \in Threads, CountThread(t) PROVE TypeOK'
  BY <1>14 DEF CountThread
<1>15. ASSUME NEW t \in Threads, SeeChildWaiting(t) PROVE TypeOK'
  BY <1>15 DEF SeeChildWaiting
<1>16. ASSUME NEW t \in Threads, Die(t) PROVE TypeOK'
  BY <1>16 DEF Die
<1>17. ASSUME NEW t \in Threads, EnterMonitor(t) PROVE TypeOK'
  BY <1>17 DEF EnterMonitor, MonitorInv
<1>18. ASSUME NEW t \in Threads, CallMethod(t) PROVE TypeOK'
  BY <1>18 DEF CallMethod
<1>19. ASSUME NEW t \in Threads, LeaveMonitor(t) PROVE TypeOK'
  BY <1>19 DEF LeaveMonitor, MonitorInv
<1>20. ASSUME NEW t \in Threads, MonitorDec(t) PROVE TypeOK'
  <2>1. locks[t] \in Seq(Monitors) /\ locks[t] # <<>>
    BY <1>20 DEF MonitorDec
  <2>2. monitor_num[t] = Len(locks[t])
    BY <1>20 DEF MonitorDec, MonitorInv
  <2>3. monitor_num[t] - 1 \in Nat
    BY <2>1, <2>2
  <2> QED
    BY <1>20, <2>3 DEF MonitorDec
<1>21. ASSUME NEW t \in Threads, Return(t) PROVE TypeOK'
  BY <1>21 DEF Return
<1>22. ASSUME NEW t \in Threads, NEW m \in Monitors, MonitorInc(t, m) PROVE TypeOK'
  BY <1>22 DEF MonitorInc
<1>23. ASSUME NEW t \in Threads, NEW c \in Children, StartThread(t, c) PROVE TypeOK'
  BY <1>23, StartEffect DEF StartThread, TwoPcsChange
<1>24. ASSUME NEW t \in Threads, LaunchThread(t) PROVE TypeOK'
  BY <1>24, LaunchEffect DEF LaunchThread, TwoPcsChange, ParentInv
<1>25. ASSUME NEW t \in Threads, UncountThread(t) PROVE TypeOK'
  <2>1. t \in Counted
    BY <1>25 DEF UncountThread, Counted, CountedPcs, ParentInv, MainInv
  <2>2. thread_num # 0
    BY <2>1, CountedFinite, FS_EmptySet DEF ExitInv, CountInv
  <2> QED
    BY <1>25, <2>2 DEF UncountThread
<1>26. CASE GcStep
  <2>1. CASE CreateGcCond \/ WaitGcCond \/ BeginScan \/ AllReady
    BY <2>1 DEF CreateGcCond, WaitGcCond, BeginScan, AllReady, GcPcs
  <2>4. CASE EndGc
    <3>1. gcpc' \in GcPcs
      BY <2>4 DEF EndGc, GcPcs
    <3>2. pool' \in Nat
      BY <2>4 DEF EndGc
    <3> HIDE DEF ThreadPcs
    <3> QED
      BY <2>4, <3>1, <3>2 DEF EndGc
  <2>2. ASSUME NEW t \in Threads, SeeReady(t) \/ SeeNotReady(t) PROVE TypeOK'
    BY <2>2 DEF SeeReady, SeeNotReady, GcPcs
  <2>3. ASSUME NEW t \in Threads, CopyRoots(t) PROVE TypeOK'
    <3>1. arg' \in [Threads -> Nat] /\ frame' \in [Threads -> Nat] /\ visited' \subseteq Threads
      BY <2>3 DEF CopyRoots
    <3> QED
      BY <2>3, <3>1 DEF CopyRoots
  <2> QED
    BY <1>26, <2>1, <2>2, <2>3, <2>4 DEF GcStep
<1>27. CASE LauncherStep \/ UNCHANGED vars
  BY <1>27 DEF LauncherStep, JoinMain, SignalAllPatch, SeeNoThreads, CancelGcThread, End,
               GcPcs, LauncherPcs, vars
<1> QED
  BY <1>1, <1>2, <1>3, <1>4, <1>5, <1>6, <1>7, <1>8, <1>9, <1>10, <1>11, <1>12, <1>13, <1>14, <1>15, <1>16, <1>17, <1>18, <1>19, <1>20, <1>21, <1>22, <1>23, <1>24, <1>25, <1>26, <1>27
  DEF Next, VmStep, JavaStep, Exited

\* Every step keeps state and table what pc says they are.
LEMMA StateStep == IInv /\ [Next]_vars => StateInv'
<1> SUFFICES ASSUME IInv, [Next]_vars PROVE StateInv'
  OBVIOUS
<1> USE DEF IInv, TypeOK, ParentInv, StateInv, StateOfPc
<1>1. ASSUME NEW t \in Threads, Register(t) PROVE StateInv'
  BY <1>1 DEF Register
<1>2. ASSUME NEW t \in Threads, SetBit(t) PROVE StateInv'
  BY <1>2 DEF SetBit
<1>3. ASSUME NEW t \in Threads, FirstWait(t) PROVE StateInv'
  BY <1>3 DEF FirstWait
<1>4. ASSUME NEW t \in Threads, FirstWaitReturns(t) PROVE StateInv'
  BY <1>4 DEF FirstWaitReturns
<1>5. ASSUME NEW t \in Threads, BuildFrame(t) PROVE StateInv'
  BY <1>5 DEF BuildFrame
<1>6. ASSUME NEW t \in Threads, PushFrame(t) PROVE StateInv'
  BY <1>6 DEF PushFrame
<1>7. ASSUME NEW t \in Threads, CheckTrigger(t) PROVE StateInv'
  BY <1>7 DEF CheckTrigger
<1>8. ASSUME NEW t \in Threads, InitGc(t) PROVE StateInv'
  BY <1>8 DEF InitGc
<1>9. ASSUME NEW t \in Threads, SetInited(t) PROVE StateInv'
  BY <1>9 DEF SetInited
<1>10. ASSUME NEW t \in Threads, PollSafepoint(t) PROVE StateInv'
  BY <1>10 DEF PollSafepoint
<1>11. ASSUME NEW t \in Threads, Park(t) PROVE StateInv'
  BY <1>11 DEF Park
<1>12. ASSUME NEW t \in Threads, SeeGcOver(t) PROVE StateInv'
  BY <1>12 DEF SeeGcOver
<1>13. ASSUME NEW t \in Threads, Unpark(t) PROVE StateInv'
  BY <1>13 DEF Unpark
<1>14. ASSUME NEW t \in Threads, LeaveMonitor(t) PROVE StateInv'
  BY <1>14 DEF LeaveMonitor
<1>15. ASSUME NEW t \in Threads, CountThread(t) PROVE StateInv'
  BY <1>15 DEF CountThread
<1>16. ASSUME NEW t \in Threads, LaunchThread(t) PROVE StateInv'
  <2>1. /\ operand[t] \in Children /\ pc[t] = "launch" /\ pc[operand[t]] = "pushed"
        /\ TwoPcsChange(t, "spin", operand[t], "created")
        /\ UNCHANGED <<threadVars, gcVars, heapVars, exitVars>>
    BY <1>16, LaunchEffect DEF LaunchThread
  <2> QED
    BY <2>1 DEF TwoPcsChange
<1>17. ASSUME NEW t \in Threads, SeeChildWaiting(t) PROVE StateInv'
  BY <1>17 DEF SeeChildWaiting
<1>18. ASSUME NEW t \in Threads, UncountThread(t) PROVE StateInv'
  BY <1>18 DEF UncountThread
<1>19. ASSUME NEW t \in Threads, Die(t) PROVE StateInv'
  BY <1>19 DEF Die
<1>20. ASSUME NEW t \in Threads, EnterMonitor(t) PROVE StateInv'
  BY <1>20 DEF EnterMonitor
<1>21. ASSUME NEW t \in Threads, CallMethod(t) PROVE StateInv'
  BY <1>21 DEF CallMethod
<1>22. ASSUME NEW t \in Threads, NEW m \in Monitors, MonitorInc(t, m) PROVE StateInv'
  BY <1>22 DEF MonitorInc
<1>23. ASSUME NEW t \in Threads, MonitorDec(t) PROVE StateInv'
  BY <1>23 DEF MonitorDec
<1>24. ASSUME NEW t \in Threads, NEW c \in Children, StartThread(t, c) PROVE StateInv'
  <2>1. /\ TwoPcsChange(t, "count", c, "pushed") /\ pc[t] = "java" /\ pc[c] = "unborn"
        /\ operand' = [operand EXCEPT ![t] = c]
        /\ UNCHANGED <<state, table, bit, monitor_num, locks, gcVars, pool, exitVars>>
    BY <1>24, StartEffect DEF StartThread
  <2> QED
    BY <2>1 DEF TwoPcsChange
<1>25. ASSUME NEW t \in Threads, Return(t) PROVE StateInv'
  BY <1>25 DEF Return
<1>26. CASE GcStep \/ LauncherStep \/ UNCHANGED vars
  BY <1>26 DEF GcStep, LauncherStep, vars, CreateGcCond, WaitGcCond, BeginScan, AllReady,
               EndGc, SeeReady, SeeNotReady, CopyRoots, JoinMain, SignalAllPatch,
               SeeNoThreads, CancelGcThread, End
<1> QED
  BY <1>1, <1>2, <1>3, <1>4, <1>5, <1>6, <1>7, <1>8, <1>9, <1>10, <1>11, <1>12, <1>13,
     <1>14, <1>15, <1>16, <1>17, <1>18, <1>19, <1>20, <1>21, <1>22, <1>23, <1>24,
     <1>25, <1>26
  DEF Next, VmStep, JavaStep, Exited

\* Every step keeps monitor_num in line with the monitors a thread owns.
LEMMA MonitorStep == IInv /\ [Next]_vars => MonitorInv'
<1> SUFFICES ASSUME IInv, [Next]_vars PROVE MonitorInv'
  OBVIOUS
<1> USE DEF IInv, TypeOK, ParentInv, MonitorInv, StartPcs, ExitPcs
<1>1. ASSUME NEW t \in Threads, Register(t) PROVE MonitorInv'
  BY <1>1 DEF Register
<1>2. ASSUME NEW t \in Threads, SetBit(t) PROVE MonitorInv'
  BY <1>2 DEF SetBit
<1>3. ASSUME NEW t \in Threads, FirstWait(t) PROVE MonitorInv'
  BY <1>3 DEF FirstWait
<1>4. ASSUME NEW t \in Threads, FirstWaitReturns(t) PROVE MonitorInv'
  BY <1>4 DEF FirstWaitReturns
<1>5. ASSUME NEW t \in Threads, BuildFrame(t) PROVE MonitorInv'
  BY <1>5 DEF BuildFrame
<1>6. ASSUME NEW t \in Threads, PushFrame(t) PROVE MonitorInv'
  BY <1>6 DEF PushFrame
<1>7. ASSUME NEW t \in Threads, CheckTrigger(t) PROVE MonitorInv'
  BY <1>7 DEF CheckTrigger
<1>8. ASSUME NEW t \in Threads, InitGc(t) PROVE MonitorInv'
  BY <1>8 DEF InitGc
<1>9. ASSUME NEW t \in Threads, SetInited(t) PROVE MonitorInv'
  BY <1>9 DEF SetInited
<1>10. ASSUME NEW t \in Threads, PollSafepoint(t) PROVE MonitorInv'
  <2>1. monitor_num[t] = 0 => locks[t] = <<>>
    BY <1>10, EmptySeq DEF PollSafepoint
  <2> QED
    BY <1>10, <2>1 DEF PollSafepoint
<1>11. ASSUME NEW t \in Threads, Park(t) PROVE MonitorInv'
  BY <1>11 DEF Park
<1>12. ASSUME NEW t \in Threads, SeeGcOver(t) PROVE MonitorInv'
  BY <1>12 DEF SeeGcOver
<1>13. ASSUME NEW t \in Threads, Unpark(t) PROVE MonitorInv'
  BY <1>13 DEF Unpark
<1>14. ASSUME NEW t \in Threads, LeaveMonitor(t) PROVE MonitorInv'
  BY <1>14 DEF LeaveMonitor
<1>15. ASSUME NEW t \in Threads, CountThread(t) PROVE MonitorInv'
  BY <1>15 DEF CountThread
<1>16. ASSUME NEW t \in Threads, LaunchThread(t) PROVE MonitorInv'
  <2>1. /\ operand[t] \in Children /\ pc[t] = "launch" /\ pc[operand[t]] = "pushed"
        /\ TwoPcsChange(t, "spin", operand[t], "created")
        /\ UNCHANGED <<threadVars, gcVars, heapVars, exitVars>>
    BY <1>16, LaunchEffect DEF LaunchThread
  <2> QED
    BY ZenonT(60), <2>1 DEF TwoPcsChange
<1>17. ASSUME NEW t \in Threads, SeeChildWaiting(t) PROVE MonitorInv'
  BY <1>17 DEF SeeChildWaiting
<1>18. ASSUME NEW t \in Threads, UncountThread(t) PROVE MonitorInv'
  BY <1>18 DEF UncountThread
<1>19. ASSUME NEW t \in Threads, Die(t) PROVE MonitorInv'
  BY <1>19 DEF Die
<1>20. ASSUME NEW t \in Threads, EnterMonitor(t) PROVE MonitorInv'
  BY <1>20 DEF EnterMonitor
<1>21. ASSUME NEW t \in Threads, CallMethod(t) PROVE MonitorInv'
  BY <1>21 DEF CallMethod
<1>22. ASSUME NEW t \in Threads, NEW m \in Monitors, MonitorInc(t, m) PROVE MonitorInv'
  BY <1>22 DEF MonitorInc
<1>23. ASSUME NEW t \in Threads, MonitorDec(t) PROVE MonitorInv'
  BY <1>23 DEF MonitorDec
<1>24. ASSUME NEW t \in Threads, NEW c \in Children, StartThread(t, c) PROVE MonitorInv'
  <2>1. /\ TwoPcsChange(t, "count", c, "pushed") /\ pc[t] = "java" /\ pc[c] = "unborn"
        /\ operand' = [operand EXCEPT ![t] = c]
        /\ UNCHANGED <<state, table, bit, monitor_num, locks, gcVars, pool, exitVars>>
    BY <1>24, StartEffect DEF StartThread
  <2> QED
    BY <2>1 DEF TwoPcsChange
<1>25. ASSUME NEW t \in Threads, Return(t) PROVE MonitorInv'
  BY <1>25 DEF Return
<1>26. CASE GcStep \/ LauncherStep \/ UNCHANGED vars
  BY <1>26 DEF GcStep, LauncherStep, vars, CreateGcCond, WaitGcCond, BeginScan, AllReady,
               EndGc, SeeReady, SeeNotReady, CopyRoots, JoinMain, SignalAllPatch,
               SeeNoThreads, CancelGcThread, End
<1> QED
  BY <1>1, <1>2, <1>3, <1>4, <1>5, <1>6, <1>7, <1>8, <1>9, <1>10, <1>11, <1>12, <1>13,
     <1>14, <1>15, <1>16, <1>17, <1>18, <1>19, <1>20, <1>21, <1>22, <1>23, <1>24,
     <1>25, <1>26
  DEF Next, VmStep, JavaStep, Exited

\* Every step keeps a parent inside start0 in line with its child.
LEMMA StarterStep == IInv /\ [Next]_vars => StarterInv'
<1> SUFFICES ASSUME IInv, [Next]_vars PROVE StarterInv'
  OBVIOUS
<1> USE ConstantsAssumption DEF IInv, TypeOK, ParentInv, StarterInv
<1>1. ASSUME NEW t \in Threads, Register(t) PROVE StarterInv'
  BY <1>1 DEF Register
<1>2. ASSUME NEW t \in Threads, SetBit(t) PROVE StarterInv'
  BY <1>2 DEF SetBit
<1>3. ASSUME NEW t \in Threads, FirstWait(t) PROVE StarterInv'
  BY <1>3 DEF FirstWait
<1>4. ASSUME NEW t \in Threads, FirstWaitReturns(t) PROVE StarterInv'
  BY <1>4 DEF FirstWaitReturns
<1>5. ASSUME NEW t \in Threads, BuildFrame(t) PROVE StarterInv'
  BY <1>5 DEF BuildFrame
<1>6. ASSUME NEW t \in Threads, PushFrame(t) PROVE StarterInv'
  BY <1>6 DEF PushFrame
<1>7. ASSUME NEW t \in Threads, CheckTrigger(t) PROVE StarterInv'
  BY <1>7 DEF CheckTrigger
<1>8. ASSUME NEW t \in Threads, InitGc(t) PROVE StarterInv'
  BY <1>8 DEF InitGc
<1>9. ASSUME NEW t \in Threads, SetInited(t) PROVE StarterInv'
  BY <1>9 DEF SetInited
<1>10. ASSUME NEW t \in Threads, PollSafepoint(t) PROVE StarterInv'
  BY <1>10 DEF PollSafepoint
<1>11. ASSUME NEW t \in Threads, Park(t) PROVE StarterInv'
  BY <1>11 DEF Park
<1>12. ASSUME NEW t \in Threads, SeeGcOver(t) PROVE StarterInv'
  BY <1>12 DEF SeeGcOver
<1>13. ASSUME NEW t \in Threads, Unpark(t) PROVE StarterInv'
  BY <1>13 DEF Unpark
<1>14. ASSUME NEW t \in Threads, LeaveMonitor(t) PROVE StarterInv'
  BY <1>14 DEF LeaveMonitor
<1>15. ASSUME NEW t \in Threads, CountThread(t) PROVE StarterInv'
  BY <1>15 DEF CountThread
<1>16. ASSUME NEW t \in Threads, LaunchThread(t) PROVE StarterInv'
  <2>1. /\ operand[t] \in Children /\ pc[t] = "launch" /\ pc[operand[t]] = "pushed"
        /\ TwoPcsChange(t, "spin", operand[t], "created")
        /\ operand' = operand
    BY <1>16, LaunchEffect DEF LaunchThread
  <2>2. ASSUME NEW u \in Threads, u # t, pc[u] \in {"count", "launch", "spin"}
        PROVE  operand[u] # operand[t]
    BY <2>1, <2>2 DEF OneStarterInv
  <2>3. ASSUME NEW u \in Threads, pc'[u] \in {"count", "launch"}
        PROVE  operand[u] \in Children /\ pc'[operand[u]] = "pushed"
    <3>1. u # t /\ pc'[u] = pc[u]
      BY <2>1, <2>3 DEF TwoPcsChange
    <3>2. operand[u] \in Children /\ pc[operand[u]] = "pushed"
      BY <2>3, <3>1
    <3>3. operand[u] \in Threads \ {t, operand[t]}
      BY <2>1, <2>2, <2>3, <3>1, <3>2
    <3> QED
      BY <2>1, <3>2, <3>3 DEF TwoPcsChange
  <2>4. ASSUME NEW u \in Threads, pc'[u] = "spin"
        PROVE  operand[u] \in Children /\ pc'[operand[u]] \notin {"unborn", "pushed"}
    BY <2>1, <2>4 DEF TwoPcsChange
  <2> QED
    BY <2>1, <2>3, <2>4
<1>17. ASSUME NEW t \in Threads, SeeChildWaiting(t) PROVE StarterInv'
  BY <1>17 DEF SeeChildWaiting
<1>18. ASSUME NEW t \in Threads, UncountThread(t) PROVE StarterInv'
  BY <1>18 DEF UncountThread
<1>19. ASSUME NEW t \in Threads, Die(t) PROVE StarterInv'
  BY <1>19 DEF Die
<1>20. ASSUME NEW t \in Threads, EnterMonitor(t) PROVE StarterInv'
  BY <1>20 DEF EnterMonitor
<1>21. ASSUME NEW t \in Threads, CallMethod(t) PROVE StarterInv'
  BY <1>21 DEF CallMethod
<1>22. ASSUME NEW t \in Threads, NEW m \in Monitors, MonitorInc(t, m) PROVE StarterInv'
  BY <1>22 DEF MonitorInc
<1>23. ASSUME NEW t \in Threads, MonitorDec(t) PROVE StarterInv'
  BY <1>23 DEF MonitorDec
<1>24. ASSUME NEW t \in Threads, NEW c \in Children, StartThread(t, c) PROVE StarterInv'
  <2>1. /\ TwoPcsChange(t, "count", c, "pushed") /\ pc[t] = "java" /\ pc[c] = "unborn"
        /\ operand' = [operand EXCEPT ![t] = c]
        /\ UNCHANGED <<state, table, bit, monitor_num, locks, gcVars, pool, exitVars>>
    BY <1>24, StartEffect DEF StartThread
  <2>2. operand'[t] = c /\ \A u \in Threads \ {t} : operand'[u] = operand[u]
    BY <2>1
  <2>3. ASSUME NEW u \in Threads
        PROVE  /\ pc'[u] \in {"count", "launch"} =>
                    operand'[u] \in Children /\ pc'[operand'[u]] = "pushed"
               /\ pc'[u] = "spin" =>
                    operand'[u] \in Children /\ pc'[operand'[u]] \notin {"unborn", "pushed"}
    <3>1. CASE u = t
      BY <2>1, <2>2, <3>1 DEF TwoPcsChange
    <3>2. CASE u = c
      BY <2>1, <3>2 DEF TwoPcsChange
    <3>3. CASE u \notin {t, c}
      <4>1. pc'[u] = pc[u] /\ operand'[u] = operand[u]
        BY <2>1, <2>2, <3>3 DEF TwoPcsChange
      <4>2. CASE pc[u] \in {"count", "launch", "spin"}
        <5>1. operand[u] \in Threads \ {c} /\ operand[u] \in Children
          BY <2>1, <4>2, ConstantsAssumption
        <5>2. pc'[operand[u]] = pc[operand[u]] \/ (operand[u] = t /\ pc'[t] = "count")
          BY <2>1, <5>1 DEF TwoPcsChange
        <5> QED
          BY <2>1, <4>1, <4>2, <5>1, <5>2
      <4>3. CASE pc[u] \notin {"count", "launch", "spin"}
        BY <4>1, <4>3
      <4> QED
        BY <4>2, <4>3
    <3> QED
      BY <3>1, <3>2, <3>3
  <2> QED
    BY <2>3
<1>25. ASSUME NEW t \in Threads, Return(t) PROVE StarterInv'
  BY <1>25 DEF Return
<1>26. CASE GcStep \/ LauncherStep \/ UNCHANGED vars
  BY <1>26 DEF GcStep, LauncherStep, vars, CreateGcCond, WaitGcCond, BeginScan, AllReady,
               EndGc, SeeReady, SeeNotReady, CopyRoots, JoinMain, SignalAllPatch,
               SeeNoThreads, CancelGcThread, End
<1> QED
  BY <1>1, <1>2, <1>3, <1>4, <1>5, <1>6, <1>7, <1>8, <1>9, <1>10, <1>11, <1>12, <1>13,
     <1>14, <1>15, <1>16, <1>17, <1>18, <1>19, <1>20, <1>21, <1>22, <1>23, <1>24,
     <1>25, <1>26
  DEF Next, VmStep, JavaStep, Exited

\* Every step keeps two parents from starting one child.
LEMMA OneStarterStep == IInv /\ [Next]_vars => OneStarterInv'
<1> SUFFICES ASSUME IInv, [Next]_vars PROVE OneStarterInv'
  OBVIOUS
<1> USE DEF IInv, TypeOK, ParentInv, OneStarterInv
<1>1. ASSUME NEW t \in Threads, Register(t) PROVE OneStarterInv'
  BY <1>1 DEF Register
<1>2. ASSUME NEW t \in Threads, SetBit(t) PROVE OneStarterInv'
  BY <1>2 DEF SetBit
<1>3. ASSUME NEW t \in Threads, FirstWait(t) PROVE OneStarterInv'
  BY <1>3 DEF FirstWait
<1>4. ASSUME NEW t \in Threads, FirstWaitReturns(t) PROVE OneStarterInv'
  BY <1>4 DEF FirstWaitReturns
<1>5. ASSUME NEW t \in Threads, BuildFrame(t) PROVE OneStarterInv'
  BY <1>5 DEF BuildFrame
<1>6. ASSUME NEW t \in Threads, PushFrame(t) PROVE OneStarterInv'
  BY <1>6 DEF PushFrame
<1>7. ASSUME NEW t \in Threads, CheckTrigger(t) PROVE OneStarterInv'
  BY <1>7 DEF CheckTrigger
<1>8. ASSUME NEW t \in Threads, InitGc(t) PROVE OneStarterInv'
  BY <1>8 DEF InitGc
<1>9. ASSUME NEW t \in Threads, SetInited(t) PROVE OneStarterInv'
  BY <1>9 DEF SetInited
<1>10. ASSUME NEW t \in Threads, PollSafepoint(t) PROVE OneStarterInv'
  BY <1>10 DEF PollSafepoint
<1>11. ASSUME NEW t \in Threads, Park(t) PROVE OneStarterInv'
  BY <1>11 DEF Park
<1>12. ASSUME NEW t \in Threads, SeeGcOver(t) PROVE OneStarterInv'
  BY <1>12 DEF SeeGcOver
<1>13. ASSUME NEW t \in Threads, Unpark(t) PROVE OneStarterInv'
  BY <1>13 DEF Unpark
<1>14. ASSUME NEW t \in Threads, LeaveMonitor(t) PROVE OneStarterInv'
  BY <1>14 DEF LeaveMonitor
<1>15. ASSUME NEW t \in Threads, CountThread(t) PROVE OneStarterInv'
  BY <1>15 DEF CountThread
<1>16. ASSUME NEW t \in Threads, LaunchThread(t) PROVE OneStarterInv'
  <2>1. /\ operand[t] \in Children /\ pc[t] = "launch" /\ pc[operand[t]] = "pushed"
        /\ TwoPcsChange(t, "spin", operand[t], "created")
        /\ UNCHANGED <<threadVars, gcVars, heapVars, exitVars>>
    BY <1>16, LaunchEffect DEF LaunchThread
  <2> QED
    BY <2>1 DEF TwoPcsChange
<1>17. ASSUME NEW t \in Threads, SeeChildWaiting(t) PROVE OneStarterInv'
  BY <1>17 DEF SeeChildWaiting
<1>18. ASSUME NEW t \in Threads, UncountThread(t) PROVE OneStarterInv'
  BY <1>18 DEF UncountThread
<1>19. ASSUME NEW t \in Threads, Die(t) PROVE OneStarterInv'
  BY <1>19 DEF Die
<1>20. ASSUME NEW t \in Threads, EnterMonitor(t) PROVE OneStarterInv'
  BY <1>20 DEF EnterMonitor
<1>21. ASSUME NEW t \in Threads, CallMethod(t) PROVE OneStarterInv'
  BY <1>21 DEF CallMethod
<1>22. ASSUME NEW t \in Threads, NEW m \in Monitors, MonitorInc(t, m) PROVE OneStarterInv'
  BY <1>22 DEF MonitorInc
<1>23. ASSUME NEW t \in Threads, MonitorDec(t) PROVE OneStarterInv'
  BY <1>23 DEF MonitorDec
<1>24. ASSUME NEW t \in Threads, NEW c \in Children, StartThread(t, c) PROVE OneStarterInv'
  <2>1. /\ TwoPcsChange(t, "count", c, "pushed") /\ pc[t] = "java" /\ pc[c] = "unborn"
        /\ operand' = [operand EXCEPT ![t] = c]
        /\ UNCHANGED <<state, table, bit, monitor_num, locks, gcVars, pool, exitVars>>
    BY <1>24, StartEffect DEF StartThread
  <2> QED
    BY <2>1 DEF TwoPcsChange, StarterInv
<1>25. ASSUME NEW t \in Threads, Return(t) PROVE OneStarterInv'
  BY <1>25 DEF Return
<1>26. CASE GcStep \/ LauncherStep \/ UNCHANGED vars
  BY <1>26 DEF GcStep, LauncherStep, vars, CreateGcCond, WaitGcCond, BeginScan, AllReady,
               EndGc, SeeReady, SeeNotReady, CopyRoots, JoinMain, SignalAllPatch,
               SeeNoThreads, CancelGcThread, End
<1> QED
  BY <1>1, <1>2, <1>3, <1>4, <1>5, <1>6, <1>7, <1>8, <1>9, <1>10, <1>11, <1>12, <1>13,
     <1>14, <1>15, <1>16, <1>17, <1>18, <1>19, <1>20, <1>21, <1>22, <1>23, <1>24,
     <1>25, <1>26
  DEF Next, VmStep, JavaStep, Exited

\* A parent inside start0 that takes no step still starts its child.
LEMMA KeepsStarters ==
  ASSUME HasStarterInv,
         \A c \in Children : pc'[c] \in {"pushed", "created"} => pc'[c] = pc[c],
         \A u \in Threads : pc[u] \in {"count", "launch", "spin"}
                              => pc'[u] = pc[u] /\ operand'[u] = operand[u]
  PROVE  HasStarterInv'
<1> SUFFICES ASSUME NEW c \in Children, pc'[c] \in {"pushed", "created"}
             PROVE  /\ pc'[c] = "pushed" =>
                         \E u \in Threads : pc'[u] \in {"count", "launch"} /\ operand'[u] = c
                    /\ pc'[c] = "created" =>
                         \E u \in Threads : pc'[u] = "spin" /\ operand'[u] = c
  BY DEF HasStarterInv
<1>1. CASE pc'[c] = "pushed"
  <2>1. PICK u \in Threads : pc[u] \in {"count", "launch"} /\ operand[u] = c
    BY <1>1 DEF HasStarterInv
  <2> QED
    BY <1>1, <2>1
<1>2. CASE pc'[c] = "created"
  <2>1. PICK u \in Threads : pc[u] = "spin" /\ operand[u] = c
    BY <1>2 DEF HasStarterInv
  <2> QED
    BY <1>2, <2>1
<1> QED
  BY <1>1, <1>2

\* Every step leaves an unregistered child its parent.
LEMMA HasStarterStep == IInv /\ [Next]_vars => HasStarterInv'
<1> SUFFICES ASSUME IInv, [Next]_vars PROVE HasStarterInv'
  OBVIOUS
<1> USE DEF IInv, TypeOK, ParentInv
<1>1. ASSUME NEW t \in Threads, Register(t) PROVE HasStarterInv'
  BY <1>1, KeepsStarters DEF Register
<1>2. ASSUME NEW t \in Threads, SetBit(t) PROVE HasStarterInv'
  BY <1>2, KeepsStarters DEF SetBit
<1>3. ASSUME NEW t \in Threads, FirstWait(t) PROVE HasStarterInv'
  BY <1>3, KeepsStarters DEF FirstWait
<1>4. ASSUME NEW t \in Threads, FirstWaitReturns(t) PROVE HasStarterInv'
  BY <1>4, KeepsStarters DEF FirstWaitReturns
<1>5. ASSUME NEW t \in Threads, BuildFrame(t) PROVE HasStarterInv'
  BY <1>5, KeepsStarters DEF BuildFrame
<1>6. ASSUME NEW t \in Threads, PushFrame(t) PROVE HasStarterInv'
  BY <1>6, KeepsStarters DEF PushFrame
<1>7. ASSUME NEW t \in Threads, CheckTrigger(t) PROVE HasStarterInv'
  BY <1>7, KeepsStarters DEF CheckTrigger
<1>8. ASSUME NEW t \in Threads, InitGc(t) PROVE HasStarterInv'
  BY <1>8, KeepsStarters DEF InitGc
<1>9. ASSUME NEW t \in Threads, SetInited(t) PROVE HasStarterInv'
  BY <1>9, KeepsStarters DEF SetInited
<1>10. ASSUME NEW t \in Threads, PollSafepoint(t) PROVE HasStarterInv'
  BY <1>10, KeepsStarters DEF PollSafepoint
<1>11. ASSUME NEW t \in Threads, Park(t) PROVE HasStarterInv'
  BY <1>11, KeepsStarters DEF Park
<1>12. ASSUME NEW t \in Threads, SeeGcOver(t) PROVE HasStarterInv'
  BY <1>12, KeepsStarters DEF SeeGcOver
<1>13. ASSUME NEW t \in Threads, Unpark(t) PROVE HasStarterInv'
  BY <1>13, KeepsStarters DEF Unpark
<1>14. ASSUME NEW t \in Threads, LeaveMonitor(t) PROVE HasStarterInv'
  BY <1>14, KeepsStarters DEF LeaveMonitor
<1>15. ASSUME NEW t \in Threads, CountThread(t) PROVE HasStarterInv'
  <2>1. ASSUME NEW u \in Threads, pc[u] \in {"count", "launch"}
        PROVE  pc'[u] \in {"count", "launch"}
    BY <1>15, <2>1 DEF CountThread
  <2>2. /\ \A u \in Threads : pc[u] = "spin" => pc'[u] = "spin"
        /\ \A u \in Threads : pc'[u] \in {"pushed", "created"} => pc[u] = pc'[u]
        /\ operand' = operand
    BY <1>15 DEF CountThread
  <2> QED
    BY <2>1, <2>2 DEF HasStarterInv
<1>16. ASSUME NEW t \in Threads, LaunchThread(t) PROVE HasStarterInv'
  <2> DEFINE c == operand[t]
  <2>1. /\ c \in Children /\ pc[t] = "launch" /\ pc[c] = "pushed"
        /\ TwoPcsChange(t, "spin", c, "created") /\ operand' = operand
    BY <1>16, LaunchEffect DEF LaunchThread
  <2>2. ASSUME NEW d \in Children, d # c, pc'[d] \in {"pushed", "created"}
        PROVE  pc[d] = pc'[d]
    BY <2>1, <2>2 DEF TwoPcsChange
  <2>3. ASSUME NEW u \in Threads, u # t, pc[u] \in {"count", "launch", "spin"}
        PROVE  pc'[u] = pc[u] /\ operand'[u] = operand[u]
    BY <2>1, <2>3 DEF TwoPcsChange
  <2>4. ASSUME NEW d \in Children, pc'[d] = "pushed"
        PROVE  \E u \in Threads : pc'[u] \in {"count", "launch"} /\ operand'[u] = d
    <3>1. d # c /\ pc[d] = "pushed"
      BY <2>1, <2>2, <2>4 DEF TwoPcsChange
    <3>2. PICK u \in Threads : pc[u] \in {"count", "launch"} /\ operand[u] = d
      BY <3>1 DEF HasStarterInv
    <3> QED
      BY <2>3, <3>1, <3>2
  <2>5. ASSUME NEW d \in Children, pc'[d] = "created"
        PROVE  \E u \in Threads : pc'[u] = "spin" /\ operand'[u] = d
    <3>1. CASE d = c
      BY <2>1, <3>1 DEF TwoPcsChange
    <3>2. CASE d # c
      <4>1. PICK u \in Threads : pc[u] = "spin" /\ operand[u] = d
        BY <2>2, <2>5, <3>2 DEF HasStarterInv
      <4> QED
        BY <2>1, <2>3, <4>1
    <3> QED
      BY <3>1, <3>2
  <2> QED
    BY <2>4, <2>5 DEF HasStarterInv
<1>17. ASSUME NEW t \in Threads, SeeChildWaiting(t) PROVE HasStarterInv'
  <2>1. operand[t] \in Children /\ pc[operand[t]] # "created"
    BY <1>17 DEF SeeChildWaiting, ParentInv, StarterInv, StateInv
  <2>2. \A u \in Threads : pc'[u] \in {"pushed", "created"} => pc[u] = pc'[u]
    BY <1>17 DEF SeeChildWaiting
  <2>3. \A u \in Threads \ {t} : pc'[u] = pc[u] /\ operand'[u] = operand[u]
    BY <1>17 DEF SeeChildWaiting
  <2>4. pc[t] = "spin"
    BY <1>17 DEF SeeChildWaiting
  <2>5. ASSUME NEW d \in Children, pc'[d] = "pushed"
        PROVE  \E u \in Threads : pc'[u] \in {"count", "launch"} /\ operand'[u] = d
    <3>1. PICK u \in Threads : pc[u] \in {"count", "launch"} /\ operand[u] = d
      BY <2>2, <2>5 DEF HasStarterInv
    <3> QED
      BY <2>3, <2>4, <3>1
  <2>6. ASSUME NEW d \in Children, pc'[d] = "created"
        PROVE  \E u \in Threads : pc'[u] = "spin" /\ operand'[u] = d
    <3>1. pc[d] = "created"
      BY <2>2, <2>6
    <3>2. PICK u \in Threads : pc[u] = "spin" /\ operand[u] = d
      BY <3>1 DEF HasStarterInv
    <3> QED
      BY <2>1, <2>3, <3>1, <3>2
  <2> QED
    BY <2>5, <2>6 DEF HasStarterInv
<1>18. ASSUME NEW t \in Threads, UncountThread(t) PROVE HasStarterInv'
  BY <1>18, KeepsStarters DEF UncountThread
<1>19. ASSUME NEW t \in Threads, Die(t) PROVE HasStarterInv'
  BY <1>19, KeepsStarters DEF Die
<1>20. ASSUME NEW t \in Threads, EnterMonitor(t) PROVE HasStarterInv'
  BY <1>20, KeepsStarters DEF EnterMonitor
<1>21. ASSUME NEW t \in Threads, CallMethod(t) PROVE HasStarterInv'
  BY <1>21, KeepsStarters DEF CallMethod
<1>22. ASSUME NEW t \in Threads, NEW m \in Monitors, MonitorInc(t, m) PROVE HasStarterInv'
  BY <1>22, KeepsStarters DEF MonitorInc
<1>23. ASSUME NEW t \in Threads, MonitorDec(t) PROVE HasStarterInv'
  BY <1>23, KeepsStarters DEF MonitorDec
<1>24. ASSUME NEW t \in Threads, NEW c \in Children, StartThread(t, c) PROVE HasStarterInv'
  <2>1. TwoPcsChange(t, "count", c, "pushed") /\ pc[t] = "java" /\ operand' = [operand EXCEPT ![t] = c]
    BY <1>24, StartEffect DEF StartThread
  <2>2. ASSUME NEW d \in Children, d # c, pc'[d] \in {"pushed", "created"}
        PROVE  pc[d] = pc'[d]
    BY <2>1, <2>2 DEF TwoPcsChange
  <2>3. ASSUME NEW u \in Threads, pc[u] \in {"count", "launch", "spin"}
        PROVE  pc'[u] = pc[u] /\ operand'[u] = operand[u]
    <3>1. u # t /\ u # c
      BY <2>1, <2>3, <1>24 DEF StartThread
    <3> QED
      BY <2>1, <3>1 DEF TwoPcsChange
  <2>4. ASSUME NEW d \in Children, d # c, pc'[d] = "pushed"
        PROVE  \E u \in Threads : pc'[u] \in {"count", "launch"} /\ operand'[u] = d
    <3>1. PICK u \in Threads : pc[u] \in {"count", "launch"} /\ operand[u] = d
      BY <2>2, <2>4 DEF HasStarterInv
    <3> QED
      BY <2>3, <3>1
  <2>5. ASSUME NEW d \in Children, d # c, pc'[d] = "created"
        PROVE  \E u \in Threads : pc'[u] = "spin" /\ operand'[u] = d
    <3>1. PICK u \in Threads : pc[u] = "spin" /\ operand[u] = d
      BY <2>2, <2>5 DEF HasStarterInv
    <3> QED
      BY <2>3, <3>1
  <2>6. pc'[t] = "count" /\ pc'[c] = "pushed" /\ operand'[t] = c
    BY <2>1 DEF TwoPcsChange
  <2> QED
    BY <2>4, <2>5, <2>6 DEF HasStarterInv
<1>25. ASSUME NEW t \in Threads, Return(t) PROVE HasStarterInv'
  BY <1>25, KeepsStarters DEF Return
<1>26. CASE GcStep \/ LauncherStep \/ UNCHANGED vars
  <2>1. UNCHANGED <<pc, operand>>
    BY <1>26 DEF GcStep, LauncherStep, vars, CreateGcCond, WaitGcCond, BeginScan, AllReady,
             EndGc, SeeReady, SeeNotReady, CopyRoots, JoinMain, SignalAllPatch,
             SeeNoThreads, CancelGcThread, End
  <2> QED
    BY <2>1 DEF HasStarterInv
<1> QED
  BY <1>1, <1>2, <1>3, <1>4, <1>5, <1>6, <1>7, <1>8, <1>9, <1>10, <1>11, <1>12, <1>13,
     <1>14, <1>15, <1>16, <1>17, <1>18, <1>19, <1>20, <1>21, <1>22, <1>23, <1>24,
     <1>25, <1>26
  DEF Next, VmStep, JavaStep, Exited, GcStep, LauncherStep

\* Every step keeps Main outside the life of a child.
LEMMA MainStep == IInv /\ [Next]_vars => MainInv'
<1> SUFFICES ASSUME IInv, [Next]_vars PROVE MainInv'
  OBVIOUS
<1> USE ConstantsAssumption DEF IInv, TypeOK, ParentInv, MainInv, StartPcs
<1>1. ASSUME NEW t \in Threads, Register(t) PROVE MainInv'
  BY <1>1 DEF Register
<1>2. ASSUME NEW t \in Threads, SetBit(t) PROVE MainInv'
  BY <1>2 DEF SetBit
<1>3. ASSUME NEW t \in Threads, FirstWait(t) PROVE MainInv'
  BY <1>3 DEF FirstWait
<1>4. ASSUME NEW t \in Threads, FirstWaitReturns(t) PROVE MainInv'
  BY <1>4 DEF FirstWaitReturns
<1>5. ASSUME NEW t \in Threads, BuildFrame(t) PROVE MainInv'
  BY <1>5 DEF BuildFrame
<1>6. ASSUME NEW t \in Threads, PushFrame(t) PROVE MainInv'
  BY <1>6 DEF PushFrame
<1>7. ASSUME NEW t \in Threads, CheckTrigger(t) PROVE MainInv'
  BY <1>7 DEF CheckTrigger
<1>8. ASSUME NEW t \in Threads, InitGc(t) PROVE MainInv'
  BY <1>8 DEF InitGc, RequestInv
<1>9. ASSUME NEW t \in Threads, SetInited(t) PROVE MainInv'
  BY <1>9 DEF SetInited, RequestInv
<1>10. ASSUME NEW t \in Threads, PollSafepoint(t) PROVE MainInv'
  BY <1>10 DEF PollSafepoint
<1>11. ASSUME NEW t \in Threads, Park(t) PROVE MainInv'
  BY <1>11 DEF Park
<1>12. ASSUME NEW t \in Threads, SeeGcOver(t) PROVE MainInv'
  BY <1>12 DEF SeeGcOver
<1>13. ASSUME NEW t \in Threads, Unpark(t) PROVE MainInv'
  BY <1>13 DEF Unpark
<1>14. ASSUME NEW t \in Threads, LeaveMonitor(t) PROVE MainInv'
  BY <1>14 DEF LeaveMonitor
<1>15. ASSUME NEW t \in Threads, CountThread(t) PROVE MainInv'
  BY <1>15 DEF CountThread
<1>16. ASSUME NEW t \in Threads, LaunchThread(t) PROVE MainInv'
  <2>1. /\ operand[t] \in Children /\ pc[t] = "launch" /\ pc[operand[t]] = "pushed"
        /\ TwoPcsChange(t, "spin", operand[t], "created")
        /\ UNCHANGED <<threadVars, gcVars, heapVars, exitVars>>
    BY <1>16, LaunchEffect DEF LaunchThread
  <2> QED
    BY <2>1 DEF TwoPcsChange
<1>17. ASSUME NEW t \in Threads, SeeChildWaiting(t) PROVE MainInv'
  BY <1>17 DEF SeeChildWaiting
<1>18. ASSUME NEW t \in Threads, UncountThread(t) PROVE MainInv'
  BY <1>18 DEF UncountThread
<1>19. ASSUME NEW t \in Threads, Die(t) PROVE MainInv'
  BY <1>19 DEF Die
<1>20. ASSUME NEW t \in Threads, EnterMonitor(t) PROVE MainInv'
  BY <1>20 DEF EnterMonitor
<1>21. ASSUME NEW t \in Threads, CallMethod(t) PROVE MainInv'
  BY <1>21 DEF CallMethod
<1>22. ASSUME NEW t \in Threads, NEW m \in Monitors, MonitorInc(t, m) PROVE MainInv'
  BY <1>22 DEF MonitorInc
<1>23. ASSUME NEW t \in Threads, MonitorDec(t) PROVE MainInv'
  BY <1>23 DEF MonitorDec
<1>24. ASSUME NEW t \in Threads, NEW c \in Children, StartThread(t, c) PROVE MainInv'
  <2>1. /\ TwoPcsChange(t, "count", c, "pushed") /\ pc[t] = "java" /\ pc[c] = "unborn"
        /\ operand' = [operand EXCEPT ![t] = c]
        /\ UNCHANGED <<state, table, bit, monitor_num, locks, gcVars, pool, exitVars>>
    BY <1>24, StartEffect DEF StartThread
  <2> QED
    BY <2>1 DEF TwoPcsChange
<1>25. ASSUME NEW t \in Threads, Return(t) PROVE MainInv'
  BY <1>25 DEF Return
<1>26. CASE GcStep \/ LauncherStep \/ UNCHANGED vars
  BY <1>26 DEF GcStep, LauncherStep, vars, CreateGcCond, WaitGcCond, BeginScan, AllReady,
               EndGc, SeeReady, SeeNotReady, CopyRoots, JoinMain, SignalAllPatch,
               SeeNoThreads, CancelGcThread, End
<1> QED
  BY <1>1, <1>2, <1>3, <1>4, <1>5, <1>6, <1>7, <1>8, <1>9, <1>10, <1>11, <1>12, <1>13,
     <1>14, <1>15, <1>16, <1>17, <1>18, <1>19, <1>20, <1>21, <1>22, <1>23, <1>24,
     <1>25, <1>26
  DEF Next, VmStep, JavaStep, Exited

\* Every step keeps the one request and the one collection.
LEMMA RequestStep == IInv /\ [Next]_vars => RequestInv'
<1> SUFFICES ASSUME IInv, [Next]_vars PROVE RequestInv'
  OBVIOUS
<1> USE DEF IInv, TypeOK, ParentInv
<1>1. ASSUME NEW t \in Threads, Register(t) PROVE RequestInv'
  BY <1>1 DEF Register, RequestInv, OneCollection, InitLockFree
<1>2. ASSUME NEW t \in Threads, SetBit(t) PROVE RequestInv'
  BY <1>2 DEF SetBit, RequestInv, OneCollection, InitLockFree
<1>3. ASSUME NEW t \in Threads, FirstWait(t) PROVE RequestInv'
  BY <1>3 DEF FirstWait, RequestInv, OneCollection, InitLockFree
<1>4. ASSUME NEW t \in Threads, FirstWaitReturns(t) PROVE RequestInv'
  BY <1>4 DEF FirstWaitReturns, RequestInv, OneCollection, InitLockFree
<1>5. ASSUME NEW t \in Threads, BuildFrame(t) PROVE RequestInv'
  BY <1>5 DEF BuildFrame, RequestInv, OneCollection, InitLockFree
<1>6. ASSUME NEW t \in Threads, PushFrame(t) PROVE RequestInv'
  BY <1>6 DEF PushFrame, RequestInv, OneCollection, InitLockFree
<1>7. ASSUME NEW t \in Threads, CheckTrigger(t) PROVE RequestInv'
  BY <1>7 DEF CheckTrigger, RequestInv, OneCollection, InitLockFree
<1>8. ASSUME NEW t \in Threads, InitGc(t) PROVE RequestInv'
  <2>1. pc[t] = "trigger" /\ ~gc /\ ~inited /\ gc' = TRUE /\ pc' = [pc EXCEPT ![t] = "triggered"]
    BY <1>8 DEF InitGc, RequestInv
  <2>2. gcpc # "terminated"
    BY <2>1, ConstantsAssumption DEF ExitInv, LauncherInv
  <2>3. gc_cond = "unset" => gcpc = "wait"
    BY <2>1, <2>2 DEF RequestInv, GcPcs
  <2>4. gc_cond' = "set" => gcpc' = "wait"
    BY <1>8, <2>3 DEF InitGc, RequestInv
  <2> QED
    BY <1>8, <2>1, <2>4 DEF InitGc, RequestInv, OneCollection
<1>9. ASSUME NEW t \in Threads, SetInited(t) PROVE RequestInv'
  BY <1>9 DEF SetInited, RequestInv, OneCollection, InitLockFree
<1>10. ASSUME NEW t \in Threads, PollSafepoint(t) PROVE RequestInv'
  BY <1>10 DEF PollSafepoint, RequestInv, OneCollection, InitLockFree
<1>11. ASSUME NEW t \in Threads, Park(t) PROVE RequestInv'
  BY <1>11 DEF Park, RequestInv, OneCollection, InitLockFree
<1>12. ASSUME NEW t \in Threads, SeeGcOver(t) PROVE RequestInv'
  BY <1>12 DEF SeeGcOver, RequestInv, OneCollection, InitLockFree
<1>13. ASSUME NEW t \in Threads, Unpark(t) PROVE RequestInv'
  BY <1>13 DEF Unpark, RequestInv, OneCollection, InitLockFree
<1>14. ASSUME NEW t \in Threads, LeaveMonitor(t) PROVE RequestInv'
  BY <1>14 DEF LeaveMonitor, RequestInv, OneCollection, InitLockFree
<1>15. ASSUME NEW t \in Threads, CountThread(t) PROVE RequestInv'
  BY <1>15 DEF CountThread, RequestInv, OneCollection, InitLockFree
<1>16. ASSUME NEW t \in Threads, LaunchThread(t) PROVE RequestInv'
  <2>1. /\ pc[t] = "launch" /\ pc[operand[t]] = "pushed" /\ operand[t] \in Threads
        /\ TwoPcsChange(t, "spin", operand[t], "created")
    BY <1>16, LaunchEffect DEF LaunchThread
  <2>2. \A u \in Threads :
          \/ pc'[u] = pc[u]
          \/ /\ pc[u] \in {"launch", "pushed"}
             /\ pc'[u] \in {"spin", "created"}
    BY <2>1 DEF TwoPcsChange
  <2>3. UNCHANGED <<gc, inited, gc_cond, gcpc, pool>>
    BY <1>16 DEF LaunchThread
  <2> QED
    BY <2>2, <2>3 DEF RequestInv, OneCollection
<1>17. ASSUME NEW t \in Threads, SeeChildWaiting(t) PROVE RequestInv'
  BY <1>17 DEF SeeChildWaiting, RequestInv, OneCollection, InitLockFree
<1>18. ASSUME NEW t \in Threads, UncountThread(t) PROVE RequestInv'
  BY <1>18 DEF UncountThread, RequestInv, OneCollection, InitLockFree
<1>19. ASSUME NEW t \in Threads, Die(t) PROVE RequestInv'
  BY <1>19 DEF Die, RequestInv, OneCollection, InitLockFree
<1>20. ASSUME NEW t \in Threads, EnterMonitor(t) PROVE RequestInv'
  BY <1>20 DEF EnterMonitor, RequestInv, OneCollection, InitLockFree
<1>21. ASSUME NEW t \in Threads, CallMethod(t) PROVE RequestInv'
  BY <1>21 DEF CallMethod, RequestInv, OneCollection, InitLockFree
<1>22. ASSUME NEW t \in Threads, NEW m \in Monitors, MonitorInc(t, m) PROVE RequestInv'
  BY <1>22 DEF MonitorInc, RequestInv, OneCollection, InitLockFree
<1>23. ASSUME NEW t \in Threads, MonitorDec(t) PROVE RequestInv'
  BY <1>23 DEF MonitorDec, RequestInv, OneCollection, InitLockFree
<1>24. ASSUME NEW t \in Threads, NEW c \in Children, StartThread(t, c) PROVE RequestInv'
  <2>1. /\ TwoPcsChange(t, "count", c, "pushed") /\ pc[t] = "java" /\ pc[c] = "unborn"
        /\ operand' = [operand EXCEPT ![t] = c]
        /\ UNCHANGED <<state, table, bit, monitor_num, locks, gcVars, pool, exitVars>>
    BY <1>24, StartEffect DEF StartThread
  <2> QED
    BY <2>1 DEF TwoPcsChange, RequestInv, OneCollection, InitLockFree
<1>25. ASSUME NEW t \in Threads, Return(t) PROVE RequestInv'
  BY <1>25 DEF Return, RequestInv, OneCollection, InitLockFree
<1>26. CASE CreateGcCond \/ WaitGcCond \/ BeginScan \/ AllReady
  BY <1>26 DEF CreateGcCond, WaitGcCond, BeginScan, AllReady, RequestInv, OneCollection
<1>27. CASE EndGc
  <2>1. \A t \in Threads : pc[t] \notin {"triggered", "unpark"}
    BY <1>27 DEF EndGc, ScanInv, Quiet
  <2>2. inited /\ pool = 0 /\ gc
    BY <1>27, <2>1 DEF EndGc, RequestInv, OneCollection
  <2> QED
    BY <1>27, <2>1, <2>2 DEF EndGc, RequestInv, OneCollection
<1>28. ASSUME NEW t \in Threads, SeeReady(t) \/ SeeNotReady(t) \/ CopyRoots(t) PROVE RequestInv'
  BY <1>28 DEF SeeReady, SeeNotReady, CopyRoots, RequestInv, OneCollection
<1>29. CASE LauncherStep \/ UNCHANGED vars
  BY <1>29 DEF LauncherStep, JoinMain, SignalAllPatch, SeeNoThreads, CancelGcThread, End,
           vars, RequestInv, OneCollection
<1> QED
  BY <1>1, <1>2, <1>3, <1>4, <1>5, <1>6, <1>7, <1>8, <1>9, <1>10, <1>11, <1>12, <1>13,
     <1>14, <1>15, <1>16, <1>17, <1>18, <1>19, <1>20, <1>21, <1>22, <1>23, <1>24,
     <1>25, <1>26, <1>27, <1>28, <1>29
  DEF Next, VmStep, JavaStep, Exited, GcStep, LauncherStep

\* Every step keeps quiet the threads that the scan has found ready.
LEMMA ScanStep == IInv /\ [Next]_vars => ScanInv'
<1> SUFFICES ASSUME IInv, [Next]_vars PROVE ScanInv'
  OBVIOUS
<1> USE DEF IInv, TypeOK, ParentInv
<1>1. ASSUME NEW t \in Threads, Register(t) PROVE ScanInv'
  BY <1>1 DEF Register, ScanInv, Quiet
<1>2. ASSUME NEW t \in Threads, SetBit(t) PROVE ScanInv'
  BY <1>2 DEF SetBit, ScanInv, Quiet
<1>3. ASSUME NEW t \in Threads, FirstWait(t) PROVE ScanInv'
  BY <1>3 DEF FirstWait, ScanInv, Quiet
<1>4. ASSUME NEW t \in Threads, FirstWaitReturns(t) PROVE ScanInv'
  BY <1>4 DEF FirstWaitReturns, ScanInv, Quiet
<1>5. ASSUME NEW t \in Threads, BuildFrame(t) PROVE ScanInv'
  BY <1>5 DEF BuildFrame, ScanInv, Quiet
<1>6. ASSUME NEW t \in Threads, PushFrame(t) PROVE ScanInv'
  BY <1>6 DEF PushFrame, ScanInv, Quiet
<1>7. ASSUME NEW t \in Threads, CheckTrigger(t) PROVE ScanInv'
  BY <1>7 DEF CheckTrigger, ScanInv, Quiet, RequestInv, InitLockFree
<1>8. ASSUME NEW t \in Threads, InitGc(t) PROVE ScanInv'
  BY <1>8 DEF InitGc, ScanInv, Quiet
<1>9. ASSUME NEW t \in Threads, SetInited(t) PROVE ScanInv'
  BY <1>9 DEF SetInited, ScanInv, Quiet
<1>10. ASSUME NEW t \in Threads, PollSafepoint(t) PROVE ScanInv'
  BY <1>10 DEF PollSafepoint, ScanInv, Quiet, RequestInv, MonitorInv
<1>11. ASSUME NEW t \in Threads, Park(t) PROVE ScanInv'
  BY <1>11 DEF Park, ScanInv, Quiet
<1>12. ASSUME NEW t \in Threads, SeeGcOver(t) PROVE ScanInv'
  BY <1>12 DEF SeeGcOver, ScanInv, Quiet, RequestInv
<1>13. ASSUME NEW t \in Threads, Unpark(t) PROVE ScanInv'
  BY <1>13 DEF Unpark, ScanInv, Quiet
<1>14. ASSUME NEW t \in Threads, LeaveMonitor(t) PROVE ScanInv'
  BY <1>14 DEF LeaveMonitor, ScanInv, Quiet
<1>15. ASSUME NEW t \in Threads, CountThread(t) PROVE ScanInv'
  BY <1>15 DEF CountThread, ScanInv, Quiet
<1>16. ASSUME NEW t \in Threads, LaunchThread(t) PROVE ScanInv'
  <2>1. /\ operand[t] \in Children /\ pc[t] = "launch" /\ pc[operand[t]] = "pushed"
        /\ TwoPcsChange(t, "spin", operand[t], "created")
        /\ UNCHANGED <<threadVars, gcVars, heapVars, exitVars>>
    BY <1>16, LaunchEffect DEF LaunchThread
  <2> QED
    BY <2>1 DEF TwoPcsChange, ScanInv, Quiet
<1>17. ASSUME NEW t \in Threads, SeeChildWaiting(t) PROVE ScanInv'
  BY <1>17 DEF SeeChildWaiting, ScanInv, Quiet
<1>18. ASSUME NEW t \in Threads, UncountThread(t) PROVE ScanInv'
  BY <1>18 DEF UncountThread, ScanInv, Quiet
<1>19. ASSUME NEW t \in Threads, Die(t) PROVE ScanInv'
  BY <1>19 DEF Die, ScanInv, Quiet
<1>20. ASSUME NEW t \in Threads, EnterMonitor(t) PROVE ScanInv'
  BY <1>20 DEF EnterMonitor, ScanInv, Quiet
<1>21. ASSUME NEW t \in Threads, CallMethod(t) PROVE ScanInv'
  BY <1>21 DEF CallMethod, ScanInv, Quiet
<1>22. ASSUME NEW t \in Threads, NEW m \in Monitors, MonitorInc(t, m) PROVE ScanInv'
  BY <1>22 DEF MonitorInc, ScanInv, Quiet
<1>23. ASSUME NEW t \in Threads, MonitorDec(t) PROVE ScanInv'
  BY <1>23 DEF MonitorDec, ScanInv, Quiet
<1>24. ASSUME NEW t \in Threads, NEW c \in Children, StartThread(t, c) PROVE ScanInv'
  <2>1. /\ TwoPcsChange(t, "count", c, "pushed") /\ pc[t] = "java" /\ pc[c] = "unborn"
        /\ operand' = [operand EXCEPT ![t] = c]
        /\ UNCHANGED <<state, table, bit, monitor_num, locks, gcVars, pool, exitVars>>
    BY <1>24, StartEffect DEF StartThread
  <2> QED
    BY <2>1 DEF TwoPcsChange, ScanInv, Quiet
<1>25. ASSUME NEW t \in Threads, Return(t) PROVE ScanInv'
  BY <1>25 DEF Return, ScanInv, Quiet
<1>26. CASE CreateGcCond \/ WaitGcCond \/ BeginScan
  BY <1>26 DEF CreateGcCond, WaitGcCond, BeginScan, ScanInv, Quiet
<1>27. ASSUME NEW t \in Threads, SeeReady(t) PROVE ScanInv'
  <2>1. pc[t] \in {"waited", "parked", "unpark", "done"}
    BY <1>27 DEF SeeReady, StateInv, StateOfPc
  <2>2. Quiet(t)
    BY <1>27, <2>1 DEF SeeReady, Quiet, RequestInv, OneCollection, MonitorInv, StartPcs, ExitPcs
  <2>3. Quiet(t)'
    BY <1>27, <2>2 DEF SeeReady, Quiet
  <2>4. ASSUME NEW u \in visited PROVE Quiet(u)'
    BY <1>27, <2>4 DEF SeeReady, Quiet, ScanInv
  <2> QED
    BY <1>27, <2>3, <2>4 DEF SeeReady, ScanInv
<1>28. ASSUME NEW t \in Threads, SeeNotReady(t) \/ CopyRoots(t) PROVE ScanInv'
  BY <1>28 DEF SeeNotReady, CopyRoots, ScanInv, Quiet
<1>29. CASE AllReady
  <2>1. gc /\ gcpc = "scan" /\ gcpc' = "collect" /\ UNCHANGED <<pc, locks>>
    BY <1>29 DEF AllReady, RequestInv
  <2>2. \A t \in table : Quiet(t)
    BY <1>29 DEF AllReady, ScanInv
  <2>3. pc[Main] # "created"
    BY <2>1 DEF MainInv
  <2>4. Main \in table
    BY <2>3 DEF StateInv, MainInv
  <2>5. ASSUME NEW c \in Children, pc[c] \in {"pushed", "created"} PROVE FALSE
    <3>1. PICK u \in Threads : pc[u] \in {"count", "launch", "spin"}
      BY <2>5 DEF HasStarterInv
    <3>2. u \in table
      BY <3>1 DEF StateInv
    <3> QED
      BY <2>2, <3>1, <3>2 DEF Quiet
  <2>6. \A t \in Threads : Quiet(t) \/ pc[t] = "unborn"
    BY <2>2, <2>4, <2>5 DEF StateInv
  <2> QED
    BY <2>1, <2>6 DEF ScanInv, Quiet
<1>30. CASE EndGc
  BY <1>30 DEF EndGc, ScanInv
<1>31. CASE LauncherStep \/ UNCHANGED vars
  BY <1>31 DEF LauncherStep, JoinMain, SignalAllPatch, SeeNoThreads, CancelGcThread, End,
           vars, ScanInv, Quiet
<1> QED
  BY <1>1, <1>2, <1>3, <1>4, <1>5, <1>6, <1>7, <1>8, <1>9, <1>10, <1>11, <1>12, <1>13,
     <1>14, <1>15, <1>16, <1>17, <1>18, <1>19, <1>20, <1>21, <1>22, <1>23, <1>24,
     <1>25, <1>26, <1>27, <1>28, <1>29, <1>30, <1>31
  DEF Next, VmStep, JavaStep, Exited, GcStep, LauncherStep

\* A child stays announced when no parent reaches or leaves launch().
LEMMA SameAnnounced ==
  ASSUME \A u \in Threads : /\ pc'[u] = "launch" <=> pc[u] = "launch"
                            /\ pc[u] = "launch" => operand'[u] = operand[u]
  PROVE  \A c \in Children : Announced(c)' <=> Announced(c)
  BY DEF Announced

\* Steps that move no child into or out of the counted stretch of its life.
LEMMA SameCounted ==
  ASSUME \A c \in Children : /\ pc'[c] \in CountedPcs <=> pc[c] \in CountedPcs
                             /\ pc'[c] = "pushed" <=> pc[c] = "pushed",
         \A u \in Threads : /\ pc'[u] = "launch" <=> pc[u] = "launch"
                            /\ pc[u] = "launch" => operand'[u] = operand[u]
  PROVE  Counted' = Counted
  BY SameAnnounced DEF Counted

\* The same, when one child c changes but stays on its side.
LEMMA SameCountedBut ==
  ASSUME NEW c \in Children,
         c \in Counted' <=> c \in Counted,
         \A d \in Children \ {c} : /\ pc'[d] \in CountedPcs <=> pc[d] \in CountedPcs
                                   /\ pc'[d] = "pushed" <=> pc[d] = "pushed"
                                   /\ Announced(d)' <=> Announced(d)
  PROVE  Counted' = Counted
<1>1. ASSUME NEW d \in Children, d # c PROVE d \in Counted' <=> d \in Counted
  <2>1. /\ pc'[d] \in CountedPcs <=> pc[d] \in CountedPcs
        /\ pc'[d] = "pushed" <=> pc[d] = "pushed"
        /\ Announced(d)' <=> Announced(d)
    BY <1>1
  <2>2. d \in Counted' <=> pc'[d] \in CountedPcs \/ (pc'[d] = "pushed" /\ Announced(d)')
    BY DEF Counted
  <2>3. d \in Counted <=> pc[d] \in CountedPcs \/ (pc[d] = "pushed" /\ Announced(d))
    BY DEF Counted
  <2> QED
    BY <2>1, <2>2, <2>3
<1>2. Counted \subseteq Children /\ Counted' \subseteq Children
  BY DEF Counted
<1> QED
  BY <1>1, <1>2

\* Every step keeps thread_num equal to the number of counted children.
LEMMA CountStep == IInv /\ [Next]_vars => CountInv'
<1> SUFFICES ASSUME IInv, [Next]_vars PROVE CountInv'
  OBVIOUS
<1> USE ConstantsAssumption DEF IInv, TypeOK, ParentInv, ExitInv
<1>1. ASSUME NEW t \in Threads, Register(t) PROVE CountInv'
  BY <1>1, SameCounted DEF Register, CountInv, CountedPcs, StartPcs, ProloguePcs, JavaPcs
<1>2. ASSUME NEW t \in Threads, SetBit(t) PROVE CountInv'
  BY <1>2, SameCounted DEF SetBit, CountInv, CountedPcs, StartPcs, ProloguePcs, JavaPcs
<1>3. ASSUME NEW t \in Threads, FirstWait(t) PROVE CountInv'
  BY <1>3, SameCounted DEF FirstWait, CountInv, CountedPcs, StartPcs, ProloguePcs, JavaPcs
<1>4. ASSUME NEW t \in Threads, FirstWaitReturns(t) PROVE CountInv'
  BY <1>4, SameCounted DEF FirstWaitReturns, CountInv, CountedPcs, StartPcs, ProloguePcs, JavaPcs
<1>5. ASSUME NEW t \in Threads, BuildFrame(t) PROVE CountInv'
  BY <1>5, SameCounted DEF BuildFrame, CountInv, CountedPcs, StartPcs, ProloguePcs, JavaPcs
<1>6. ASSUME NEW t \in Threads, PushFrame(t) PROVE CountInv'
  BY <1>6, SameCounted DEF PushFrame, CountInv, CountedPcs, StartPcs, ProloguePcs, JavaPcs
<1>7. ASSUME NEW t \in Threads, CheckTrigger(t) PROVE CountInv'
  BY <1>7, SameCounted DEF CheckTrigger, CountInv, CountedPcs, StartPcs, ProloguePcs, JavaPcs
<1>8. ASSUME NEW t \in Threads, InitGc(t) PROVE CountInv'
  BY <1>8, SameCounted DEF InitGc, CountInv, CountedPcs, StartPcs, ProloguePcs, JavaPcs
<1>9. ASSUME NEW t \in Threads, SetInited(t) PROVE CountInv'
  BY <1>9, SameCounted DEF SetInited, CountInv, CountedPcs, StartPcs, ProloguePcs, JavaPcs
<1>10. ASSUME NEW t \in Threads, PollSafepoint(t) PROVE CountInv'
  BY <1>10, SameCounted DEF PollSafepoint, CountInv, CountedPcs, StartPcs, ProloguePcs, JavaPcs
<1>11. ASSUME NEW t \in Threads, Park(t) PROVE CountInv'
  BY <1>11, SameCounted DEF Park, CountInv, CountedPcs, StartPcs, ProloguePcs, JavaPcs
<1>12. ASSUME NEW t \in Threads, SeeGcOver(t) PROVE CountInv'
  BY <1>12, SameCounted DEF SeeGcOver, CountInv, CountedPcs, StartPcs, ProloguePcs, JavaPcs
<1>13. ASSUME NEW t \in Threads, Unpark(t) PROVE CountInv'
  BY <1>13, SameCounted DEF Unpark, CountInv, CountedPcs, StartPcs, ProloguePcs, JavaPcs
<1>14. ASSUME NEW t \in Threads, LeaveMonitor(t) PROVE CountInv'
  BY <1>14, SameCounted DEF LeaveMonitor, CountInv, CountedPcs, StartPcs, ProloguePcs, JavaPcs
<1>15. ASSUME NEW t \in Threads, CountThread(t) PROVE CountInv'
  <2> DEFINE c == operand[t]
  <2>1. /\ c \in Children /\ pc[c] = "pushed" /\ pc[t] = "count"
        /\ pc' = [pc EXCEPT ![t] = "launch"] /\ operand' = operand
        /\ thread_num' = thread_num + 1
    BY <1>15 DEF CountThread, StarterInv
  <2>2. c \notin Counted
    BY <2>1 DEF Counted, CountedPcs, Announced, OneStarterInv, StartPcs, ProloguePcs, JavaPcs
  <2>3. \A d \in Children : /\ pc'[d] \in CountedPcs <=> pc[d] \in CountedPcs
                            /\ pc'[d] = "pushed" <=> pc[d] = "pushed"
    BY <2>1 DEF CountedPcs, StartPcs, ProloguePcs, JavaPcs
  <2>4. \A u \in Threads : pc'[u] = "launch" <=> pc[u] = "launch" \/ u = t
    BY <2>1
  <2>6. ASSUME NEW d \in Children PROVE Announced(d)' <=> Announced(d) \/ d = c
    BY <2>1, <2>4 DEF Announced
  <2>5. Counted' = Counted \cup {c}
    BY SMTT(30), <2>1, <2>3, <2>6 DEF Counted, CountedPcs, StartPcs, ProloguePcs, JavaPcs
  <2> QED
    BY <2>1, <2>2, <2>5, CountedFinite, FS_AddElement DEF CountInv
<1>16. ASSUME NEW t \in Threads, LaunchThread(t) PROVE CountInv'
  <2> DEFINE c == operand[t]
  <2>1. /\ c \in Children /\ pc[t] = "launch" /\ pc[c] = "pushed"
        /\ TwoPcsChange(t, "spin", c, "created") /\ operand' = operand
        /\ thread_num' = thread_num
    BY <1>16, LaunchEffect DEF LaunchThread
  <2>2. \A u \in Threads \ {t} : /\ pc'[u] = "launch" <=> pc[u] = "launch"
                                 /\ pc[u] = "launch" => operand[u] # c
    BY <2>1 DEF TwoPcsChange, OneStarterInv
  <2>3. \A d \in Children \ {c} : /\ pc'[d] \in CountedPcs <=> pc[d] \in CountedPcs
                                  /\ pc'[d] = "pushed" <=> pc[d] = "pushed"
    BY <2>1 DEF TwoPcsChange, CountedPcs, StartPcs, ProloguePcs, JavaPcs
  <2>4. c \in Counted /\ c \in Counted'
    BY <2>1 DEF TwoPcsChange, Counted, CountedPcs, Announced, StartPcs
  <2>5. ASSUME NEW d \in Children \ {c} PROVE Announced(d)' <=> Announced(d)
    BY <2>1, <2>2 DEF Announced, TwoPcsChange
  <2> HIDE DEF c
  <2>6. Counted' = Counted
    BY <2>1, <2>3, <2>4, <2>5, SameCountedBut
  <2> QED
    BY <2>1, <2>6 DEF CountInv
<1>17. ASSUME NEW t \in Threads, SeeChildWaiting(t) PROVE CountInv'
  BY <1>17, SameCounted DEF SeeChildWaiting, CountInv, CountedPcs, StartPcs, ProloguePcs, JavaPcs
<1>18. ASSUME NEW t \in Threads, UncountThread(t) PROVE CountInv'
  <2>1. /\ pc[t] = "dec" /\ pc' = [pc EXCEPT ![t] = "death"] /\ operand' = operand
        /\ thread_num' = thread_num - 1
    BY <1>18 DEF UncountThread
  <2>2. t \in Counted
    BY <2>1 DEF Counted, CountedPcs, MainInv
  <2>4. ASSUME NEW d \in Children PROVE Announced(d)' <=> Announced(d)
    BY <2>1 DEF Announced
  <2>3. Counted' = Counted \ {t}
    BY <2>1, <2>4 DEF Counted, CountedPcs, StartPcs, ProloguePcs, JavaPcs
  <2> QED
    BY <2>1, <2>2, <2>3, CountedFinite, FS_RemoveElement DEF CountInv
<1>19. ASSUME NEW t \in Threads, Die(t) PROVE CountInv'
  BY <1>19, SameCounted DEF Die, CountInv, CountedPcs, StartPcs, ProloguePcs, JavaPcs
<1>20. ASSUME NEW t \in Threads, EnterMonitor(t) PROVE CountInv'
  BY <1>20, SameCounted DEF EnterMonitor, CountInv, CountedPcs, StartPcs, ProloguePcs, JavaPcs
<1>21. ASSUME NEW t \in Threads, CallMethod(t) PROVE CountInv'
  BY <1>21, SameCounted DEF CallMethod, CountInv, CountedPcs, StartPcs, ProloguePcs, JavaPcs
<1>22. ASSUME NEW t \in Threads, NEW m \in Monitors, MonitorInc(t, m) PROVE CountInv'
  BY <1>22, SameCounted DEF MonitorInc, CountInv, CountedPcs, StartPcs, ProloguePcs, JavaPcs
<1>23. ASSUME NEW t \in Threads, MonitorDec(t) PROVE CountInv'
  BY <1>23, SameCounted DEF MonitorDec, CountInv, CountedPcs, StartPcs, ProloguePcs, JavaPcs
<1>24. ASSUME NEW t \in Threads, NEW c \in Children, StartThread(t, c) PROVE CountInv'
  <2>1. /\ TwoPcsChange(t, "count", c, "pushed") /\ pc[t] = "java" /\ pc[c] = "unborn"
        /\ operand' = [operand EXCEPT ![t] = c] /\ thread_num' = thread_num
    BY <1>24, StartEffect DEF StartThread
  <2>2. \A u \in Threads : /\ pc'[u] = "launch" <=> pc[u] = "launch"
                           /\ pc[u] = "launch" => operand'[u] = operand[u] /\ operand[u] # c
    BY <2>1 DEF TwoPcsChange, StarterInv
  <2>3. \A d \in Children \ {c} : /\ pc'[d] \in CountedPcs <=> pc[d] \in CountedPcs
                                  /\ pc'[d] = "pushed" <=> pc[d] = "pushed"
    BY <2>1 DEF TwoPcsChange, CountedPcs, StartPcs, ProloguePcs, JavaPcs
  <2>4. c \notin Counted /\ c \notin Counted'
    BY <2>1, <2>2 DEF TwoPcsChange, Counted, CountedPcs, Announced, StartPcs, ProloguePcs, JavaPcs
  <2>6. \A u \in Threads : /\ pc'[u] = "launch" <=> pc[u] = "launch"
                           /\ pc[u] = "launch" => operand'[u] = operand[u]
    BY <2>2
  <2>7. \A d \in Children : Announced(d)' <=> Announced(d)
    BY <2>6, SameAnnounced
  <2>5. Counted' = Counted
    BY <2>3, <2>4, <2>7, SameCountedBut
  <2> QED
    BY <2>1, <2>5 DEF CountInv
<1>25. ASSUME NEW t \in Threads, Return(t) PROVE CountInv'
  BY <1>25, SameCounted DEF Return, CountInv, CountedPcs, StartPcs, ProloguePcs, JavaPcs, MainInv
<1>26. CASE GcStep \/ LauncherStep \/ UNCHANGED vars
  <2>1. UNCHANGED <<pc, operand, thread_num>>
    BY <1>26 DEF GcStep, LauncherStep, vars, CreateGcCond, WaitGcCond, BeginScan, AllReady,
             EndGc, SeeReady, SeeNotReady, CopyRoots, JoinMain, SignalAllPatch,
             SeeNoThreads, CancelGcThread, End
  <2> QED
    BY <2>1 DEF CountInv, Counted, Announced
<1> QED
  BY <1>1, <1>2, <1>3, <1>4, <1>5, <1>6, <1>7, <1>8, <1>9, <1>10, <1>11, <1>12, <1>13,
     <1>14, <1>15, <1>16, <1>17, <1>18, <1>19, <1>20, <1>21, <1>22, <1>23, <1>24,
     <1>25, <1>26
  DEF Next, VmStep, JavaStep, Exited, GcStep, LauncherStep

\* Every step keeps the launcher behind the threads it waits for.
LEMMA LauncherInvStep == IInv /\ [Next]_vars => LauncherInv'
<1> SUFFICES ASSUME IInv, [Next]_vars PROVE LauncherInv'
  OBVIOUS
<1> USE ConstantsAssumption DEF IInv, TypeOK, ParentInv, ExitInv
<1>1. ASSUME NEW t \in Threads, Register(t) PROVE LauncherInv'
  BY <1>1 DEF Register, LauncherInv
<1>2. ASSUME NEW t \in Threads, SetBit(t) PROVE LauncherInv'
  BY <1>2 DEF SetBit, LauncherInv
<1>3. ASSUME NEW t \in Threads, FirstWait(t) PROVE LauncherInv'
  BY <1>3 DEF FirstWait, LauncherInv
<1>4. ASSUME NEW t \in Threads, FirstWaitReturns(t) PROVE LauncherInv'
  BY <1>4 DEF FirstWaitReturns, LauncherInv
<1>5. ASSUME NEW t \in Threads, BuildFrame(t) PROVE LauncherInv'
  BY <1>5 DEF BuildFrame, LauncherInv
<1>6. ASSUME NEW t \in Threads, PushFrame(t) PROVE LauncherInv'
  BY <1>6 DEF PushFrame, LauncherInv
<1>7. ASSUME NEW t \in Threads, CheckTrigger(t) PROVE LauncherInv'
  BY <1>7 DEF CheckTrigger, LauncherInv
<1>8. ASSUME NEW t \in Threads, InitGc(t) PROVE LauncherInv'
  BY <1>8 DEF InitGc, LauncherInv
<1>9. ASSUME NEW t \in Threads, SetInited(t) PROVE LauncherInv'
  BY <1>9 DEF SetInited, LauncherInv
<1>10. ASSUME NEW t \in Threads, PollSafepoint(t) PROVE LauncherInv'
  BY <1>10 DEF PollSafepoint, LauncherInv
<1>11. ASSUME NEW t \in Threads, Park(t) PROVE LauncherInv'
  BY <1>11 DEF Park, LauncherInv
<1>12. ASSUME NEW t \in Threads, SeeGcOver(t) PROVE LauncherInv'
  BY <1>12 DEF SeeGcOver, LauncherInv
<1>13. ASSUME NEW t \in Threads, Unpark(t) PROVE LauncherInv'
  BY <1>13 DEF Unpark, LauncherInv
<1>14. ASSUME NEW t \in Threads, LeaveMonitor(t) PROVE LauncherInv'
  BY <1>14 DEF LeaveMonitor, LauncherInv
<1>15. ASSUME NEW t \in Threads, CountThread(t) PROVE LauncherInv'
  BY <1>15 DEF CountThread, LauncherInv
<1>16. ASSUME NEW t \in Threads, LaunchThread(t) PROVE LauncherInv'
  <2>1. /\ operand[t] \in Children /\ pc[t] = "launch" /\ pc[operand[t]] = "pushed"
        /\ TwoPcsChange(t, "spin", operand[t], "created")
        /\ UNCHANGED <<threadVars, gcVars, heapVars, exitVars>>
    BY <1>16, LaunchEffect DEF LaunchThread
  <2> QED
    BY <2>1 DEF TwoPcsChange, LauncherInv
<1>17. ASSUME NEW t \in Threads, SeeChildWaiting(t) PROVE LauncherInv'
  BY <1>17 DEF SeeChildWaiting, LauncherInv
<1>18. ASSUME NEW t \in Threads, UncountThread(t) PROVE LauncherInv'
  BY <1>18 DEF UncountThread, LauncherInv
<1>19. ASSUME NEW t \in Threads, Die(t) PROVE LauncherInv'
  BY <1>19 DEF Die, LauncherInv
<1>20. ASSUME NEW t \in Threads, EnterMonitor(t) PROVE LauncherInv'
  BY <1>20 DEF EnterMonitor, LauncherInv
<1>21. ASSUME NEW t \in Threads, CallMethod(t) PROVE LauncherInv'
  BY <1>21 DEF CallMethod, LauncherInv
<1>22. ASSUME NEW t \in Threads, NEW m \in Monitors, MonitorInc(t, m) PROVE LauncherInv'
  BY <1>22 DEF MonitorInc, LauncherInv
<1>23. ASSUME NEW t \in Threads, MonitorDec(t) PROVE LauncherInv'
  BY <1>23 DEF MonitorDec, LauncherInv
<1>24. ASSUME NEW t \in Threads, NEW c \in Children, StartThread(t, c) PROVE LauncherInv'
  <2>1. /\ TwoPcsChange(t, "count", c, "pushed") /\ pc[t] = "java" /\ pc[c] = "unborn"
        /\ operand' = [operand EXCEPT ![t] = c]
        /\ UNCHANGED <<state, table, bit, monitor_num, locks, gcVars, pool, exitVars>>
    BY <1>24, StartEffect DEF StartThread
  <2> QED
    BY <2>1 DEF TwoPcsChange, LauncherInv
<1>25. ASSUME NEW t \in Threads, Return(t) PROVE LauncherInv'
  BY <1>25 DEF Return, LauncherInv
<1>26. CASE CreateGcCond \/ WaitGcCond \/ BeginScan \/ AllReady \/ EndGc
  BY <1>26 DEF CreateGcCond, WaitGcCond, BeginScan, AllReady, EndGc, LauncherInv
<1>27. ASSUME NEW t \in Threads, SeeReady(t) \/ SeeNotReady(t) \/ CopyRoots(t) PROVE LauncherInv'
  BY <1>27 DEF SeeReady, SeeNotReady, CopyRoots, LauncherInv
<1>28. CASE SeeNoThreads
  <2>1. Counted = {}
    BY <1>28, CountedFinite, FS_EmptySet DEF SeeNoThreads, CountInv
  <2>2. pc[Main] = "done"
    BY <1>28 DEF SeeNoThreads, LauncherInv
  <2>3. ASSUME NEW c \in Children PROVE pc[c] \notin CountedPcs
    BY <2>1 DEF Counted, CountedPcs
  <2>4. ASSUME NEW c \in Children PROVE pc[c] # "pushed"
    <3>1. \A u \in Threads : pc[u] \notin {"count", "launch"}
      BY <2>2, <2>3 DEF CountedPcs, JavaPcs
    <3> QED
      BY <3>1 DEF HasStarterInv
  <2>5. ASSUME NEW c \in Children PROVE pc[c] \in {"unborn", "death", "done"}
    BY <2>3, <2>4 DEF ThreadPcs, ExitPcs, CountedPcs
  <2> QED
    BY <1>28, <2>5 DEF SeeNoThreads, LauncherInv
<1>29. CASE JoinMain \/ SignalAllPatch \/ CancelGcThread \/ End \/ UNCHANGED vars
  BY <1>29 DEF JoinMain, SignalAllPatch, CancelGcThread, End, vars, LauncherInv
<1> QED
  BY <1>1, <1>2, <1>3, <1>4, <1>5, <1>6, <1>7, <1>8, <1>9, <1>10, <1>11, <1>12, <1>13,
     <1>14, <1>15, <1>16, <1>17, <1>18, <1>19, <1>20, <1>21, <1>22, <1>23, <1>24,
     <1>25, <1>26, <1>27, <1>28, <1>29
  DEF Next, VmStep, JavaStep, Exited, GcStep, LauncherStep

-----------------------------------------------------------------------------
(* The invariant.                                                          *)

\* The machine starts in a state of the invariant: Main is launched, nothing else.
LEMMA Initially == Init => IInv
<1> SUFFICES ASSUME Init PROVE IInv
  OBVIOUS
<1> USE ConstantsAssumption DEF Init
<1>1. TypeOK
  <2>1. <<>> \in Seq(Monitors)
    OBVIOUS
  <2>2. locks \in [Threads -> Seq(Monitors)]
    BY <2>1
  <2>3. /\ pc \in [Threads -> ThreadPcs] /\ state \in [Threads -> {Running, Waiting, Death}]
        /\ bit \in [Threads -> BOOLEAN] /\ monitor_num \in [Threads -> Nat]
        /\ operand \in [Threads -> Children \cup Monitors \cup {None}]
        /\ arg \in [Threads -> Nat] /\ frame \in [Threads -> Nat]
    BY DEF ThreadPcs, StartPcs
  <2> QED
    BY <2>2, <2>3 DEF TypeOK, GcPcs, LauncherPcs
<1>2. StateInv
  BY DEF StateInv, StateOfPc
<1>3. MonitorInv
  BY DEF MonitorInv
<1>4. ParentInv
  BY DEF ParentInv, StarterInv, OneStarterInv, HasStarterInv, MainInv, StartPcs
<1>5. RequestInv /\ ScanInv
  BY DEF RequestInv, ScanInv, OneCollection
<1>6. CountInv
  <2>1. Counted = {}
    BY DEF Counted, CountedPcs, StartPcs, ProloguePcs, JavaPcs
  <2> QED
    BY <2>1, FS_EmptySet DEF CountInv
<1>7. LauncherInv
  BY DEF LauncherInv
<1> QED
  BY <1>1, <1>2, <1>3, <1>4, <1>5, <1>6, <1>7 DEF IInv, ExitInv

\* Every step, and every stuttering step, stays in the invariant.
LEMMA Inductive == IInv /\ [Next]_vars => IInv'
  BY TypeStep, StateStep, MonitorStep, StarterStep, OneStarterStep, HasStarterStep,
     MainStep, RequestStep, ScanStep, CountStep, LauncherInvStep
  DEF IInv, ParentInv, ExitInv

\* IInv holds of every reachable state of the virtual machine's safepoints.
THEOREM Invariance == Spec => []IInv
  BY Initially, Inductive, PTL DEF Spec

\* Every variable keeps its type; in particular thread_num and monitor_num, which
\* the code decrements, never become negative.
THEOREM TypeCorrect == Spec => []TypeOK
<1>1. IInv => TypeOK
  BY DEF IInv
<1> QED
  BY <1>1, Invariance, PTL

-----------------------------------------------------------------------------
(* What holds while system_gc moves objects.                               *)

\* No thread executes bytecode or a native during the collection: scapegoat,
\* execute's prologue and wait_cur_thread against detect_ready.
THEOREM CollectionIsAlone == Spec => []NoJavaWhileCollecting
<1>1. IInv => NoJavaWhileCollecting
  BY DEF IInv, ScanInv, NoJavaWhileCollecting, Collecting, Quiet, JavaPcs
<1> QED
  BY <1>1, Invariance, PTL

\* No monitor is owned or counted during the collection: the guard monitor_num == 0
\* of the safepoint, with monitor_inc before enter and monitor_dec before leave.
THEOREM CollectionFindsNoMonitor == Spec => []NoMonitorWhileCollecting
<1>1. ASSUME IInv, Collecting, NEW t \in Threads
      PROVE  locks[t] = <<>> /\ monitor_num[t] = 0
  <2>1. locks[t] = <<>> /\ pc[t] \notin {"enter", "leave"}
    BY <1>1 DEF IInv, ScanInv, MonitorInv, Collecting, Quiet
  <2> QED
    BY <1>1, <2>1 DEF IInv, MonitorInv
<1>2. IInv => NoMonitorWhileCollecting
  BY <1>1 DEF NoMonitorWhileCollecting
<1> QED
  BY <1>2, Invariance, PTL

\* automan_jvm::threads() has no element that ThreadTable lacks during the
\* collection: JVM_StartThread returns only when the child is registered.
THEOREM CollectionFindsAllThreads == Spec => []NoHalfStartedThread
<1>1. IInv => NoHalfStartedThread
  BY DEF IInv, TypeOK, ScanInv, StateInv, NoHalfStartedThread, Collecting, Quiet, VmThreads
<1> QED
  BY <1>1, Invariance, PTL

\* The process collects at most once, whatever the number of threads: `inited`
\* under init_lock and the gc bit under gc_lock.
THEOREM CollectsOnce == Spec => []OneCollection
<1>1. IInv => OneCollection
  BY DEF IInv, RequestInv
<1> QED
  BY <1>1, Invariance, PTL

\* The launcher reaches automan_jvm::end only after every thread has ended.
THEOREM ExitIsQuiet == Spec => []EndIsQuiet
<1>1. ASSUME IInv, launcher \in {"end", "over"}
      PROVE  /\ ~gc /\ gcpc = "terminated"
             /\ \A t \in Threads : pc[t] \in {"unborn", "death", "done"}
  BY <1>1 DEF IInv, ExitInv, LauncherInv
<1>2. IInv => EndIsQuiet
  BY <1>1 DEF EndIsQuiet
<1> QED
  BY <1>2, Invariance, PTL

-----------------------------------------------------------------------------
(* Safepoint implements StopTheWorld.                                      *)

Java == {t \in Threads : pc[t] \in JavaPcs}
Collector == IF Collecting THEN "collecting" ELSE IF pool > 0 THEN "done" ELSE "idle"
Ended == launcher \in {"end", "over"}

\* A step of World, written with the names of the refinement mapping.
WorldStep ==
  \/ \E t \in Threads : /\ Collector # "collecting" /\ ~Ended
                        /\ Java' = Java \cup {t}
                        /\ UNCHANGED <<Collector, Ended>>
  \/ \E t \in Threads : Java' = Java \ {t} /\ UNCHANGED <<Collector, Ended>>
  \/ /\ Collector = "idle" /\ Collector' = "collecting"
     /\ Java = {} /\ ~Ended
     /\ UNCHANGED <<Java, Ended>>
  \/ /\ Collector = "collecting" /\ Collector' = "done"
     /\ UNCHANGED <<Java, Ended>>
  \/ /\ Java = {} /\ Collector # "collecting"
     /\ Ended' = TRUE
     /\ UNCHANGED <<Java, Collector>>
  \/ UNCHANGED <<Java, Collector, Ended>>

\* WorldStep is StopTheWorld's next-state relation under the mapping.
LEMMA WorldStepIsWorldNext ==
  ASSUME WorldStep PROVE [World!Next]_<<Java, Collector, Ended>>
  BY DEF WorldStep, Java, Collector, Ended, World!Next, World!EnterJava, World!LeaveJava,
         World!BeginCollection, World!EndCollection, World!End

\* A step of one thread that moves it neither into nor out of Java code.
LEMMA ThreadStutters ==
  ASSUME UNCHANGED <<gcpc, pool, launcher>>,
         \A u \in Threads : pc'[u] \in JavaPcs <=> pc[u] \in JavaPcs
  PROVE  WorldStep
  BY DEF WorldStep, Java, Collector, Ended, Collecting

\* A step that takes thread t into Java code.
LEMMA ThreadEnters ==
  ASSUME NEW t \in Threads, UNCHANGED <<gcpc, pool, launcher>>,
         gcpc # "collect", launcher \notin {"end", "over"},
         \A u \in Threads : pc'[u] \in JavaPcs <=> pc[u] \in JavaPcs \/ u = t
  PROVE  WorldStep
<1>1. Java' = Java \cup {t}
  BY DEF Java
<1>2. Collector # "collecting" /\ ~Ended /\ UNCHANGED <<Collector, Ended>>
  BY DEF Collector, Ended, Collecting
<1> QED
  BY <1>1, <1>2 DEF WorldStep

\* A step that takes thread t out of Java code.
LEMMA ThreadLeaves ==
  ASSUME NEW t \in Threads, UNCHANGED <<gcpc, pool, launcher>>,
         \A u \in Threads : pc'[u] \in JavaPcs <=> pc[u] \in JavaPcs /\ u # t
  PROVE  WorldStep
<1>1. Java' = Java \ {t}
  BY DEF Java
<1>2. UNCHANGED <<Collector, Ended>>
  BY DEF Collector, Ended, Collecting
<1> QED
  BY <1>1, <1>2 DEF WorldStep

\* A step of the collector or the launcher that the mapping does not see.
LEMMA SystemStutters ==
  ASSUME UNCHANGED <<pc, pool>>,
         gcpc' = "collect" <=> gcpc = "collect",
         launcher' \in {"end", "over"} <=> launcher \in {"end", "over"}
  PROVE  WorldStep
  BY DEF WorldStep, Java, Collector, Ended, Collecting

\* Every step of Safepoint is a step of StopTheWorld or leaves it unchanged.
LEMMA RefinementStep == IInv /\ IInv' /\ [Next]_vars => WorldStep
<1> SUFFICES ASSUME IInv, IInv', [Next]_vars PROVE WorldStep
  OBVIOUS
<1> USE ConstantsAssumption DEF IInv, TypeOK, ParentInv, ExitInv
<1>0. launcher \in {"cancel", "end", "over"} =>
        \A t \in Threads : pc[t] \in {"unborn", "death", "done"}
  BY DEF LauncherInv
<1>1. ASSUME NEW t \in Threads, Register(t) PROVE WorldStep
  BY <1>1, ThreadStutters DEF Register, JavaPcs
<1>2. ASSUME NEW t \in Threads, SetBit(t) PROVE WorldStep
  BY <1>2, ThreadStutters DEF SetBit, JavaPcs
<1>3. ASSUME NEW t \in Threads, FirstWait(t) PROVE WorldStep
  BY <1>3, ThreadStutters DEF FirstWait, JavaPcs
<1>4. ASSUME NEW t \in Threads, FirstWaitReturns(t) PROVE WorldStep
  BY <1>4, ThreadStutters DEF FirstWaitReturns, JavaPcs
<1>5. ASSUME NEW t \in Threads, BuildFrame(t) PROVE WorldStep
  BY <1>5, ThreadStutters DEF BuildFrame, JavaPcs
<1>6. ASSUME NEW t \in Threads, PushFrame(t) PROVE WorldStep
  BY <1>6, ThreadStutters DEF PushFrame, JavaPcs
<1>7. ASSUME NEW t \in Threads, CheckTrigger(t) PROVE WorldStep
  BY <1>7, ThreadStutters DEF CheckTrigger, JavaPcs
<1>8. ASSUME NEW t \in Threads, InitGc(t) PROVE WorldStep
  BY <1>8, ThreadStutters DEF InitGc, JavaPcs
<1>9. ASSUME NEW t \in Threads, SetInited(t) PROVE WorldStep
  BY <1>9, ThreadStutters DEF SetInited, JavaPcs
<1>10. ASSUME NEW t \in Threads, PollSafepoint(t) PROVE WorldStep
  <2>1. CASE pc'[t] = "java"
    <3>1. gcpc # "collect"
      BY <1>10, <2>1 DEF PollSafepoint, ScanInv, RequestInv, Quiet, MonitorInv
    <3>2. launcher \notin {"end", "over"}
      BY <1>10, <1>0 DEF PollSafepoint
    <3> QED
      BY <1>10, <2>1, <3>1, <3>2, ThreadEnters DEF PollSafepoint, JavaPcs
  <2>2. CASE pc'[t] = "park"
    BY <1>10, <2>2, ThreadStutters DEF PollSafepoint, JavaPcs
  <2> QED
    BY <1>10, <2>1, <2>2 DEF PollSafepoint
<1>11. ASSUME NEW t \in Threads, Park(t) PROVE WorldStep
  BY <1>11, ThreadStutters DEF Park, JavaPcs
<1>12. ASSUME NEW t \in Threads, SeeGcOver(t) PROVE WorldStep
  BY <1>12, ThreadStutters DEF SeeGcOver, JavaPcs
<1>13. ASSUME NEW t \in Threads, Unpark(t) PROVE WorldStep
  <2>1. gcpc # "collect" /\ launcher \notin {"end", "over"}
    BY <1>13, <1>0 DEF Unpark, ScanInv, Quiet
  <2> QED
    BY <1>13, <2>1, ThreadEnters DEF Unpark, JavaPcs
<1>14. ASSUME NEW t \in Threads, LeaveMonitor(t) PROVE WorldStep
  BY <1>14, ThreadStutters DEF LeaveMonitor, JavaPcs
<1>15. ASSUME NEW t \in Threads, CountThread(t) PROVE WorldStep
  BY <1>15, ThreadStutters DEF CountThread, JavaPcs
<1>16. ASSUME NEW t \in Threads, LaunchThread(t) PROVE WorldStep
  <2>1. /\ operand[t] \in Children /\ pc[t] = "launch" /\ pc[operand[t]] = "pushed"
        /\ TwoPcsChange(t, "spin", operand[t], "created")
        /\ UNCHANGED <<threadVars, gcVars, heapVars, exitVars>>
    BY <1>16, LaunchEffect DEF LaunchThread
  <2> QED
    BY <2>1, ThreadStutters DEF TwoPcsChange, JavaPcs
<1>17. ASSUME NEW t \in Threads, SeeChildWaiting(t) PROVE WorldStep
  BY <1>17, ThreadStutters DEF SeeChildWaiting, JavaPcs
<1>18. ASSUME NEW t \in Threads, UncountThread(t) PROVE WorldStep
  BY <1>18, ThreadStutters DEF UncountThread, JavaPcs
<1>19. ASSUME NEW t \in Threads, Die(t) PROVE WorldStep
  BY <1>19, ThreadStutters DEF Die, JavaPcs
<1>20. ASSUME NEW t \in Threads, EnterMonitor(t) PROVE WorldStep
  BY <1>20, ThreadStutters DEF EnterMonitor, JavaPcs
<1>21. ASSUME NEW t \in Threads, CallMethod(t) PROVE WorldStep
  BY <1>21, ThreadLeaves DEF CallMethod, JavaPcs
<1>22. ASSUME NEW t \in Threads, NEW m \in Monitors, MonitorInc(t, m) PROVE WorldStep
  BY <1>22, ThreadStutters DEF MonitorInc, JavaPcs
<1>23. ASSUME NEW t \in Threads, MonitorDec(t) PROVE WorldStep
  BY <1>23, ThreadStutters DEF MonitorDec, JavaPcs
<1>24. ASSUME NEW t \in Threads, NEW c \in Children, StartThread(t, c) PROVE WorldStep
  <2>1. /\ TwoPcsChange(t, "count", c, "pushed") /\ pc[t] = "java" /\ pc[c] = "unborn"
        /\ operand' = [operand EXCEPT ![t] = c]
        /\ UNCHANGED <<state, table, bit, monitor_num, locks, gcVars, pool, exitVars>>
    BY <1>24, StartEffect DEF StartThread
  <2> QED
    BY <2>1, ThreadStutters DEF TwoPcsChange, JavaPcs
<1>25. ASSUME NEW t \in Threads, Return(t) PROVE WorldStep
  BY <1>25, ThreadLeaves DEF Return, JavaPcs
<1>26. CASE CreateGcCond \/ WaitGcCond \/ BeginScan \/ UNCHANGED vars
  BY <1>26, SystemStutters DEF CreateGcCond, WaitGcCond, BeginScan, vars
<1>27. ASSUME NEW t \in Threads, SeeReady(t) \/ SeeNotReady(t) \/ CopyRoots(t) PROVE WorldStep
  BY <1>27, SystemStutters DEF SeeReady, SeeNotReady, CopyRoots
<1>28. CASE AllReady
  <2>1. Collector = "idle" /\ Collector' = "collecting"
    BY <1>28 DEF AllReady, Collector, Collecting, RequestInv, OneCollection
  <2>2. Java = {}
    <3>1. ScanInv' /\ gcpc' = "collect" /\ pc' = pc /\ locks' = locks
      BY <1>28 DEF AllReady
    <3> QED
      BY <3>1 DEF ScanInv, Quiet, Java, JavaPcs
  <2>3. ~Ended /\ UNCHANGED <<Java, Ended>>
    BY <1>28 DEF AllReady, Ended, Java, LauncherInv
  <2> QED
    BY <2>1, <2>2, <2>3 DEF WorldStep
<1>29. CASE EndGc
  <2>1. Collector = "collecting" /\ Collector' = "done" /\ UNCHANGED <<Java, Ended>>
    BY <1>29 DEF EndGc, Collector, Collecting, Java, Ended
  <2> QED
    BY <2>1 DEF WorldStep
<1>30. CASE JoinMain \/ SignalAllPatch \/ SeeNoThreads \/ End
  BY <1>30, SystemStutters DEF JoinMain, SignalAllPatch, SeeNoThreads, End
<1>31. CASE CancelGcThread
  <2>1. Java = {}
    BY <1>31, <1>0 DEF CancelGcThread, LauncherInv, Java, JavaPcs
  <2>2. Collector # "collecting" /\ UNCHANGED <<Java, Collector>> /\ Ended' = TRUE
    BY <1>31 DEF CancelGcThread, Collector, Collecting, Java, Ended, RequestInv
  <2> QED
    BY <2>1, <2>2 DEF WorldStep
<1> QED
  BY <1>1, <1>2, <1>3, <1>4, <1>5, <1>6, <1>7, <1>8, <1>9, <1>10, <1>11, <1>12, <1>13,
     <1>14, <1>15, <1>16, <1>17, <1>18, <1>19, <1>20, <1>21, <1>22, <1>23, <1>24,
     <1>25, <1>26, <1>27, <1>28, <1>29, <1>30, <1>31
  DEF Next, VmStep, JavaStep, Exited, GcStep, LauncherStep

\* The safepoints, the single collection and the orderly exit implement the
\* promise StopTheWorld makes to system_gc and to automan_jvm::end.
THEOREM Refinement == Spec => ImplementsStopTheWorld
<1>1. Init => World!Init
  BY DEF Init, World!Init, Collecting, JavaPcs
<1>2. IInv /\ IInv' /\ [Next]_vars => [World!Next]_<<Java, Collector, Ended>>
  BY RefinementStep, WorldStepIsWorldNext
<1>3. ImplementsStopTheWorld <=> World!Init /\ [][World!Next]_<<Java, Collector, Ended>>
  BY DEF ImplementsStopTheWorld, World!Spec, Java, Collector, Ended
<1> QED
  BY <1>1, <1>2, <1>3, Invariance, PTL DEF Spec

=============================================================================
