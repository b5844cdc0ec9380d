------------------------------ MODULE Exceptions ------------------------------
(***************************************************************************)
(* How an exception travels through one thread's frames. A method that     *)
(* cannot handle an exception marks its caller's frame (has_exception) and *)
(* returns the exception as if it were its result. The invoke instructions *)
(* look at the mark when the callee is back; the calls the VM itself makes *)
(* (<clinit>, invokedynamic, the upcalls of natives) do not.               *)
(***************************************************************************)
EXTENDS Naturals, Sequences, FiniteSets

CONSTANT
  MaxDepth       \* bound of the model: frames on vm_stack

ASSUME ConstantsAssumption == MaxDepth \in Nat \ {0}

VARIABLES
  stack,        \* vm_stack, the running frame last
  step,         \* what the thread does
  pc,           \* vm_thread::pc: the frame into whose code it points, 0 if nullptr
  monitor_num,  \* vm_thread::monitor_num
  quiet         \* of the program: no method that the VM calls by itself lets an
                \* exception out

vars == <<stack, step, pc, monitor_num, quiet>>

Steps == {"run", "handle", "abort", "dead", "done"}

\* call: whether an invoke instruction or the VM called the method. back: the pc
\* to restore. held: a synchronized block of the method. does: a native that has
\* thrown, or the last frame while dispatchUncaughtException runs.
Frames ==
  [kind : {"java", "native"}, call : {"invoke", "upcall"}, mark : BOOLEAN,
   sync : BOOLEAN, held : 0..1, does : {"code", "throw", "dispatch"}, back : Nat]

Frame(k, c, s) ==
  [kind |-> k, call |-> c, mark |-> FALSE, sync |-> s, held |-> 0, does |-> "code",
   back |-> pc]

Depth == Len(stack)
Top == stack[Depth]
Below == SubSeq(stack, 1, Depth - 1)

Runs(k) == step = "run" /\ Top.kind = k /\ Top.does = "code"

\* What a method returns, as the check after an invoke sees it: an object whose
\* class extends Throwable, or anything else.
Results == {"throwable", "other"}

Count(s) == IF s THEN 1 ELSE 0

-----------------------------------------------------------------------------
(* Calls.                                                                   *)

\* The thread's first method, called by start or init_and_do_main.
Init ==
  /\ stack = <<[kind |-> "java", call |-> "upcall", mark |-> FALSE, sync |-> FALSE,
                held |-> 0, does |-> "code", back |-> 0]>>
  /\ step = "run"
  /\ pc = 1
  /\ monitor_num = 0
  /\ quiet \in BOOLEAN

\* Frame f is pushed on the frames s, and a Java method starts at its first byte.
Push(s, f) ==
  /\ Depth < MaxDepth
  /\ stack' = Append(s, f)
  /\ pc' = IF f.kind = "java" THEN Depth + 1 ELSE 0
  /\ step' = "run"

\* Mutant of Invoke: the monitor is entered, not counted.
InvokeUncounted(k, s) ==
  /\ Runs("java")
  /\ Push(stack, Frame(k, "invoke", s))
  /\ UNCHANGED monitor_num

\* invokeVirtual or invokeStatic, of a Java or native method, synchronized or not.
Invoke(k, s) ==
  /\ Runs("java")
  /\ Push(stack, Frame(k, "invoke", s))
  /\ monitor_num' = monitor_num + Count(s)

\* initial_client, invokedynamic or a native calls a Java method.
Upcall ==
  /\ Runs("java") \/ Runs("native")
  /\ Push(stack, Frame("java", "upcall", FALSE))
  /\ UNCHANGED monitor_num

EnterBlock ==
  /\ Runs("java") /\ Top.held = 0
  /\ stack' = [stack EXCEPT ![Depth].held = 1]
  /\ monitor_num' = monitor_num + 1
  /\ UNCHANGED <<step, pc>>

LeaveBlock ==
  /\ Runs("java") /\ Top.held = 1
  /\ stack' = [stack EXCEPT ![Depth].held = 0]
  /\ monitor_num' = monitor_num - 1
  /\ UNCHANGED <<step, pc>>

-----------------------------------------------------------------------------
(* Returns.                                                                 *)

\* Mutant of Check: the mark stays when the exception is taken up.
CheckKeepsMark(s, v) ==
  /\ stack' = s
  /\ step' = CASE ~s[Len(s)].mark -> "run"
               [] s[Len(s)].mark /\ v = "throwable" -> "handle"
               [] OTHER -> "abort"

\* Mutant of Check: any Throwable that comes back is thrown on.
CheckResultOnly(s, v) ==
  /\ stack' = [s EXCEPT ![Len(s)].mark = FALSE]
  /\ step' = IF v = "throwable" THEN "handle" ELSE "run"

\* The invoke instruction of the last frame of s has v from its callee. If the
\* frame is marked, v is an exception to handle here; anything else is asserted
\* not to happen.
Check(s, v) ==
  LET marked == s[Len(s)].mark IN
  /\ stack' = IF marked /\ v = "throwable" THEN [s EXCEPT ![Len(s)].mark = FALSE] ELSE s
  /\ step' = CASE ~marked -> "run"
               [] marked /\ v = "throwable" -> "handle"
               [] OTHER -> "abort"

\* A method of Perf, or System.loadLibrary, is not called. If it is void, the check
\* sees what was on the operand stack before.
InvokeBanned ==
  /\ Runs("java")
  /\ \E v \in Results : Check(stack, v)
  /\ UNCHANGED <<pc, monitor_num>>

\* Back in the C++ code that called: the thread's last method has returned, or
\* dispatchUncaughtException has, or the VM goes on with what it was doing.
BackInVM(s) ==
  /\ stack' = s
  /\ step' = CASE s = <<>> -> "done"
               [] s # <<>> /\ s[Len(s)].does = "dispatch" -> "dead"
               [] OTHER -> "run"

\* Mutant of Leave: the pc is not restored.
LeaveKeepsPc(s, v) ==
  /\ UNCHANGED pc
  /\ IF Top.call = "invoke" THEN Check(s, v) ELSE BackInVM(s)
  /\ monitor_num' = monitor_num - Count(Top.sync)

\* Mutant of Leave: a method left by an exception keeps its monitor.
LeaveLocked(s, v) ==
  /\ pc' = Top.back
  /\ IF Top.call = "invoke" THEN Check(s, v) ELSE BackInVM(s)
  /\ monitor_num' = monitor_num - Count(Top.sync /\ ~s[Len(s)].mark)

\* The top frame is popped, with the result v, and s are the frames below.
Leave(s, v) ==
  /\ pc' = Top.back
  /\ IF Top.call = "invoke" THEN Check(s, v) ELSE BackInVM(s)
  /\ monitor_num' = monitor_num - Count(Top.sync)

\* A compiled synchronized block is left before the method is.
Return ==
  /\ Runs("java") /\ Top.held = 0
  /\ \E v \in Results : Leave(Below, v)

\* A native that has thrown has pushed the exception on its arguments.
NativeReturn ==
  /\ step = "run" /\ Top.kind = "native"
  /\ \E v \in Results :
       /\ Top.does = "throw" => v = "throwable"
       /\ Leave(Below, v)

-----------------------------------------------------------------------------
(* Exceptions.                                                              *)

\* athrow.
Throw ==
  /\ Runs("java")
  /\ step' = "handle"
  /\ UNCHANGED <<stack, pc, monitor_num>>

\* native_throw_Exception: the frame below the native's is marked, then the
\* constructor of the exception is called.
NativeThrow ==
  /\ Runs("native")
  /\ Push([stack EXCEPT ![Depth - 1].mark = TRUE, ![Depth].does = "throw"],
          Frame("java", "upcall", FALSE))
  /\ UNCHANGED monitor_num

\* where_is_catch has found a handler.
Catch ==
  /\ step = "handle"
  /\ step' = "run"
  /\ UNCHANGED <<stack, pc, monitor_num>>

\* Mutant of Propagate: the caller is not marked.
PropagateUnmarked ==
  /\ step = "handle" /\ Depth > 1 /\ Top.held = 0
  /\ quiet => Top.call = "invoke"
  /\ Leave(Below, "throwable")

\* No handler: the caller is marked and gets the exception. The compiler's handler
\* leaves the synchronized blocks first.
Propagate ==
  /\ step = "handle" /\ Depth > 1 /\ Top.held = 0
  /\ quiet => Top.call = "invoke"
  /\ Leave([Below EXCEPT ![Depth - 1].mark = TRUE], "throwable")

\* No handler in the thread's last frame: Thread.dispatchUncaughtException is
\* called, and the thread ends.
Uncaught ==
  /\ step = "handle" /\ Depth = 1 /\ Top.held = 0
  /\ Push([stack EXCEPT ![1].does = "dispatch"],
          [Frame("java", "upcall", FALSE) EXCEPT !.back = Top.back])
  /\ UNCHANGED monitor_num

Next ==
  /\ UNCHANGED quiet
  /\ \/ \E s \in BOOLEAN : Invoke("java", s) \/ Invoke("native", s)
     \/ Upcall
     \/ EnterBlock
     \/ LeaveBlock
     \/ InvokeBanned
     \/ Return
     \/ NativeReturn
     \/ Throw
     \/ NativeThrow
     \/ Catch
     \/ Propagate
     \/ Uncaught

Spec == Init /\ [][Next]_vars

-----------------------------------------------------------------------------
(* Properties.                                                             *)

TypeOK ==
  /\ stack \in Seq(Frames)
  /\ step \in Steps
  /\ pc \in Nat
  /\ monitor_num \in Nat
  /\ quiet \in BOOLEAN

Active == step \in {"run", "handle"}

\* Whichever way callees ended, the pc is in the code of the running frame, where
\* the search for a handler takes it from; a native has none.
PcIsTops ==
  Active => pc = IF Top.kind = "java" THEN Depth ELSE 0

\* The frames of s whose method, or a block of it, is synchronized.
Synced(s) == {i \in 1..Len(s) : s[i].sync}
Blocked(s) == {i \in 1..Len(s) : s[i].held = 1}
Monitors(s) == Cardinality(Synced(s)) + Cardinality(Blocked(s))

\* monitor_num, which decides on safepoints, is the number of monitors the frames
\* hold, also after methods were left by exceptions.
MonitorBalance == monitor_num = Monitors(stack)

\* A frame is marked only while a native it called is throwing.
NoStaleMark ==
  step # "abort" /\
  \A i \in 1..Depth : stack[i].mark =>
    i < Depth /\ stack[i + 1].kind = "native" /\ stack[i + 1].does = "throw"

\* If the methods the VM calls keep their exceptions, a thread waits for an exception
\* in a marked frame only while a native it called is throwing one: no mark is left
\* behind for a later call.
QuietMarks == quiet => NoStaleMark

\* An exception that leaves a method is handled in the caller next: the caller
\* finds it pushed and goes to athrow, as the comment on athrow says.
HandedOver ==
  [][step = "handle" /\ Depth > 1 /\ Len(stack') < Depth => step' = "handle"]_vars

\* The same, if the methods the VM calls keep their exceptions.
QuietHandedOver ==
  [][quiet /\ step = "handle" /\ Depth > 1 /\ Len(stack') < Depth => step' = "handle"]_vars

\* If the methods the VM calls keep their exceptions, what a method returns is not
\* thrown, even if it is a Throwable: handling begins by an athrow, or when a native
\* that threw returns.
OnlyThrown ==
  [][quiet /\ step = "run" /\ step' = "handle" =>
       Len(stack') = Depth \/ (Top.kind = "native" /\ Top.does = "throw")]_vars

-----------------------------------------------------------------------------
(* The inductive invariant behind PcIsTops, MonitorBalance and NoStaleMark.  *)

PcOf(s, i) == IF s[i].kind = "java" THEN i ELSE 0

\* How the frames of s follow one another: each has its caller's pc to restore,
\* natives are only called by invoke instructions, and what
\* dispatchUncaughtException leaves behind is not gone on with.
Shape(s) ==
  \A i \in 1..Len(s) :
    /\ s[i].back = IF i = 1 \/ s[i - 1].does = "dispatch" THEN 0 ELSE PcOf(s, i - 1)
    /\ s[i].kind = "native" => s[i].call = "invoke" /\ s[i].held = 0
    /\ s[i].call = "invoke" => i > 1 /\ s[i - 1].does # "dispatch"
    /\ s[i].does = "dispatch" => i = 1
    /\ s[i].does = "throw" => s[i].kind = "native"

IInv ==
  /\ TypeOK
  /\ Shape(stack)
  /\ Active => stack # <<>> /\ Top.does # "dispatch"
  /\ PcIsTops
  /\ MonitorBalance
==============================================================================
