----------------------------- MODULE StopTheWorld -----------------------------
(***************************************************************************)
(* What the safepoints and the exit path promise to the collector and to   *)
(* automan_jvm::end: the process collects at most once, moves objects only *)
(* while no thread executes Java code, and frees everything only when no   *)
(* thread will ever execute Java code again.                               *)
(***************************************************************************)
CONSTANT Threads

VARIABLES
  java,       \* the threads executing Java code
  collector,  \* "idle" before the collection, "collecting", "done" after it
  ended       \* has automan_jvm::end been called?

TypeOK ==
  /\ java \subseteq Threads
  /\ collector \in {"idle", "collecting", "done"}
  /\ ended \in BOOLEAN

Init == java = {} /\ collector = "idle" /\ ended = FALSE

\* A thread starts its first method, or resumes after a safepoint.
EnterJava(t) ==
  /\ collector # "collecting" /\ ~ended
  /\ java' = java \cup {t}
  /\ UNCHANGED <<collector, ended>>

\* A thread stops at a safepoint, or ends.
LeaveJava(t) ==
  /\ java' = java \ {t}
  /\ UNCHANGED <<collector, ended>>

BeginCollection ==
  /\ collector = "idle" /\ collector' = "collecting"
  /\ java = {} /\ ~ended
  /\ UNCHANGED <<java, ended>>

EndCollection ==
  /\ collector = "collecting" /\ collector' = "done"
  /\ UNCHANGED <<java, ended>>

End ==
  /\ java = {} /\ collector # "collecting"
  /\ ended' = TRUE
  /\ UNCHANGED <<java, collector>>

Next ==
  \/ \E t \in Threads : EnterJava(t) \/ LeaveJava(t)
  \/ BeginCollection \/ EndCollection \/ End

Spec == Init /\ [][Next]_<<java, collector, ended>>
=============================================================================
