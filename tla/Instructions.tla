---------------------------- MODULE Instructions ----------------------------
(* The instruction models that are both checked and proved: the branches, the  *)
(* casts, the stack, the frames, and System.arraycopy. One of them runs, the   *)
(* others stay in an initial state.                                            *)
EXTENDS Integers

CONSTANTS
  Subjects,                                                   \* bound: what runs
  Null, Obj,                                                  \* references
  CodeLength, Keys, IntMax, MaxOperands, Surplus,             \* ControlFlow; Keys are its ints
  Classes, Interfaces, Object, Cloneable, Parent, Implements, NoClass, Basics, Dimensions,  \* TypeCheck
  Types, MaxValues, MaxWords,                                 \* StackOps
  NoBox, Unset, Ints, Longs, Literals, ShortForms, MaxLocals, MaxFrames, MaxOps, AllBoxes, Steps,  \* Frames
  ArrayOops, Positions, Lengths                               \* ArrayCopy

VARIABLES subject,
  pc, stack, jpc, jstack, flowDev, flowOut,                   \* ControlFlow
  ref, klass, answer,                                         \* TypeCheck
  operands, words, operandsOut,                               \* StackOps
  boxes, frames, heap, alias, fate, steps,                    \* Frames
  src, dst, same, src_pos, dst_pos, length, old, copied, copyOut  \* ArrayCopy

C == INSTANCE ControlFlow WITH
  Ints <- Keys, Refs <- {Null, Obj}, Size <- MaxOperands, dev <- flowDev, out <- flowOut

T == INSTANCE TypeCheck

S == INSTANCE StackOps WITH Values <- MaxValues, stack <- operands, out <- operandsOut

F == INSTANCE Frames WITH Depth <- MaxFrames, Boxes <- AllBoxes

Y == INSTANCE ArrayCopy WITH Arrays <- ArrayOops, i <- copied, out <- copyOut

cVars == <<pc, stack, jpc, jstack, flowDev, flowOut>>
tVars == <<ref, klass, answer>>
sVars == <<operands, words, operandsOut>>
fVars == <<boxes, frames, heap, alias, fate, steps>>
yVars == <<src, dst, same, src_pos, dst_pos, length, old, copied, copyOut>>

ASSUME InstructionsAssumption ==
  C!ControlAssumption /\ T!HierarchyAssumption /\ S!StackAssumption /\ F!FramesAssumption /\ Y!CopyAssumption

Idle == CHOOSE a \in ArrayOops : TRUE

Init ==
  /\ subject \in Subjects
  /\ C!Init /\ S!Init /\ F!Init
  /\ subject # "typecheck" => ref = T!NullRef /\ klass = T!Klass("Instance", Object, 0)
  /\ T!Init
  /\ subject # "copy" => src = Idle /\ dst = Idle /\ same = FALSE /\ src_pos = 0 /\ dst_pos = 0 /\ length = 0
  /\ Y!Init

Next ==
  \/ subject = "control" /\ C!Next /\ UNCHANGED <<subject, tVars, sVars, fVars, yVars>>
  \/ subject = "typecheck" /\ T!Next /\ UNCHANGED <<subject, cVars, sVars, fVars, yVars>>
  \/ subject = "stack" /\ S!Next /\ UNCHANGED <<subject, cVars, tVars, fVars, yVars>>
  \/ subject = "frames" /\ F!Next /\ UNCHANGED <<subject, cVars, tVars, sVars, yVars>>
  \/ subject = "copy" /\ Y!Next /\ UNCHANGED <<subject, cVars, tVars, sVars, fVars>>

vars == <<subject, cVars, tVars, sVars, fVars, yVars>>

Spec == Init /\ [][Next]_vars

-----------------------------------------------------------------------------
\* The states are of their types; more, the inductive invariants of the five modules hold.
StatesOK == C!IInv /\ T!IInv /\ S!IInv /\ F!IInv /\ Y!IInv

\* ControlFlow: the engine is at Java's instruction, and the keys that switches leave behind
\* stay under Java's operands (BytecodeEngine::execute).
ControlIsJavas == C!SameProgramCounter /\ C!KeysStayBelow

\* TypeCheck: what passes checkcast or instanceof is assignable; what is denied is not, but
\* for arrays of implementations; an abort is a ClassCastException, but for array dimensions.
TypeTestsAreJavas == T!YesIsAssignable /\ T!NoIsNotAssignable /\ T!AbortsWhereJavaFails

\* StackOps: Java's words, but for copied floats and longs (pop to dup2_x2).
SameWords == S!SameWords

\* Frames: every location has Java's value until a shared box is changed in place, and no
\* array element shares its box (loads, stores, calls and fields).
BoxesAreValues == F!SameValues /\ F!ElementsOwnTheirBox

\* ArrayCopy: Java's result, an array copied over itself included; an index outside an array
\* ends the process, as it throws in Java; the copies the VM refuses are those listed
\* (JVM_ArrayCopy).
CopiesAreJavas == Y!CopiesAsJava /\ Y!ThrowsAreAborts /\ Y!CopiesAreCopied

\* Frames: iinc changes one local variable and nothing else (the engine breaks it).
IincChangesOneLocal == F!IincChangesOneLocal
=============================================================================
