---------------------------- MODULE MCInstructions ----------------------------
(* The instruction models on small instances: those of module Instructions, and  *)
(* the arithmetic, which TLC alone examines.                                     *)
EXTENDS Instructions

CONSTANT HardNan

VARIABLES ops, java, dev, out   \* Arithmetic

A == INSTANCE Arithmetic WITH
  IntBits <- 4, LongBits <- 4, JavaLongBits <- 8, ByteBits <- 2, ShortBits <- 3,
  Inf <- [float |-> 192, double |-> 1024], Nan <- [float |-> 256, double |-> 1536],
  NegInf <- [float |-> 384, double |-> 2048], FloatDigits <- 2, FloatBound <- 12, StackBound <- 2

\* The values of the constants of Instructions that a configuration cannot write.
\* Derived extends Base implements Cloneable, Base implements Right, Right extends Left.
MCParent == [c \in Classes \cup Interfaces |->
               CASE c = "Object" -> NoClass [] c = "Derived" -> "Base" [] OTHER -> "Object"]
MCImplements == [c \in Classes \cup Interfaces |->
                   CASE c = "Base" -> {"Right"} [] c = "Right" -> {"Left"}
                     [] c = "Derived" -> {"Cloneable"} [] OTHER -> {}]

MCInts == -1 .. 1
MCPositions == -1 .. 3
MCLiterals ==
  {[type |-> "int", val |-> 0], [type |-> "int", val |-> -1], [type |-> "long", val |-> 0]}

Array(ooptype, type, dimension, first, second, third) ==
  [ooptype |-> ooptype, type |-> type, dimension |-> dimension,
   buf |-> [k \in 0 .. 2 |-> <<first, second, third>>[k + 1]]]

MCArrays ==
  {[Array("TypeArray", "int", 1, 0, 0, 0) EXCEPT !.buf = [k \in {} |-> 0]],
   Array("TypeArray", "int", 1, 1, 2, 3), Array("TypeArray", "int", 1, 4, 5, 6),
   Array("TypeArray", "byte", 1, 1, 2, 3), Array("TypeArray", "int", 2, "ints", Null, "ints"),
   Array("ObjArray", "Object", 1, "object", Null, "string"),
   Array("ObjArray", "Object", 1, Null, Null, Null),
   Array("ObjArray", "Object", 1, "objects", "ints", "object"),
   Array("ObjArray", "Object", 1, "string", "string", "objects"),
   Array("ObjArray", "String", 1, "string", Null, "string"),
   Array("ObjArray", "Object", 2, "objects", Null, "objects")}

aVars == <<ops, java, dev, out>>

ASSUME A!WidthsAssumption

MCInit == Init /\ A!Init

MCNext ==
  \/ Next /\ UNCHANGED aVars
  \/ subject = "arithmetic" /\ A!Next /\ UNCHANGED vars

MCSpec == MCInit /\ [][MCNext]_<<vars, aVars>>

-----------------------------------------------------------------------------
=============================================================================
