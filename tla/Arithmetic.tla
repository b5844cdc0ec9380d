----------------------------- MODULE Arithmetic -----------------------------
(***************************************************************************)
(* The arithmetic instructions of BytecodeEngine::execute on an operand    *)
(* stack, next to the results the Java instruction set defines. Every      *)
(* instruction pops val2, then val1, and pushes one new box.               *)
(*                                                                         *)
(* A Java long is a C++ long, which is narrower on the platform the build  *)
(* targets. The infinities and NaN of a class file become the NUMBERS      *)
(* whose digits are their bit patterns (class_parser.h), all positive and  *)
(* ordered Inf < Nan < NegInf; HardNan is the NaN of the hardware.         *)
(*                                                                         *)
(* The constructor of a DoubleOop takes a float, so every double that is   *)
(* loaded from a class file or computed is rounded to one.                 *)
(***************************************************************************)
EXTENDS Integers, Sequences, SequencesExt, Bitwise

CONSTANTS
  IntBits, LongBits, JavaLongBits,   \* widths of int, of C++ long, of Java long
  ByteBits, ShortBits,
  Inf, Nan, NegInf,                  \* FLOAT_INFINITY, DOUBLE_INFINITY and so on, by type
  HardNan,                           \* not a number
  FloatDigits,                       \* binary digits of a float
  FloatBound, StackBound             \* bounds of the model

Floats == {"float", "double"}
Marks(t) == {Inf[t], Nan[t], NegInf[t]}
Infs(t) == {Inf[t], NegInf[t]}
AbsVal(x) == IF x < 0 THEN -x ELSE x
Sign(x) == IF x < 0 THEN -1 ELSE IF x = 0 THEN 0 ELSE 1

\* Rounding to the float nearest to a number, to the even one of two: unit is what its last
\* digit stands for.
Round(x) ==
  LET k == CHOOSE k \in 0 .. AbsVal(x) : /\ AbsVal(x) \div 2^k < 2^FloatDigits
                                         /\ k = 0 \/ AbsVal(x) \div 2^(k - 1) >= 2^FloatDigits
      unit == 2^k
      digits == AbsVal(x) \div unit
      rest == 2 * (AbsVal(x) % unit)
      up == rest > unit \/ (rest = unit /\ digits % 2 = 1)
  IN IF x = HardNan THEN x ELSE Sign(x) * unit * (IF up THEN digits + 1 ELSE digits)

WidthsAssumption ==
  /\ {IntBits, LongBits, JavaLongBits, ByteBits, ShortBits, FloatDigits, StackBound, FloatBound}
       \subseteq Nat \ {0}
  /\ ByteBits < ShortBits /\ ShortBits < IntBits
  /\ IntBits <= LongBits /\ LongBits <= JavaLongBits
  /\ \A t \in Floats : /\ FloatBound * FloatBound < Inf[t] /\ Inf[t] < Nan[t] /\ Nan[t] < NegInf[t]
                       /\ \A m \in Marks(t) : Round(m) = m   \* bit patterns with few digits

VARIABLES
  ops,   \* the operand stack: boxes with a type and a value, the top last
  java,  \* the values Java's stack would have
  dev,   \* why the next result need not be Java's
  out    \* "running", or what killed the VM: a "quotient" or a "remainder"

vars == <<ops, java, dev, out>>

Width(t) == IF t = "int" THEN IntBits ELSE LongBits
JavaWidth(t) == IF t = "int" THEN IntBits ELSE JavaLongBits
Least(w) == -(2^(w-1))
InWidth(x, w) == x \in Least(w) .. (2^(w-1) - 1)
Wrap(x, w) == ((x + 2^(w-1)) % 2^w) - 2^(w-1)
Unsigned(x, w) == x % 2^w

\* C's division and remainder truncate towards zero; so do Java's.
Quot(x, y) == Sign(x) * Sign(y) * (AbsVal(x) \div AbsVal(y))
Remainder(x, y) == x - y * Quot(x, y)

\* x86 takes a shift count modulo the width of what it shifts.
Shl(x, s, w) == Wrap(x * 2^(s % w), w)
Shr(x, s, w) == x \div 2^(s % w)

-----------------------------------------------------------------------------
(* Popping and pushing.                                                     *)

Running == out = "running" /\ dev = {}

Depth == Len(ops)
Val1 == ops[Depth - 1].val
Val2 == ops[Depth].val
Java1 == java[Depth - 1]
Java2 == java[Depth]
IsTop(t) == Running /\ Depth >= 1 /\ ops[Depth].type = t
AreTop(t1, t2) == Running /\ Depth >= 2 /\ ops[Depth - 1].type = t1 /\ ops[Depth].type = t2

Small(v) == v = HardNan \/ v \in -FloatBound .. FloatBound
Bounded(t, v) == t \in Floats => Small(v) \/ v \in Marks(t)

\* Java has a double that is no float.
RoundDev(t, j) == IF t = "double" /\ Round(j) # j THEN {"rounded"} ELSE {}

\* n operands are replaced by a new box; d is why it may differ from Java's j, apart from the
\* rounding: of floats in Java too, of doubles in this VM only.
Replace(n, t, v, j, d) ==
  LET val == IF t \in Floats THEN Round(v) ELSE v
  IN /\ dev' = d \cup RoundDev(t, j)
     /\ dev' = {} => Bounded(t, val)
     /\ ops' = Append(SubSeq(ops, 1, Depth - n), [type |-> t, val |-> val])
     /\ java' = Append(SubSeq(java, 1, Depth - n), IF t = "float" THEN Round(j) ELSE j)
     /\ UNCHANGED out

Die(how) == out' = how /\ UNCHANGED <<ops, java, dev>>

\* A result Java's long holds and the C++ long may not.
Beyond(t, j) == IF InWidth(j, Width(t)) THEN {} ELSE {"width"}

-----------------------------------------------------------------------------
(* Reference: Java's floating point, in the encoded values, without -0.     *)

JavaSum(t, a, b) ==
  IF Nan[t] \in {a, b} \/ {a, b} = Infs(t) THEN Nan[t]
  ELSE IF a \in Infs(t) THEN a
  ELSE IF b \in Infs(t) THEN b
  ELSE a + b

FloatSign(t, a) == IF a = NegInf[t] THEN -1 ELSE Sign(a)

SignedInf(t, s) == IF s < 0 THEN NegInf[t] ELSE Inf[t]

JavaProduct(t, a, b) ==
  IF Nan[t] \in {a, b} \/ (0 \in {a, b} /\ {a, b} \cap Infs(t) # {}) THEN Nan[t]
  ELSE IF {a, b} \cap Infs(t) # {} THEN SignedInf(t, FloatSign(t, a) * FloatSign(t, b))
  ELSE a * b

\* Only used for equal sizes: the quotient of numbers is truncated here.
JavaRatio(t, a, b) ==
  IF Nan[t] \in {a, b} \/ (a \in Infs(t) /\ b \in Infs(t)) \/ (a = 0 /\ b = 0) THEN Nan[t]
  ELSE IF a \in Infs(t) \/ b = 0
       THEN SignedInf(t, FloatSign(t, a) * (IF b = 0 THEN 1 ELSE FloatSign(t, b)))
  ELSE IF b \in Infs(t) THEN 0
  ELSE Quot(a, b)

JavaOrder(t, a, b, unordered) ==
  IF Nan[t] \in {a, b} THEN unordered
  ELSE IF a = b THEN 0
  ELSE IF a = NegInf[t] \/ b = Inf[t] THEN -1
  ELSE IF b = NegInf[t] \/ a = Inf[t] THEN 1
  ELSE Sign(a - b)

\* What Java reads in a value of this VM.
Decode(e) == IF e.val = HardNan THEN Nan[e.type] ELSE e.val

-----------------------------------------------------------------------------
(* Integer instructions.                                                    *)

Load(t, v) ==
  /\ Running /\ Depth < StackBound
  /\ Replace(0, t, v, v, {})

AddInt(t) == AreTop(t, t) /\ LET j == Wrap(Java1 + Java2, JavaWidth(t))
                             IN Replace(2, t, Wrap(Val2 + Val1, Width(t)), j, Beyond(t, j))

SubInt(t) == AreTop(t, t) /\ LET j == Wrap(Java1 - Java2, JavaWidth(t))
                             IN Replace(2, t, Wrap(Val1 - Val2, Width(t)), j, Beyond(t, j))

MulInt(t) == AreTop(t, t) /\ LET j == Wrap(Java1 * Java2, JavaWidth(t))
                             IN Replace(2, t, Wrap(Val1 * Val2, Width(t)), j, Beyond(t, j))

DivTraps(t) ==
  /\ AreTop(t, t)
  /\ IF Val2 = 0 \/ (Val1 = Least(Width(t)) /\ Val2 = -1) THEN Die("quotient")
     ELSE Replace(2, t, Quot(Val1, Val2), Quot(Java1, Java2), {})

\* idiv and ldiv guard the one quotient that does not fit; nothing guards zero.
DivInt(t) ==
  /\ AreTop(t, t)
  /\ \/ Val2 = 0 /\ Die("quotient")
     \/ /\ Val2 # 0
        /\ LET j == Wrap(Quot(Java1, Java2), JavaWidth(t))
               v == IF Val1 = Least(Width(t)) /\ Val2 = -1 THEN Val1 ELSE Quot(Val1, Val2)
           IN Replace(2, t, v, j, Beyond(t, j))

\* irem and lrem assert a divisor and compute the quotient without that guard.
RemInt(t) ==
  /\ AreTop(t, t)
  /\ \/ Val2 = 0 /\ Die("remainder")
     \/ Val1 = Least(Width(t)) /\ Val2 = -1 /\ Die("remainder")
     \/ /\ Val2 # 0
        /\ ~(Val1 = Least(Width(t)) /\ Val2 = -1)
        /\ Replace(2, t, Remainder(Val1, Val2), Remainder(Java1, Java2), {})

NegInt(t) == IsTop(t) /\ LET j == Wrap(-Java2, JavaWidth(t))
                         IN Replace(1, t, Wrap(-Val2, Width(t)), j, Beyond(t, j))

\* Java's shift count: the low bits of the int on top.
Count(t) == Unsigned(Val2, IntBits) % JavaWidth(t)

\* A long shifted by its own width or more is shifted less by the processor.
ShiftDev(t, j) == Beyond(t, j) \cup IF Count(t) >= Width(t) THEN {"width"} ELSE {}

ShiftLeft(t) ==
  /\ AreTop(t, "int")
  /\ LET j == Wrap(Java1 * 2^Count(t), JavaWidth(t))
     IN Replace(2, t, Shl(Val1, Count(t), Width(t)), j, ShiftDev(t, j))

ShiftRight(t) ==
  /\ AreTop(t, "int")
  /\ LET j == Java1 \div 2^Count(t)
     IN Replace(2, t, Shr(Val1, Count(t), Width(t)), j, ShiftDev(t, j))

\* Mutant of ShiftRightZeros: without the correction for a negative value.
ShiftSigned(t) ==
  /\ AreTop(t, "int")
  /\ Replace(2, t, Shr(Val1, Count(t), Width(t)),
             Wrap(Unsigned(Java1, JavaWidth(t)) \div 2^Count(t), JavaWidth(t)), {})

\* iushr and lushr: (val1 >> s) + (2 << ~s) for a negative val1.
ShiftRightZeros(t) ==
  /\ AreTop(t, "int")
  /\ LET w == Width(t)
         s == Count(t)
         v == IF Val1 >= 0 THEN Shr(Val1, s, w) ELSE Wrap(Shr(Val1, s, w) + Shl(2, -s - 1, w), w)
         j == Wrap(Unsigned(Java1, JavaWidth(t)) \div 2^s, JavaWidth(t))
     IN Replace(2, t, v, j, ShiftDev(t, j))

Bits(f, x, y, w) ==
  LET a == Unsigned(x, w)
      b == Unsigned(y, w)
  IN Wrap(CASE f = "and" -> a & b [] f = "or" -> a | b [] f = "xor" -> a ^^ b, w)

Logic(t, f) ==
  /\ AreTop(t, t)
  /\ Replace(2, t, Bits(f, Val2, Val1, Width(t)), Bits(f, Java1, Java2, JavaWidth(t)), {})

\* i2l, l2i.
Widen == IsTop("int") /\ Replace(1, "long", Val2, Java2, {})
LongToInt == IsTop("long") /\ Replace(1, "int", Wrap(Val2, IntBits), Wrap(Java2, IntBits), {})

\* i2b and i2s extend the sign, i2c extends with zeros.
Narrow ==
  /\ IsTop("int")
  /\ \/ Replace(1, "int", Wrap(Val2, ByteBits), Wrap(Java2, ByteBits), {})
     \/ Replace(1, "int", Unsigned(Val2, ShortBits), Unsigned(Java2, ShortBits), {})
     \/ Replace(1, "int", Wrap(Val2, ShortBits), Wrap(Java2, ShortBits), {})

CompareLong ==
  /\ AreTop("long", "long")
  /\ Replace(2, "int", IF Val2 > Val1 THEN -1 ELSE IF Val2 < Val1 THEN 1 ELSE 0,
             Sign(Java1 - Java2), {})

-----------------------------------------------------------------------------
(* Floating point.                                                          *)

\* The processor's operation: a NaN gives a NaN.
HardSum(x, y) == IF HardNan \in {x, y} THEN HardNan ELSE x + y
HardDifference(x, y) == IF HardNan \in {x, y} THEN HardNan ELSE x - y
HardProduct(x, y) == IF HardNan \in {x, y} THEN HardNan ELSE x * y
HardQuot(x, y) == IF HardNan \in {x, y} THEN HardNan ELSE Quot(x, y)
Positive(x) == x # HardNan /\ x > 0

Sum(t, val1, val2) ==
  IF Nan[t] \in {val1, val2} \/ {val1, val2} = Infs(t) THEN HardNan
  ELSE IF val2 \in Infs(t) THEN val2
  ELSE IF val1 \in Infs(t) THEN val1
  ELSE HardSum(val2, val1)

\* An infinity plus a NaN the processor made.
SumDev(t) == IF HardNan \in {Val1, Val2} /\ {Val1, Val2} \cap Infs(t) # {} THEN {"nan"} ELSE {}

AddFloat(t) ==
  AreTop(t, t) /\ Replace(2, t, Sum(t, Val1, Val2), JavaSum(t, Java1, Java2), SumDev(t))

\* dsub looks for no special value, and there is no fsub.
SubDouble ==
  /\ AreTop("double", "double")
  /\ Replace(2, "double", HardDifference(Val1, Val2),
             IF {Java1, Java2} \cap Marks("double") # {} THEN HardNan ELSE Java1 - Java2,
             IF {Java1, Java2} \cap Marks("double") # {} THEN {"encoded"} ELSE {})

\* The second test of the third case names val2 twice.
Product(t, val1, val2) ==
  IF Nan[t] \in {val1, val2} THEN Nan[t]
  ELSE IF 0 \in {val1, val2} /\ {val1, val2} \cap Infs(t) # {} THEN Nan[t]
  ELSE IF val2 \in Infs(t) /\ (val1 = Inf[t] \/ val2 = NegInf[t])
       THEN IF val1 = val2 THEN Inf[t] ELSE NegInf[t]
  ELSE HardProduct(val2, val1)

\* An infinity times anything but zero, NaN or an infinity is an ordinary number; a
\* positive infinity on top of a negative one too, and a negative one on top gives the
\* negative one whatever the sign below.
ProductDev(t) ==
  IF \/ Nan[t] \in {Val1, Val2} \/ 0 \in {Val1, Val2}
     \/ {Val1, Val2} \cap Infs(t) = {}
     \/ Val2 = NegInf[t] /\ (Val1 \in Infs(t) \/ Positive(Val1))
     \/ Val2 = Inf[t] /\ Val1 = Inf[t]
  THEN IF HardNan \in {Val1, Val2} /\ {Val1, Val2} \cap Infs(t) # {} THEN {"nan"} ELSE {}
  ELSE {"encoded"}

MulFloat(t) ==
  AreTop(t, t) /\ Replace(2, t, Product(t, Val1, Val2), JavaProduct(t, Java1, Java2), ProductDev(t))

\* The cases treat val2 as the dividend until one of them is zero, and the last divides
\* val2 by val1.
Ratio(t, val1, val2) ==
  IF Nan[t] \in {val1, val2} THEN Nan[t]
  ELSE IF val2 \in Infs(t) /\ (val1 = Inf[t] \/ val2 = NegInf[t]) THEN Nan[t]
  ELSE IF val2 \in Infs(t) /\ val1 \notin Marks(t)
       THEN IF Positive(val1) THEN Inf[t] ELSE NegInf[t]
  ELSE IF val2 \notin Marks(t) /\ val1 \in Infs(t) THEN 0
  ELSE IF val1 = 0 /\ val2 = 0 THEN Nan[t]
  ELSE IF val2 = 0 THEN IF Positive(val1) THEN Inf[t] ELSE NegInf[t]
  ELSE IF val1 = 0 THEN IF Positive(val2) THEN Inf[t] ELSE NegInf[t]
  ELSE HardQuot(val2, val1)

\* The result is Java's for NaN, for two infinities but one pair, for a zero divisor and
\* for operands of equal size.
RatioDev(t) ==
  IF \/ Nan[t] \in {Val1, Val2}
     \/ {Val1, Val2} \subseteq Infs(t) /\ ~(Val1 = NegInf[t] /\ Val2 = Inf[t])
     \/ Val2 = 0 /\ Val1 \notin Infs(t) \cup {HardNan}
     \/ {Val1, Val2} = {HardNan}
     \/ {Val1, Val2} \cap (Marks(t) \cup {HardNan}) = {} /\ Val2 # 0 /\ AbsVal(Val1) = AbsVal(Val2)
  THEN {} ELSE {"div"}

DivFloat(t) ==
  AreTop(t, t) /\ Replace(2, t, Ratio(t, Val1, Val2), JavaRatio(t, Java1, Java2), RatioDev(t))

\* i2f, i2d, l2f; f2d turns the number that encodes an infinite float into a double.
IntToFloat(t) == IsTop("int") /\ Replace(1, t, Val2, Java2, {})
LongToFloat == IsTop("long") /\ Replace(1, "float", Val2, Java2, {})
FloatToDouble ==
  /\ IsTop("float")
  /\ Replace(1, "double", Val2, IF Val2 = HardNan THEN Nan["double"] ELSE Java2,
             IF Val2 \in Marks("float") THEN {"encoded"} ELSE {})

\* f2i, d2i, d2l. Out of range the processor answers the least integer.
Truncated(t, u, v) ==
  IF v = Nan[t] THEN 0
  ELSE IF v = Inf[t] THEN -Least(Width(u)) - 1
  ELSE IF v = NegInf[t] THEN Least(Width(u))
  ELSE IF v = HardNan \/ ~InWidth(v, Width(u)) THEN Least(Width(u))
  ELSE v

\* Java answers the nearest integer there is.
JavaTruncated(t, u, a) ==
  LET least == Least(JavaWidth(u))
  IN IF a = Nan[t] THEN 0
     ELSE IF a = NegInf[t] \/ (a # Inf[t] /\ a < least) THEN least
     ELSE IF a = Inf[t] \/ a >= -least THEN -least - 1
     ELSE a

\* Above the greatest integer the two differ.
RangeDev(t, u) ==
  IF Positive(Val2) /\ Val2 \notin Marks(t) /\ ~InWidth(Val2, JavaWidth(u)) THEN {"range"} ELSE {}

FloatToInt(t, u) ==
  /\ IsTop(t) /\ <<t, u>> # <<"float", "long">>
  /\ LET j == JavaTruncated(t, u, Java2)
     IN Replace(1, u, Truncated(t, u, Val2), j,
                Beyond(u, j) \cup RangeDev(t, u) \cup IF Val2 = HardNan THEN {"nan"} ELSE {})

\* fcmpl and dcmpl push unordered = -1 for NaN, fcmpg and dcmpg 1.
Order(t, val1, val2, unordered) ==
  IF Nan[t] \in {val1, val2} THEN unordered
  ELSE IF HardNan \in {val1, val2} THEN 0
  ELSE IF val1 < val2 THEN -1
  ELSE IF val1 > val2 THEN 1
  ELSE 0

\* The number that encodes -infinity is the greatest of all; a NaN of the processor
\* compares as equal.
CompareFloat(t, unordered) ==
  /\ AreTop(t, t)
  /\ Replace(2, "int", Order(t, Val1, Val2, unordered), JavaOrder(t, Java1, Java2, unordered),
             (IF HardNan \in {Val1, Val2} /\ Nan[t] \notin {Val1, Val2} THEN {"nan"} ELSE {})
             \cup (IF NegInf[t] \in {Val1, Val2} /\ Val1 # Val2 /\ Nan[t] \notin {Val1, Val2}
                   THEN {"encoded"} ELSE {}))

-----------------------------------------------------------------------------
IntRange == Least(IntBits) .. (2^(IntBits - 1) - 1)
Constant(t) == IF t \in Floats THEN Marks(t) \cup -FloatBound .. FloatBound ELSE IntRange

Init ==
  /\ ops = <<>>
  /\ java = <<>>
  /\ dev = {}
  /\ out = "running"

IntegerStep ==
  \/ \E t \in {"int", "long"} :
       \/ AddInt(t) \/ SubInt(t) \/ MulInt(t) \/ DivInt(t) \/ RemInt(t) \/ NegInt(t)
       \/ ShiftLeft(t) \/ ShiftRight(t) \/ ShiftRightZeros(t)
       \/ \E f \in {"and", "or", "xor"} : Logic(t, f)
  \/ Widen \/ LongToInt \/ Narrow \/ CompareLong

FloatStep ==
  \/ \E t \in Floats :
       \/ AddFloat(t) \/ MulFloat(t) \/ DivFloat(t) \/ IntToFloat(t)
       \/ \E u \in {"int", "long"} : FloatToInt(t, u)
       \/ \E n \in {-1, 1} : CompareFloat(t, n)
  \/ SubDouble \/ LongToFloat \/ FloatToDouble

LoadStep == \E t \in {"int", "long", "float", "double"} : \E v \in Constant(t) : Load(t, v)

Next == LoadStep \/ IntegerStep \/ FloatStep

Spec == Init /\ [][Next]_vars

-----------------------------------------------------------------------------
TypeOK ==
  /\ \A i \in 1 .. Depth :
       ops[i].type \notin Floats => InWidth(ops[i].val, Width(ops[i].type))
  /\ Len(java) = Depth /\ Depth <= StackBound
  /\ dev \subseteq {"width", "encoded", "nan", "div", "rounded", "range"}
  /\ out \in {"running", "quotient", "remainder"}

\* As long as no long result leaves the C++ long, every double of the program is a float and
\* no floating-point instruction meets one of the operands listed with it, a program
\* computes exactly Java's values: through wrapping, the guarded quotient, the shift
\* formulas, the encoded infinities and the NaN that fadd makes in hardware.
ComputesJavasValues ==
  dev = {} => \A i \in 1 .. Depth : Decode(ops[i]) = java[i]

\* Where Java throws ArithmeticException the VM dies (a trap, or the assert of irem and
\* lrem), and nowhere else, but for the least integer % -1: only the quotient is guarded.
DiesOnlyAtZero ==
  out # "running" =>
    \/ Val2 = 0
    \/ out = "remainder" /\ Val2 = -1 /\ Val1 = Least(Width(ops[Depth].type))
=============================================================================
