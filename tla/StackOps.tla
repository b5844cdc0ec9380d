------------------------------ MODULE StackOps ------------------------------
(***************************************************************************)
(* The instructions pop, pop2, dup, dup_x1, dup_x2, dup2, dup2_x1 and      *)
(* dup2_x2 of BytecodeEngine::execute. Java defines them on words, a long  *)
(* or double being two; the engine keeps one box per value and looks at    *)
(* the types of boxes to tell the forms of an instruction apart.           *)
(*                                                                         *)
(* A box copied by copy_BasicOop_value is read as a DoubleOop if it is a   *)
(* float or a long, so the copy holds something else.                      *)
(***************************************************************************)
EXTENDS Integers, Sequences, FiniteSets

CONSTANTS
  Types,     \* types of the values: "int", "float", "long", "double", "null"
  Values,    \* bound: values pushed by other instructions
  MaxWords   \* bound: words on the stack

StackAssumption ==
  /\ Types \subseteq {"int", "float", "long", "double", "ref", "null"}
  /\ Values \in Nat /\ MaxWords \in Nat

VARIABLES
  stack,  \* the engine's operand stack, the top last
  words,  \* Java's
  out     \* "running" or "crash" (a null reference asked for its type)

vars == <<stack, words, out>>

Box(t, i) == [type |-> t, id |-> i]

Lost == Values + 1   \* what a wrong copy holds

IsWide(b) == b.type \in {"long", "double"}

\* A value's words. The two halves of a wide value carry its name.
Words(b) == IF IsWide(b) THEN << <<b, "high">>, <<b, "low">> >> ELSE << <<b, "word">> >>

Val(n) == stack[Len(stack) - n + 1]

Has(n) == out = "running" /\ Len(stack) >= n

-----------------------------------------------------------------------------
(* Java: n words are copied below the k words under them. The verifier      *)
(* never lets an instruction cut a wide value in two.                       *)

IsCut(s, i) == i >= 1 /\ i <= Len(s) /\ s[i][2] = "high"

JavaDup(n, k) ==
  /\ Len(words) >= n + k /\ Len(words) + n <= MaxWords
  /\ ~IsCut(words, Len(words) - n) /\ ~IsCut(words, Len(words) - n - k)
  /\ LET base == SubSeq(words, 1, Len(words) - n - k)
         skipped == SubSeq(words, Len(words) - n - k + 1, Len(words) - n)
         copied == SubSeq(words, Len(words) - n + 1, Len(words))
     IN words' = base \o copied \o skipped \o copied

JavaPop(n) ==
  /\ Len(words) >= n /\ ~IsCut(words, Len(words) - n)
  /\ words' = SubSeq(words, 1, Len(words) - n)

-----------------------------------------------------------------------------
(* The engine.                                                              *)

if_BasicType_then_copy(b) == IF b.type \in {"float", "long"} THEN [b EXCEPT !.id = Lost] ELSE b

\* Copies of the m values on top go below the j values under them.
Insert(m, j) ==
  /\ Len(stack) >= m + j
  /\ LET base == SubSeq(stack, 1, Len(stack) - m - j)
         top == SubSeq(stack, Len(stack) - m - j + 1, Len(stack))
         copies == [i \in 1 .. m |-> if_BasicType_then_copy(Val(m - i + 1))]
     IN stack' = base \o copies \o top
  /\ UNCHANGED out

\* The type of a value is read: the null reference has none.
Crash(n) ==
  /\ Val(n).type = "null"
  /\ out' = "crash" /\ UNCHANGED stack

Readable(n) == Val(n).type # "null"

\* Any instruction that pushes a value of its own.
Push ==
  /\ out = "running" /\ Len(stack) < Values
  /\ \E t \in Types :
       LET b == Box(t, Len(stack) + 1)
       IN /\ Len(words) + Len(Words(b)) <= MaxWords
          /\ stack' = Append(stack, b) /\ words' = words \o Words(b)
  /\ UNCHANGED out

Pop == Has(1) /\ JavaPop(1) /\ stack' = SubSeq(stack, 1, Len(stack) - 1) /\ UNCHANGED out

Pop2 ==
  /\ Has(1) /\ JavaPop(2)
  /\ \/ Crash(1)
     \/ /\ Readable(1)
        /\ stack' = SubSeq(stack, 1, Len(stack) - (IF IsWide(Val(1)) THEN 1 ELSE 2))
        /\ UNCHANGED out

Dup == Has(1) /\ JavaDup(1, 0) /\ Insert(1, 0)

Dup_x1 == Has(2) /\ JavaDup(1, 1) /\ Insert(1, 1)

\* Mutant of Dup_x2: the form for a long or double below the top is forgotten.
Dup_x2Narrow == Has(2) /\ JavaDup(1, 2) /\ Insert(1, 2)

Dup_x2 ==
  /\ Has(2) /\ JavaDup(1, 2)
  /\ \/ Crash(2)
     \/ Readable(2) /\ IsWide(Val(2)) /\ Insert(1, 1)
     \/ Readable(2) /\ ~IsWide(Val(2)) /\ Insert(1, 2)

Dup2 ==
  /\ Has(1) /\ JavaDup(2, 0)
  /\ \/ Crash(1)
     \/ Readable(1) /\ IsWide(Val(1)) /\ Insert(1, 0)
     \/ Readable(1) /\ ~IsWide(Val(1)) /\ Insert(2, 0)

Dup2_x1 ==
  /\ Has(2) /\ JavaDup(2, 1)
  /\ \/ Crash(1)
     \/ Readable(1) /\ IsWide(Val(1)) /\ Insert(1, 1)
     \/ Readable(1) /\ ~IsWide(Val(1)) /\ Insert(2, 1)

Dup2_x2 ==
  /\ Has(2) /\ JavaDup(2, 2)
  /\ \/ Crash(1)
     \/ /\ Readable(1) /\ IsWide(Val(1))
        /\ \/ Crash(2)
           \/ Readable(2) /\ IsWide(Val(2)) /\ Insert(1, 1)
           \/ Readable(2) /\ ~IsWide(Val(2)) /\ Insert(1, 2)
     \/ /\ Readable(1) /\ ~IsWide(Val(1))
        /\ \/ Crash(3)
           \/ Readable(3) /\ IsWide(Val(3)) /\ Insert(2, 1)
           \/ Readable(3) /\ ~IsWide(Val(3)) /\ Insert(2, 2)

-----------------------------------------------------------------------------
Init == stack = <<>> /\ words = <<>> /\ out = "running"

Next == Push \/ Pop \/ Pop2 \/ Dup \/ Dup_x1 \/ Dup_x2 \/ Dup2 \/ Dup2_x1 \/ Dup2_x2

Spec == Init /\ [][Next]_vars

-----------------------------------------------------------------------------
Boxes == [type : Types, id : 1 .. Lost]

TypeOK ==
  /\ stack \in Seq(Boxes)
  /\ words \in Seq(Boxes \X {"high", "low", "word"}) /\ Len(words) <= MaxWords
  /\ out \in {"running", "crash"}

\* Word x of Java is that part of box b, or b is a wrong copy of it.
Is(b, part, x) ==
  /\ x[2] = part /\ b.type = x[1].type
  /\ b.id = x[1].id \/ (b.id = Lost /\ b.type \in {"float", "long"})

\* Where the words of the i-th value of s begin.
Offset(s, i) == i + Cardinality({j \in 1 .. i - 1 : IsWide(s[j])})

\* The words w are those of the values s.
Aligned(s, w) ==
  /\ Len(w) = Offset(s, Len(s) + 1) - 1
  /\ \A i \in 1 .. Len(s) :
       LET at == Offset(s, i)
       IN IF IsWide(s[i]) THEN Is(s[i], "high", w[at]) /\ Is(s[i], "low", w[at + 1])
          ELSE Is(s[i], "word", w[at])

\* Whatever the mixture of wide and narrow values, every form of these instructions moves
\* and copies the same words as Java's, in the same order, but that a copied float or long
\* has lost its value.
SameWords == out = "running" => Aligned(stack, words)

-----------------------------------------------------------------------------
\* The inductive invariant.
IInv == TypeOK /\ SameWords
=============================================================================
