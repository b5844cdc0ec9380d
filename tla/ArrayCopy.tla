------------------------------ MODULE ArrayCopy ------------------------------
(***************************************************************************)
(* System.arraycopy (JVM_ArrayCopy), beside Java's. The native copies      *)
(* pointers, so that two arrays share the boxes of their elements          *)
(* afterwards; module Frames shows why nothing changes such a box.         *)
(***************************************************************************)
EXTENDS Integers, FiniteSetsExt

CONSTANTS
  Null,       \* the null reference
  Arrays,     \* bound: the arrays that are copied from or to
  Positions,  \* bound: the positions asked for
  Lengths     \* bound: the lengths asked for

ArrayOop(ooptype, type, dimension, buf) ==
  [ooptype |-> ooptype, type |-> type, dimension |-> dimension, buf |-> buf]

\* An array: the kind of oop, its innermost element type, its dimension, its elements. An
\* element of an ObjArrayOop is null, an instance ("object", "string"), an int[] ("ints")
\* or an Object[] without elements ("objects").
CopyAssumption ==
  /\ \A a \in Arrays :
       /\ a = ArrayOop(a.ooptype, a.type, a.dimension, a.buf)
       /\ a.ooptype \in {"TypeArray", "ObjArray"} /\ a.dimension \in {1, 2}
       /\ a.buf = [k \in 0 .. Cardinality(DOMAIN a.buf) - 1 |-> a.buf[k]]
       /\ Cardinality(DOMAIN a.buf) \in Nat
  /\ Positions \subseteq Int /\ Lengths \subseteq Int

VARIABLES
  src, dst,                  \* obj1 and obj2; dst changes
  same,                      \* obj1 == obj2
  src_pos, dst_pos, length,  \* the other arguments
  old,                       \* obj2 as it was
  i,                         \* the loop's counter
  out                        \* "called", "copying", "done" or "abort" (an assert)

vars == <<src, dst, same, src_pos, dst_pos, length, old, i, out>>
arguments == <<src, same, src_pos, dst_pos, length, old>>

Size(a) == Cardinality(DOMAIN a.buf)

-----------------------------------------------------------------------------
(* Java: nothing is copied if the indices are wrong; an element that the     *)
(* destination cannot store ends the copy.                                    *)

IndicesAreWrong ==
  \/ src_pos < 0 \/ dst_pos < 0 \/ length < 0
  \/ src_pos + length > Size(src) \/ dst_pos + length > Size(dst)

HoldsNumbers(a) == a.ooptype = "TypeArray" /\ a.dimension = 1

CanStore(a, element) ==
  \/ element = Null
  \/ a.ooptype = "TypeArray" /\ element = "ints"
  \/ a.ooptype = "ObjArray" /\ a.dimension = 2 /\ element = "objects"
  \/ a.ooptype = "ObjArray" /\ a.dimension = 1 /\ (a.type = "Object" \/ element = "string")

TypesAreWrong ==
  IF HoldsNumbers(src) \/ HoldsNumbers(dst)
  THEN <<src.type, src.ooptype, src.dimension>> # <<dst.type, dst.ooptype, dst.dimension>>
  ELSE ~same /\ \E k \in src_pos .. src_pos + length - 1 : ~CanStore(dst, src.buf[k])

JavaThrows == IndicesAreWrong \/ TypesAreWrong

JavaCopy ==
  [k \in DOMAIN old.buf |->
     IF k \in dst_pos .. dst_pos + length - 1 THEN src.buf[src_pos + k - dst_pos] ELSE old.buf[k]]

-----------------------------------------------------------------------------
(* The native.                                                                *)

\* ArrayOop's operator [] asserts that the index is in the array.
InArray(a, index) == index >= 0 /\ index < Size(a)

\* get_ObjArray_real_element_klass: the class of the first instance found in the array or
\* in arrays inside it. An array of numbers on the way is an assertion.
Searched(a) == {k \in DOMAIN a.buf : a.buf[k] \notin {Null, "objects"}}

SearchDies(a) == Searched(a) # {} /\ a.buf[Min(Searched(a))] = "ints"

\* Mutant of Accepted: one array is treated like two.
AcceptedAlike ==
  \/ src.ooptype = "TypeArray" /\ dst.ooptype = "TypeArray" /\ src.dimension = dst.dimension
  \/ /\ src.ooptype = "ObjArray" /\ dst.ooptype = "ObjArray" /\ src.dimension = dst.dimension
     /\ src_pos + length <= Size(src) /\ dst_pos + length <= Size(dst)
     /\ ~SearchDies(src)

\* The asserts before the first element. The classes of the two arrays are not compared:
\* src_klass and dst_klass are both computed from obj1.
Accepted ==
  \/ same
  \/ src.ooptype = "TypeArray" /\ dst.ooptype = "TypeArray" /\ src.dimension = dst.dimension
  \/ /\ src.ooptype = "ObjArray" /\ dst.ooptype = "ObjArray" /\ src.dimension = dst.dimension
     /\ src_pos + length <= Size(src) /\ dst_pos + length <= Size(dst)
     /\ ~SearchDies(src)

\* Mutant of Source: an array is copied within itself without the temporary one.
SourceInPlace == IF same THEN dst.buf ELSE src.buf

\* What is read: obj1, or a temporary copy of it if it is obj2.
Source == src.buf

Call ==
  /\ out = "called" /\ out' = IF Accepted THEN "copying" ELSE "abort"
  /\ UNCHANGED <<arguments, dst, i>>

Store ==
  /\ dst' = [dst EXCEPT !.buf[dst_pos + i] = Source[src_pos + i]]
  /\ i' = i + 1 /\ UNCHANGED out

BothInArray == InArray(src, src_pos + i) /\ InArray(dst, dst_pos + i)

\* Mutant of CopyElement: the copy ends at the end of an array.
CopyWhatThereIs ==
  /\ out = "copying" /\ i < length
  /\ \/ BothInArray /\ Store
     \/ ~BothInArray /\ out' = "done" /\ UNCHANGED <<dst, i>>
  /\ UNCHANGED arguments

CopyElement ==
  /\ out = "copying" /\ i < length
  /\ \/ BothInArray /\ Store
     \/ ~BothInArray /\ out' = "abort" /\ UNCHANGED <<dst, i>>
  /\ UNCHANGED arguments

End == out = "copying" /\ i >= length /\ out' = "done" /\ UNCHANGED <<arguments, dst, i>>

Init ==
  /\ src \in Arrays /\ dst \in Arrays /\ same \in BOOLEAN /\ (same => src = dst)
  /\ src_pos \in Positions /\ dst_pos \in Positions /\ length \in Lengths
  /\ old = dst /\ i = 0 /\ out = "called"

Next == Call \/ CopyElement \/ End

Spec == Init /\ [][Next]_vars

-----------------------------------------------------------------------------
TypeOK ==
  /\ src \in Arrays /\ old \in Arrays /\ DOMAIN dst.buf = DOMAIN old.buf
  /\ i \in Nat /\ out \in {"called", "copying", "done", "abort"}

\* A copy that Java makes and the native completes has Java's result, the rest of the
\* destination untouched, though an array may be copied over itself.
CopiesAsJava == out = "done" /\ ~JavaThrows => dst.buf = JavaCopy

\* Where Java throws the native aborts, unless nothing is to be copied or the types of
\* elements are wrong, which it does not see.
ThrowsAreAborts == out = "done" => ~(IndicesAreWrong /\ length > 0)

\* Where Java copies the native does, but between arrays of different kinds or dimensions
\* and from an array of references in which it meets an array of numbers first.
CopiesAreCopied ==
  out = "abort" /\ ~JavaThrows =>
    ~same /\ (src.ooptype # dst.ooptype \/ src.dimension # dst.dimension \/ SearchDies(src))

-----------------------------------------------------------------------------
\* The inductive invariant: the first i elements are copied and nothing else of obj2 has
\* changed; all indices so far were in the arrays, and an abort has its reason.
IInv ==
  /\ TypeOK
  /\ src_pos \in Int /\ dst_pos \in Int /\ length \in Int
  /\ same => src = old
  /\ dst = ArrayOop(old.ooptype, old.type, old.dimension, dst.buf)
  /\ dst.buf = [k \in DOMAIN old.buf |->
                  IF k \in dst_pos .. dst_pos + i - 1 THEN src.buf[src_pos + k - dst_pos] ELSE old.buf[k]]
  /\ i > 0 => i <= length
  /\ \A k \in 0 .. i - 1 : InArray(src, src_pos + k) /\ InArray(old, dst_pos + k)
  /\ out = "done" => i >= length
  /\ out = "abort" => ~Accepted \/ (i < length /\ ~BothInArray)
=============================================================================
