------------------------------- MODULE Frames -------------------------------
(***************************************************************************)
(* Where values live: the local variables and the operand stacks of the    *)
(* frames, the fields and the array elements. Every number is a box on the *)
(* heap (IntOop, LongOop), and an instruction either copies the box or     *)
(* hands on the pointer. Java knows no boxes: beside every pointer stands  *)
(* the value Java would have there.                                        *)
(*                                                                         *)
(* One object stands for the receiver of every field and element access.   *)
(* Boxes nothing points to are taken back at once.                         *)
(***************************************************************************)
EXTENDS Integers, Sequences, SequencesExt, FiniteSets

CONSTANTS
  NoBox, Unset,         \* a free box; a location Java may not read
  Null, Obj,            \* references
  Ints, Longs,          \* values; Ints is an interval and wraps around
  Literals,             \* bound: the numbers the code has as constants
  ShortForms,           \* local variables with short instructions (4 in the instruction set)
  MaxLocals,            \* local variables of every method
  Depth, MaxOps, Boxes, \* bounds: frames, operands of a frame, boxes
  Steps                 \* bound: instructions

Fields == {"field", "static"}
ByteArrays == {"byte[]"}
Arrays == {"int[]", "Object[]"} \cup ByteArrays
Cells == Fields \cup Arrays

VARIABLES
  boxes,   \* the number in every box
  frames,  \* the thread's vm_stack: local variables and operands, as slots
  heap,    \* the fields and elements, as slots
  alias,   \* a box was changed in place while two locations held it
  fate,    \* "running" or "abort" (an assert, or a null pointer)
  steps    \* instructions so far

vars == <<boxes, frames, heap, alias, fate, steps>>

\* A slot: the pointer the engine has there and the value Java has.
Slot(oop, value) == [oop |-> oop, java |-> value]
Number(t, v) == [type |-> t, val |-> v]

Numbers == {Number("int", v) : v \in Ints} \cup {Number("long", v) : v \in Longs}
Refs == {Null, Obj}

Least(S) == CHOOSE x \in S : \A y \in S : x <= y
Greatest(S) == CHOOSE x \in S : \A y \in S : x >= y
WrapInt(v) == IF v > Greatest(Ints) THEN Least(Ints) ELSE IF v < Least(Ints) THEN Greatest(Ints) ELSE v

FramesAssumption ==
  /\ Null # Obj /\ 1 .. 4 \subseteq Boxes /\ Refs \cap Boxes = {}
  /\ (Refs \cup {Unset, NoBox}) \cap Numbers = {} /\ Unset \notin Refs
  /\ {ShortForms, MaxLocals, Depth, MaxOps, Steps} \subseteq Nat /\ Depth > 0
  /\ Least(Ints) \in Int /\ Greatest(Ints) \in Int /\ Ints = Least(Ints) .. Greatest(Ints)
  /\ {-1, 0, 1} \subseteq Ints /\ Longs \subseteq Int /\ Literals \subseteq Numbers

IsNumber(s) == s.oop \in Boxes
IsInt(s) == s.java \in {Number("int", v) : v \in Ints}
IsWide(v) == v \in {Number("long", x) : x \in Longs}

\* What the engine reads in a slot.
Read(s) == IF IsNumber(s) THEN boxes[s.oop] ELSE s.oop

FreeBoxes == {b \in Boxes : boxes[b] = NoBox}
Fresh == CHOOSE b \in FreeBoxes : TRUE

-----------------------------------------------------------------------------
(* Locations.                                                               *)

Slots(fs, h) ==
  (UNION {ToSet(fs[i].locals) \cup ToSet(fs[i].ops) : i \in 1 .. Len(fs)}) \cup {h[c] : c \in Cells}

\* Does another location hold the same box as local variable i of the running method, or
\* as cell c?
InCells(b, cells) == \E c \in cells : heap[c].oop = b
InLocals(b, but) ==
  \E k \in 1 .. Len(frames) : \E j \in 1 .. MaxLocals : <<k, j>> # but /\ frames[k].locals[j].oop = b
InOps(b) == \E k \in 1 .. Len(frames) : \E j \in 1 .. Len(frames[k].ops) : frames[k].ops[j].oop = b

LocalIsShared(i) ==
  LET b == frames[Len(frames)].locals[i].oop
  IN InCells(b, Cells) \/ InLocals(b, <<Len(frames), i>>) \/ InOps(b)
CellIsShared(c) ==
  LET b == heap[c].oop IN InCells(b, Cells \ {c}) \/ InLocals(b, <<>>) \/ InOps(b)

Update(fs, h, bs) ==
  /\ frames' = fs /\ heap' = h /\ steps' = steps + 1
  /\ boxes' = LET used == {s.oop : s \in Slots(fs, h)}
              IN [b \in Boxes |-> IF b \in used THEN bs[b] ELSE NoBox]

Here == Len(frames)
Locals == frames[Here].locals
Ops == frames[Here].ops
Top(n) == Ops[Len(Ops) - n + 1]
Popped(n) == SubSeq(Ops, 1, Len(Ops) - n)
WithOps(s) == [frames EXCEPT ![Here].ops = s]

Executing == fate = "running" /\ ~alias /\ steps < Steps
Room == Len(Ops) < MaxOps /\ FreeBoxes # {}
HasOps(n) == Executing /\ Len(Ops) >= n /\ FreeBoxes # {}

\* new IntOop(...->value): a box of one's own; a reference is handed on.
CopyOf(s) == IF IsNumber(s) THEN Slot(Fresh, s.java) ELSE s
WithCopy(s) == IF IsNumber(s) THEN [boxes EXCEPT ![Fresh] = boxes[s.oop]] ELSE boxes

Abort == fate' = "abort" /\ UNCHANGED <<boxes, frames, heap, alias, steps>>
Goes == UNCHANGED <<alias, fate>>

-----------------------------------------------------------------------------
(* Constants, local variables.                                              *)

\* iconst_m1 .. sipush, ldc and ldc2_w of a number
PushNumber ==
  /\ Executing /\ Room /\ Goes
  /\ \E v \in Literals : Update(WithOps(Append(Ops, Slot(Fresh, v))), heap, [boxes EXCEPT ![Fresh] = v])

\* aconst_null, ldc of a string or a class
PushReference ==
  /\ Executing /\ Room /\ Goes
  /\ \E r \in Refs : Update(WithOps(Append(Ops, Slot(r, r))), heap, boxes)

\* iload_0 .. dload_3, aload_0 .. aload_3, and the forms with an index.
LoadNumber(i) ==
  /\ Executing /\ Room /\ Locals[i].java \in Numbers
  /\ Update(WithOps(Append(Ops, CopyOf(Locals[i]))), heap, WithCopy(Locals[i]))
  /\ Goes

LoadReference(i) ==
  /\ Executing /\ Room /\ Locals[i].java \in Refs
  /\ Update(WithOps(Append(Ops, Locals[i])), heap, boxes)
  /\ Goes

\* Local i becomes s. The second half of a long is not touched; Java may not read it, nor
\* the first half of a long that is cut.
WithLocal(i, s) ==
  [j \in 1 .. MaxLocals |->
     IF j = i THEN s
     ELSE IF \/ j = i + 1 /\ IsWide(s.java)
             \/ j = i - 1 /\ IsWide(Locals[j].java)
          THEN Slot(Locals[j].oop, Unset)
     ELSE Locals[j]]

\* istore_0 .. dstore_3, astore_0 .. astore_3, and the forms with an index.
StoreNumber(i) ==
  /\ HasOps(1) /\ Top(1).java \in Numbers
  /\ IsWide(Top(1).java) => i < MaxLocals
  /\ Update([frames EXCEPT ![Here] = [locals |-> WithLocal(i, CopyOf(Top(1))), ops |-> Popped(1)]],
            heap, WithCopy(Top(1)))
  /\ Goes

StoreReference(i) ==
  /\ HasOps(1) /\ Top(1).java \in Refs
  /\ Update([frames EXCEPT ![Here] = [locals |-> WithLocal(i, Top(1)), ops |-> Popped(1)]], heap, boxes)
  /\ Goes

\* iload .. aload and istore .. astore with an index assert that it has no short form.
LongForm(i) == Executing /\ i <= ShortForms /\ Abort

\* iinc adds to the box the local variable points to.
Iinc(i) ==
  /\ Executing /\ IsInt(Locals[i])
  /\ \E c \in {-1, 1} :
       Update([frames EXCEPT ![Here].locals[i].java.val = WrapInt(@ + c)], heap,
              [boxes EXCEPT ![Locals[i].oop].val = WrapInt(@ + c)])
  /\ alias' = LocalIsShared(i)
  /\ UNCHANGED fate

-----------------------------------------------------------------------------
(* Arrays: every array has one element.                                     *)

ElementType(c) == IF c = "Object[]" THEN Refs ELSE {Number("int", v) : v \in Ints}

\* baload and bastore narrow to a byte, which here has the values -1 and 0.
NarrowTo(c, v) == IF c \in ByteArrays THEN Number("int", ((v.val + 1) % 2) - 1) ELSE v

\* new, newarray, anewarray. Fields and elements are filled with boxes of zero, or null.
Zero(c) == IF c = "Object[]" THEN Null ELSE Number("int", 0)

NewArray(c) ==
  /\ HasOps(1) /\ IsInt(Top(1))
  /\ \/ Read(Top(1)).val < 0 /\ Abort
     \/ /\ Read(Top(1)).val >= 0 /\ Goes
        /\ Update(WithOps(Append(Popped(1), Slot(Obj, Obj))),
                  [heap EXCEPT ![c] = Slot(IF Zero(c) = Null THEN Null ELSE Fresh, Zero(c))],
                  IF Zero(c) = Null THEN boxes ELSE [boxes EXCEPT ![Fresh] = Zero(c)])

\* arraylength
ArrayLength ==
  /\ HasOps(1) /\ Top(1).java \in Refs
  /\ \/ Top(1).oop = Null /\ Abort
     \/ /\ Top(1).oop # Null /\ Goes
        /\ Update(WithOps(Append(Popped(1), Slot(Fresh, Number("int", 1)))), heap,
                  [boxes EXCEPT ![Fresh] = Number("int", 1)])

\* Mutant of ArrayLoad: the element's own box is pushed.
ArrayLoadShared(c) ==
  /\ HasOps(2) /\ IsInt(Top(1)) /\ Top(2).java \in Refs
  /\ Top(2).oop # Null /\ Read(Top(1)).val = 0
  /\ Update(WithOps(Append(Popped(2), heap[c])), heap, boxes)
  /\ Goes

\* iaload, baload, caload, aaload: the array and the index are popped.
ArrayLoad(c) ==
  /\ HasOps(2) /\ IsInt(Top(1)) /\ Top(2).java \in Refs
  /\ \/ (Top(2).oop = Null \/ Read(Top(1)).val # 0) /\ Abort
     \/ /\ Top(2).oop # Null /\ Read(Top(1)).val = 0 /\ Goes
        /\ Update(WithOps(Append(Popped(2), CopyOf(heap[c]))), heap, WithCopy(heap[c]))

\* iastore, bastore, castore, aastore. iastore and aastore leave a negative index to
\* ArrayOop's operator [], which asserts as well.
ArrayStore(c) ==
  /\ HasOps(3) /\ IsInt(Top(2)) /\ Top(3).java \in Refs /\ Top(1).java \in ElementType(c)
  /\ LET index == Read(Top(2)).val
         copy == WithCopy(Top(1))
     IN \/ (Top(3).oop = Null \/ index # 0) /\ Abort
        \/ /\ Top(3).oop # Null /\ index = 0 /\ Goes
           /\ Update(WithOps(Popped(3)),
                     [heap EXCEPT ![c] = [CopyOf(Top(1)) EXCEPT !.java = NarrowTo(c, @)]],
                     IF IsNumber(Top(1)) THEN [copy EXCEPT ![Fresh] = NarrowTo(c, @)] ELSE copy)

-----------------------------------------------------------------------------
(* Fields. The box itself travels between the field and the operand stack.  *)

GetStatic ==
  /\ Executing /\ Room /\ Goes
  /\ Update(WithOps(Append(Ops, heap["static"])), heap, boxes)

PutStatic ==
  /\ HasOps(1) /\ IsInt(Top(1)) /\ Goes
  /\ Update(WithOps(Popped(1)), [heap EXCEPT !["static"] = Top(1)], boxes)

GetField ==
  /\ HasOps(1) /\ Top(1).java \in Refs
  /\ \/ Top(1).oop = Null /\ Abort
     \/ Top(1).oop # Null /\ Goes /\ Update(WithOps(Append(Popped(1), heap["field"])), heap, boxes)

PutField ==
  /\ HasOps(2) /\ IsInt(Top(1)) /\ Top(2).java \in Refs
  /\ \/ Top(2).oop = Null /\ Abort
     \/ /\ Top(2).oop # Null /\ Goes
        /\ Update(WithOps(Popped(2)), [heap EXCEPT !["field"] = Top(1)], boxes)

\* Unsafe.compareAndSwapInt exchanges the number in the box of the field; its arguments are
\* on the stack of the native method. The fields here are ints: compareAndSwapLong, which does
\* the same to a LongOop, is not modelled.
CompareAndSwapInt(c) ==
  /\ Executing /\ Room
  /\ \E expected \in Ints, x \in Ints :
     LET target == heap[c].oop
         swaps == boxes[target].val = expected
         ret == Number("int", IF swaps THEN 1 ELSE 0)
         javaRet == Number("int", IF heap[c].java.val = expected THEN 1 ELSE 0)
     IN /\ Update(WithOps(Append(Ops, Slot(Fresh, javaRet))),
                  [heap EXCEPT ![c].java.val = IF @ = expected THEN x ELSE @],
                  [b \in Boxes |-> CASE b = Fresh -> ret
                                     [] b = target /\ swaps -> Number("int", x)
                                     [] OTHER -> boxes[b]])
        /\ alias' = (swaps /\ x # expected /\ CellIsShared(c))
  /\ UNCHANGED fate

-----------------------------------------------------------------------------
(* Calls.                                                                   *)

\* Where argument k goes if those in `long' take two variables.
Place(k, long) == k + Cardinality({j \in long : j < k})

\* Mutant of LocalVariableTable: a long takes one variable.
OneVariableEach(args) ==
  [i \in 1 .. MaxLocals |-> IF i <= Len(args) THEN args[i] ELSE Slot(Null, Unset)]

\* The constructor of StackFrame: a long is followed by a null pointer.
LocalVariableTable(args) ==
  LET long == {k \in 1 .. Len(args) : IsNumber(args[k]) /\ boxes[args[k].oop].type = "long"}
      at(i) == {k \in 1 .. Len(args) : Place(k, long) = i}
  IN [i \in 1 .. MaxLocals |-> IF at(i) # {} THEN args[CHOOSE k \in at(i) : TRUE] ELSE Slot(Null, Unset)]

\* Java's: the arguments in order, a long taking two variables.
JavaLocals(args) ==
  LET long == {k \in 1 .. Len(args) : IsWide(args[k].java)}
      at(i) == {k \in 1 .. Len(args) : Place(k, long) = i}
  IN [i \in 1 .. MaxLocals |-> IF at(i) # {} THEN args[CHOOSE k \in at(i) : TRUE].java ELSE Unset]

ArgumentWords(args) == Cardinality({i \in 1 .. Len(args) : IsWide(args[i].java)}) + Len(args)

\* The arguments are moved from the operand stack to the callee's locals, last one first.
Invoke(n) ==
  /\ Executing /\ Len(Ops) >= n /\ Here < Depth
  /\ LET args == SubSeq(Ops, Len(Ops) - n + 1, Len(Ops))
         table == LocalVariableTable(args)
     IN /\ ArgumentWords(args) <= MaxLocals
        /\ Update(Append(WithOps(Popped(n)),
                         [locals |-> [i \in 1 .. MaxLocals |-> Slot(table[i].oop, JavaLocals(args)[i])],
                          ops |-> <<>>]),
                  heap, boxes)
  /\ Goes

\* ireturn .. areturn give a copy, or the reference, to the caller; return gives nothing.
ReturnValue ==
  /\ HasOps(1) /\ Here > 1 /\ Len(frames[Here - 1].ops) < MaxOps
  /\ LET caller == Front(frames)
     IN Update([caller EXCEPT ![Here - 1].ops = Append(@, CopyOf(Top(1)))], heap, WithCopy(Top(1)))
  /\ Goes

ReturnVoid == Executing /\ Here > 1 /\ Update(Front(frames), heap, boxes) /\ Goes

-----------------------------------------------------------------------------
EmptyFrame == [locals |-> [i \in 1 .. MaxLocals |-> Slot(Null, Unset)], ops |-> <<>>]

CellBox(c) == CASE c = "field" -> 1 [] c = "static" -> 2 [] c = "int[]" -> 3 [] c = "byte[]" -> 4

Init ==
  /\ frames = <<EmptyFrame>>
  /\ heap = [c \in Cells |-> Slot(IF Zero(c) = Null THEN Null ELSE CellBox(c), Zero(c))]
  /\ boxes = [b \in Boxes |-> IF b \in 1 .. 4 THEN Number("int", 0) ELSE NoBox]
  /\ alias = FALSE /\ fate = "running" /\ steps = 0

Next ==
  \/ PushNumber \/ PushReference \/ ArrayLength \/ GetStatic \/ PutStatic \/ GetField \/ PutField
  \/ ReturnValue \/ ReturnVoid
  \/ \E i \in 1 .. MaxLocals : LoadNumber(i) \/ LoadReference(i) \/ StoreNumber(i) \/ StoreReference(i)
                           \/ LongForm(i) \/ Iinc(i)
  \/ \E c \in Arrays : NewArray(c) \/ ArrayLoad(c) \/ ArrayStore(c)
  \/ \E c \in Fields : CompareAndSwapInt(c)
  \/ \E n \in 0 .. MaxLocals : Invoke(n)

Spec == Init /\ [][Next]_vars

-----------------------------------------------------------------------------
Values == Numbers \cup Refs \cup {Unset}
SlotSet == [oop : Boxes \cup Refs, java : Values]

TypeOK ==
  /\ boxes \in [Boxes -> Numbers \cup {NoBox}]
  /\ frames \in Seq([locals : [1 .. MaxLocals -> SlotSet], ops : Seq(SlotSet)])
  /\ heap \in [Cells -> SlotSet]
  /\ Len(frames) \in 1 .. Depth /\ \A k \in 1 .. Len(frames) : Len(frames[k].ops) <= MaxOps
  /\ alias \in BOOLEAN /\ fate \in {"running", "abort"} /\ steps \in 0 .. Steps

\* Every location reads as Java's, through calls, returns and sharing of boxes: as long as
\* no box was changed in place while a second location held it.
SameValues ==
  ~alias => \A s \in Slots(frames, heap) : s.java # Unset => Read(s) = s.java

\* An instruction never lets an array element share its box: array loads and stores both
\* copy, so that iinc, which changes a box in place, cannot reach an array. (The arrays that
\* System.arraycopy and clone make share boxes with each other only: module ArrayCopy.)
ElementsOwnTheirBox == \A c \in Arrays : IsNumber(heap[c]) => ~CellIsShared(c)

EachLocationHasItsOwnValue == \A s \in Slots(frames, heap) : s.java # Unset => Read(s) = s.java

\* iinc adds to a local variable of the running method, as its message says
\* (`localVariableTable[index] += const'): no other location reads differently after it.
\* It does not hold of an argument that is still the box of a field.
IincChangesOneLocal ==
  [][(\E i \in 1 .. MaxLocals : Iinc(i)) => EachLocationHasItsOwnValue']_vars

-----------------------------------------------------------------------------
\* Only local variables may be unset; fields and elements have their types.
SetInv ==
  /\ \A k \in 1 .. Len(frames) : \A j \in 1 .. Len(frames[k].ops) : frames[k].ops[j].java # Unset
  /\ \A c \in Cells : heap[c].java \in ElementType(c)

\* A box that some location points to is not free.
UsedInv == \A s \in Slots(frames, heap) : IsNumber(s) => boxes[s.oop] \in Numbers

\* The inductive invariant.
IInv == TypeOK /\ SetInv /\ UsedInv /\ SameValues /\ ElementsOwnTheirBox
=============================================================================
