----------------------------- MODULE ControlFlow -----------------------------
(***************************************************************************)
(* How BytecodeEngine::execute moves the program counter: the lengths of   *)
(* bccode_map, the branches and the two switches, beside the pc and the    *)
(* operand stack of Java. The code itself is arbitrary: every step takes   *)
(* some instruction to lie at pc.                                          *)
(*                                                                         *)
(* The loop adds `occupied' to pc after every instruction, so a jump       *)
(* subtracts it first. Neither switch pops its key.                        *)
(***************************************************************************)
EXTENDS Integers, Sequences, FiniteSets

CONSTANTS
  CodeLength,   \* length of the method's code
  Ints, IntMax, \* some ints, INT_MAX among them
  Refs, Null,   \* references
  Size,         \* bound: entries on the operand stack
  Surplus       \* bound: keys left behind

ControlAssumption ==
  /\ CodeLength \in Nat \ {0}
  /\ Ints \subseteq Int /\ IntMax \in Ints /\ \A i \in Ints : i <= IntMax
  /\ Null \in Refs

VARIABLES
  pc, stack,      \* the engine's program counter and operand stack
  jpc, jstack,    \* Java's
  dev,            \* a switch the engine does not perform as Java does
  out             \* "running", "returned" or "abort" (an assert of the engine)

vars == <<pc, stack, jpc, jstack, dev, out>>

Offsets == 0 .. CodeLength - 1

\* Operand bytes by instruction, as bccode_map lists them; a few stand for many.
Operands ==
  [nop |-> 0, iconst |-> 0, aconst |-> 0, bipush |-> 1, sipush |-> 2, if |-> 2, goto |-> 2,
   multianewarray |-> 3, invokeinterface |-> 4, tableswitch |-> -1, lookupswitch |-> -2]

Occupied(op) == Operands[op] + 1

\* The length Java gives the instructions that do not jump.
JavaLength(op) ==
  CASE op \in {"nop", "iconst", "aconst"} -> 1 [] op = "bipush" -> 2
    [] op \in {"sipush", "if"} -> 3 [] op = "multianewarray" -> 4 [] op = "invokeinterface" -> 5

Running == out = "running" /\ dev = {} /\ pc < CodeLength

\* The end of an instruction that leaves pc at p: `pc += occupied'.
Advance(p, op) == pc' = p + Occupied(op) /\ UNCHANGED out

Pushes(v) == stack' = Append(stack, v) /\ jstack' = Append(jstack, v)
Pops(n) ==
  /\ stack' = SubSeq(stack, 1, Len(stack) - n)
  /\ jstack' = SubSeq(jstack, 1, Len(jstack) - n)

Holds(n, S) ==
  Len(jstack) >= n /\ \A i \in Len(jstack) - n + 1 .. Len(jstack) : jstack[i] \in S

-----------------------------------------------------------------------------
(* Straight-line code.                                                      *)

PushValue ==
  /\ Running /\ Len(jstack) < Size
  /\ \E op \in {"iconst", "bipush", "sipush"}, v \in Ints :
       Pushes(v) /\ Advance(pc, op) /\ jpc' = jpc + JavaLength(op)
  /\ UNCHANGED dev

PushReference ==
  /\ Running /\ Len(jstack) < Size
  /\ \E r \in Refs : Pushes(r)
  /\ Advance(pc, "aconst") /\ jpc' = jpc + JavaLength("aconst")
  /\ UNCHANGED dev

PlainInstruction ==
  /\ Running
  /\ \E op \in {"nop", "multianewarray", "invokeinterface"} :
       Advance(pc, op) /\ jpc' = jpc + JavaLength(op)
  /\ UNCHANGED <<stack, jstack, dev>>

\* default: of the switch over the opcodes (fsub, swap, goto_w, wide and others).
Unsupported ==
  /\ Running
  /\ out' = "abort"
  /\ UNCHANGED <<pc, stack, jpc, jstack, dev>>

-----------------------------------------------------------------------------
(* Branches.                                                                *)

Compare(c, a, b) ==
  CASE c = "eq" -> a = b [] c = "ne" -> a # b [] c = "lt" -> a < b
    [] c = "ge" -> a >= b [] c = "gt" -> a > b [] c = "le" -> a <= b

Conditions == {"eq", "ne", "lt", "ge", "gt", "le"}

\* `pc += branch_pc; pc -= occupied' if the engine's test holds, jtest being Java's.
Branch(op, judge, jtest) ==
  \E target \in Offsets :
    LET branch_pc == target - jpc
    IN /\ Advance(IF judge THEN pc + branch_pc - Occupied(op) ELSE pc, op)
       /\ jpc' = IF jtest THEN target ELSE jpc + JavaLength(op)

Top(s, i) == s[Len(s) - i]

\* Mutant of If: the operand is read and not popped.
IfKeeps ==
  /\ Running /\ Holds(1, Ints)
  /\ \E c \in Conditions : Branch("if", Compare(c, Top(stack, 0), 0), Compare(c, Top(jstack, 0), 0))
  /\ jstack' = SubSeq(jstack, 1, Len(jstack) - 1) /\ UNCHANGED <<stack, dev>>

\* ifeq .. ifle
If ==
  /\ Running /\ Holds(1, Ints)
  /\ \E c \in Conditions : Branch("if", Compare(c, Top(stack, 0), 0), Compare(c, Top(jstack, 0), 0))
  /\ Pops(1) /\ UNCHANGED dev

\* if_icmpeq .. if_icmple
IfCompare ==
  /\ Running /\ Holds(2, Ints)
  /\ \E c \in Conditions :
       Branch("if", Compare(c, Top(stack, 1), Top(stack, 0)), Compare(c, Top(jstack, 1), Top(jstack, 0)))
  /\ Pops(2) /\ UNCHANGED dev

\* if_acmpeq, if_acmpne; ifnull, ifnonnull
IfReference ==
  /\ Running /\ Holds(2, Refs)
  /\ \E c \in {"eq", "ne"} :
       Branch("if", Compare(c, Top(stack, 1), Top(stack, 0)), Compare(c, Top(jstack, 1), Top(jstack, 0)))
  /\ Pops(2) /\ UNCHANGED dev

IfNull ==
  /\ Running /\ Holds(1, Refs)
  /\ \E c \in {"eq", "ne"} : Branch("if", Compare(c, Top(stack, 0), Null), Compare(c, Top(jstack, 0), Null))
  /\ Pops(1) /\ UNCHANGED dev

Goto ==
  /\ Running
  /\ Branch("goto", TRUE, TRUE)
  /\ UNCHANGED <<stack, jstack, dev>>

-----------------------------------------------------------------------------
(* Switches. Their tables start at the next multiple of four after the      *)
(* opcode. A table is given by its words, in class-file order.              *)

\* Mutant of Padded: to a multiple of two.
PaddedToTwo(bc_num) == bc_num + (2 - (bc_num % 2))

Padded(bc_num) == IF bc_num % 4 # 0 THEN bc_num + (4 - (bc_num % 4)) ELSE bc_num + 4

JavaPadded(a) == 4 * ((a + 4) \div 4)

\* The word of the table that lies at offset ptr; code that is not a table is 0.
Word(table, ptr) ==
  LET n == (ptr - JavaPadded(jpc)) \div 4
  IN IF (ptr - JavaPadded(jpc)) % 4 = 0 /\ n \in 0 .. Len(table) - 1 THEN table[n + 1] ELSE 0

\* Java compilers switch on a key that is alone on the operand stack.
Switches == Running /\ Len(jstack) = 1 /\ Holds(1, Ints) /\ Len(stack) <= Surplus

\* default, low, high, then a jump for every value from low to high.
Tableswitch ==
  /\ Switches
  /\ \E low \in Ints, high \in Ints :
     /\ low <= high
     /\ \E default \in Offsets, jumps \in [1 .. high - low + 1 -> Offsets] :
        LET table == <<default - jpc, low, high>> \o [i \in 1 .. high - low + 1 |-> jumps[i] - jpc]
            ptr == Padded(pc)
            lowbyte == Word(table, ptr + 4)
            num == Word(table, ptr + 8) - lowbyte + 1
            jump_tbl == [i \in 1 .. num |-> Word(table, ptr + 8 + 4 * i) + pc]
                        \o <<Word(table, ptr) + pc>>
            key == Top(stack, 0)
            jump == IF key > Len(jump_tbl) - 1 + lowbyte \/ key < lowbyte
                    THEN jump_tbl[Len(jump_tbl)] ELSE jump_tbl[key - lowbyte + 1]
            jkey == Top(jstack, 0)
        IN /\ Advance(jump - Occupied("tableswitch"), "tableswitch")
           /\ jpc' = IF jkey \in low .. high THEN jumps[jkey - low + 1] ELSE default
  /\ jstack' = <<>>
  /\ UNCHANGED <<stack, dev>>

\* The cases of a table are sorted.
Ascending(n) == {cases \in [1 .. n -> Ints] : \A i, j \in 1 .. n : i < j => cases[i] < cases[j]}

\* default, npairs, then a match and a jump for every case. The default is kept under
\* INT_MAX, which std::map::insert leaves to a case of that value.
Lookupswitch ==
  /\ Switches
  /\ \E n \in 0 .. Cardinality(Ints) : \E cases \in Ascending(n), default \in Offsets :
     \E jumps \in [1 .. n -> Offsets] :
        LET table == <<default - jpc, n>>
                     \o [i \in 1 .. 2 * n |->
                           IF i % 2 = 1 THEN cases[(i + 1) \div 2] ELSE jumps[i \div 2] - jpc]
            ptr == Padded(pc)
            npairs == Word(table, ptr + 4)
            match(m) == Word(table, ptr + 8 * m)
            jump_pos(m) == Word(table, ptr + 8 * m + 4) + pc
            found(k) == {m \in 1 .. npairs : match(m) = k}
            elsewhere == IF found(IntMax) # {} THEN jump_pos(CHOOSE m \in found(IntMax) : TRUE)
                         ELSE Word(table, ptr) + pc
            key == Top(stack, 0)
            jump == IF found(key) # {} THEN jump_pos(CHOOSE m \in found(key) : TRUE)
                    ELSE elsewhere
            jkey == Top(jstack, 0)
            case(k) == {m \in 1 .. n : cases[m] = k}
        IN /\ Advance(jump - Occupied("lookupswitch"), "lookupswitch")
           /\ jpc' = IF case(jkey) # {} THEN jumps[CHOOSE m \in case(jkey) : TRUE] ELSE default
           /\ dev' = IF case(IntMax) # {} /\ case(jkey) = {} THEN {"lookupswitch"} ELSE {}
  /\ jstack' = <<>>
  /\ UNCHANGED stack

\* The loop ends when pc passes the code, and execute returns.
FallOff ==
  /\ out = "running" /\ pc >= CodeLength
  /\ out' = "returned"
  /\ UNCHANGED <<pc, stack, jpc, jstack, dev>>

-----------------------------------------------------------------------------
Init ==
  /\ pc = 0 /\ stack = <<>>
  /\ jpc = 0 /\ jstack = <<>>
  /\ dev = {} /\ out = "running"

Next ==
  \/ PushValue \/ PushReference \/ PlainInstruction \/ Unsupported
  \/ If \/ IfCompare \/ IfReference \/ IfNull \/ Goto
  \/ Tableswitch \/ Lookupswitch \/ FallOff

Spec == Init /\ [][Next]_vars

-----------------------------------------------------------------------------
TypeOK ==
  /\ pc \in Int /\ jpc \in Nat
  /\ stack \in Seq(Ints \cup Refs) /\ jstack \in Seq(Ints \cup Refs)
  /\ dev \subseteq {"lookupswitch"}
  /\ out \in {"running", "returned", "abort"}

\* After any sequence of branches, jumps and switches the engine is at the instruction
\* Java would be at, unless a lookupswitch with a case for INT_MAX fell to its default.
SameProgramCounter == dev = {} => pc = jpc

\* The keys the switches leave behind stay below everything Java has on the stack, so no
\* later instruction reads one. (They are never removed: see Surplus.)
KeysStayBelow ==
  /\ Len(jstack) <= Len(stack)
  /\ \A i \in 0 .. Len(jstack) - 1 : Top(jstack, i) = Top(stack, i)

-----------------------------------------------------------------------------
\* The inductive invariant.
IInv == TypeOK /\ SameProgramCounter /\ KeysStayBelow
=============================================================================
