-------------------------- MODULE InstructionsProofs --------------------------
(* The invariants of the instruction models for every value of the constants.   *)
EXTENDS Instructions, Sequences, SequenceTheorems, FiniteSetTheorems, TLAPS

-----------------------------------------------------------------------------
(* Parts of sequences.                                                          *)

LEMMA Prefix ==
  ASSUME NEW V, NEW s \in Seq(V), NEW n \in Nat, n <= Len(s)
  PROVE  /\ SubSeq(s, 1, Len(s) - n) \in Seq(V) /\ Len(SubSeq(s, 1, Len(s) - n)) = Len(s) - n
         /\ \A k \in 1 .. Len(s) - n : SubSeq(s, 1, Len(s) - n)[k] = s[k]
<1>1. Len(s) \in Nat /\ \A k \in 1 .. Len(s) : s[k] \in V
  BY ElementOfSeq
<1>2. Len(s) - n \in Int /\ \A k \in 1 .. Len(s) - n : s[k] \in V
  BY <1>1
<1>3. 1 \in Int /\ \A k \in 1 .. (Len(s) - n) - 1 + 1 : 1 + k - 1 = k
  BY <1>1
<1>4. (IF 1 <= Len(s) - n THEN (Len(s) - n) - 1 + 1 ELSE 0) = Len(s) - n
  BY <1>1
<1>5. 1 .. (Len(s) - n) - 1 + 1 = 1 .. Len(s) - n
  BY <1>1
<1> QED
  BY <1>2, <1>3, <1>4, <1>5, SubSeqProperties

\* Two adjacent parts of a sequence.
LEMMA Split ==
  ASSUME NEW V, NEW s \in Seq(V), NEW n \in 0 .. Len(s)
  PROVE  /\ s = SubSeq(s, 1, n) \o SubSeq(s, n + 1, Len(s))
         /\ SubSeq(s, 1, n) \in Seq(V) /\ Len(SubSeq(s, 1, n)) = n
         /\ \A i \in 1 .. n : SubSeq(s, 1, n)[i] = s[i]
         /\ SubSeq(s, n + 1, Len(s)) \in Seq(V) /\ Len(SubSeq(s, n + 1, Len(s))) = Len(s) - n
         /\ \A i \in 1 .. Len(s) - n : SubSeq(s, n + 1, Len(s))[i] = s[n + i]
<1>1. Len(s) \in Nat /\ n \in Int /\ n + 1 \in Int /\ 1 \in Int /\ Len(s) \in Int
  OBVIOUS
<1>2. (\A i \in 1 .. n : s[i] \in V) /\ (\A i \in n + 1 .. Len(s) : s[i] \in V)
  BY <1>1, ElementOfSeq
<1>3. /\ SubSeq(s, 1, n) \in Seq(V) /\ Len(SubSeq(s, 1, n)) = IF 1 <= n THEN n - 1 + 1 ELSE 0
      /\ \A i \in 1 .. n - 1 + 1 : SubSeq(s, 1, n)[i] = s[1 + i - 1]
  BY <1>1, <1>2, SubSeqProperties
<1>4. /\ SubSeq(s, n + 1, Len(s)) \in Seq(V)
      /\ Len(SubSeq(s, n + 1, Len(s))) = IF n + 1 <= Len(s) THEN Len(s) - (n + 1) + 1 ELSE 0
      /\ \A i \in 1 .. Len(s) - (n + 1) + 1 : SubSeq(s, n + 1, Len(s))[i] = s[(n + 1) + i - 1]
  BY <1>1, <1>2, SubSeqProperties
<1>5. /\ (IF 1 <= n THEN n - 1 + 1 ELSE 0) = n /\ n - 1 + 1 = n /\ \A i \in Int : 1 + i - 1 = i
      /\ (IF n + 1 <= Len(s) THEN Len(s) - (n + 1) + 1 ELSE 0) = Len(s) - n
      /\ Len(s) - (n + 1) + 1 = Len(s) - n /\ \A i \in Int : (n + 1) + i - 1 = n + i
  BY <1>1
<1>6. s = SubSeq(s, 1, n) \o SubSeq(s, n + 1, Len(s))
  <2>1. 1 \in 1 .. Len(s) + 1 /\ n \in 1 - 1 .. Len(s) /\ Len(s) \in n .. Len(s)
    BY <1>1
  <2> QED
    BY <2>1, ConcatAdjacentSubSeq, SubSeqFull
<1>7. \A i \in 1 .. n : SubSeq(s, 1, n)[i] = s[i]
  <2>1. ASSUME NEW i \in 1 .. n PROVE SubSeq(s, 1, n)[i] = s[i]
    <3>1. i \in 1 .. n - 1 + 1 /\ 1 + i - 1 = i
      BY <1>1
    <3>2. SubSeq(s, 1, n)[i] = s[1 + i - 1]
      BY <1>3, <3>1
    <3> QED
      BY <3>1, <3>2, Zenon
  <2> QED
    BY <2>1
<1>8. \A i \in 1 .. Len(s) - n : SubSeq(s, n + 1, Len(s))[i] = s[n + i]
  <2>1. ASSUME NEW i \in 1 .. Len(s) - n PROVE SubSeq(s, n + 1, Len(s))[i] = s[n + i]
    <3>1. i \in 1 .. Len(s) - (n + 1) + 1 /\ (n + 1) + i - 1 = n + i
      BY <1>1
    <3>2. SubSeq(s, n + 1, Len(s))[i] = s[(n + 1) + i - 1]
      BY <1>4, <3>1
    <3> QED
      BY <3>1, <3>2, Zenon
  <2> QED
    BY <2>1
<1> QED
  BY <1>3, <1>4, <1>5, <1>6, <1>7, <1>8

LEMMA ConcatParts ==
  ASSUME NEW V, NEW s \in Seq(V), NEW t \in Seq(V)
  PROVE  /\ s \o t \in Seq(V) /\ Len(s \o t) = Len(s) + Len(t) /\ Len(s) \in Nat /\ Len(t) \in Nat
         /\ \A i \in 1 .. Len(s) : (s \o t)[i] = s[i]
         /\ \A i \in 1 .. Len(t) : (s \o t)[Len(s) + i] = t[i]
<1>1. Len(s) \in Nat /\ Len(t) \in Nat
  OBVIOUS
<1>2. \A i \in 1 .. Len(s) + Len(t) : (s \o t)[i] = IF i <= Len(s) THEN s[i] ELSE t[i - Len(s)]
  BY ConcatProperties
<1>3. ASSUME NEW i \in 1 .. Len(t) PROVE (s \o t)[Len(s) + i] = t[i]
  <2>1. Len(s) + i \in 1 .. Len(s) + Len(t) /\ ~(Len(s) + i <= Len(s)) /\ (Len(s) + i) - Len(s) = i
    BY <1>1
  <2> QED
    BY <1>2, <2>1
<1>4. ASSUME NEW i \in 1 .. Len(s) PROVE (s \o t)[i] = s[i]
  <2>1. i \in 1 .. Len(s) + Len(t) /\ i <= Len(s)
    BY <1>1
  <2> QED
    BY <1>2, <2>1
<1> QED
  BY <1>1, <1>3, <1>4, ConcatProperties

-----------------------------------------------------------------------------
(* Branches and switches.                                                       *)

Operand == Keys \cup {Null, Obj}

LEMMA ControlTypes ==
  ASSUME C!IInv
  PROVE  /\ pc \in Int /\ jpc \in Nat
         /\ stack \in Seq(Operand) /\ jstack \in Seq(Operand)
         /\ Len(stack) \in Nat /\ Len(jstack) \in Nat /\ Len(jstack) <= Len(stack)
         /\ Keys \subseteq Int /\ IntMax \in Keys
         /\ \A i \in 0 .. Len(jstack) - 1 : C!Top(jstack, i) = C!Top(stack, i)
         /\ C!Running => pc = jpc
BY InstructionsAssumption DEF C!IInv, C!TypeOK, C!KeysStayBelow, C!SameProgramCounter, C!Running,
  Operand, C!ControlAssumption

LEMMA PushBoth ==
  ASSUME C!IInv, NEW v \in Operand, C!Pushes(v)
  PROVE  stack' \in Seq(Operand) /\ jstack' \in Seq(Operand) /\ C!KeysStayBelow'
<1>1. /\ stack \in Seq(Operand) /\ jstack \in Seq(Operand)
      /\ stack' = Append(stack, v) /\ jstack' = Append(jstack, v)
      /\ Len(stack) \in Nat /\ Len(jstack) \in Nat /\ Len(jstack) <= Len(stack)
      /\ \A i \in 0 .. Len(jstack) - 1 : jstack[Len(jstack) - i] = stack[Len(stack) - i]
  BY ControlTypes DEF C!Pushes, C!Top
<1>2. /\ Len(stack') = Len(stack) + 1 /\ Len(jstack') = Len(jstack) + 1
      /\ stack' \in Seq(Operand) /\ jstack' \in Seq(Operand)
  BY <1>1
<1>3. ASSUME NEW i \in 0 .. Len(jstack') - 1
      PROVE  jstack'[Len(jstack') - i] = stack'[Len(stack') - i]
  <2>1. CASE i = 0
    BY <2>1, <1>1, <1>2
  <2>2. CASE i > 0
    <3>1. /\ i - 1 \in 0 .. Len(jstack) - 1
          /\ Len(jstack') - i = Len(jstack) - (i - 1) /\ Len(stack') - i = Len(stack) - (i - 1)
      BY <2>2, <1>1, <1>2
    <3>2. /\ jstack'[Len(jstack) - (i - 1)] = jstack[Len(jstack) - (i - 1)]
          /\ stack'[Len(stack) - (i - 1)] = stack[Len(stack) - (i - 1)]
      BY <3>1, <1>1, AppendProperties
    <3> QED
      BY <3>1, <3>2, <1>1
  <2> QED
    BY <2>1, <2>2, <1>1, <1>2
<1>4. Len(jstack') <= Len(stack')
  BY <1>1, <1>2
<1> QED
  BY <1>2, <1>3, <1>4 DEF C!KeysStayBelow, C!Top

LEMMA PopBoth ==
  ASSUME C!IInv, NEW n \in Nat, n <= Len(jstack), C!Pops(n)
  PROVE  stack' \in Seq(Operand) /\ jstack' \in Seq(Operand) /\ C!KeysStayBelow'
<1>1. /\ stack \in Seq(Operand) /\ jstack \in Seq(Operand)
      /\ stack' = SubSeq(stack, 1, Len(stack) - n) /\ jstack' = SubSeq(jstack, 1, Len(jstack) - n)
      /\ Len(stack) \in Nat /\ Len(jstack) \in Nat /\ Len(jstack) <= Len(stack)
      /\ \A i \in 0 .. Len(jstack) - 1 : jstack[Len(jstack) - i] = stack[Len(stack) - i]
  BY ControlTypes DEF C!Pops, C!Top
<1>2. /\ Len(stack') = Len(stack) - n /\ Len(jstack') = Len(jstack) - n
      /\ stack' \in Seq(Operand) /\ jstack' \in Seq(Operand)
      /\ \A k \in 1 .. Len(stack) - n : stack'[k] = stack[k]
      /\ \A k \in 1 .. Len(jstack) - n : jstack'[k] = jstack[k]
  <2>1. n <= Len(stack) /\ n <= Len(jstack) /\ stack \in Seq(Operand) /\ jstack \in Seq(Operand)
    BY <1>1
  <2> QED
    BY <2>1, <1>1, Prefix
<1>3. ASSUME NEW i \in 0 .. Len(jstack') - 1
      PROVE  jstack'[Len(jstack') - i] = stack'[Len(stack') - i]
  <2>0. /\ Len(jstack) \in Nat /\ Len(stack) \in Nat /\ Len(jstack) <= Len(stack)
        /\ Len(stack') = Len(stack) - n /\ Len(jstack') = Len(jstack) - n
    BY <1>1, <1>2
  <2>1. i + n \in 0 .. Len(jstack) - 1
    BY <2>0
  <2>2. /\ Len(jstack') - i = Len(jstack) - (i + n) /\ Len(stack') - i = Len(stack) - (i + n)
        /\ Len(jstack') - i \in 1 .. Len(jstack) - n /\ Len(stack') - i \in 1 .. Len(stack) - n
    BY <2>0
  <2>3. jstack[Len(jstack) - (i + n)] = stack[Len(stack) - (i + n)]
    BY <2>1, <1>1
  <2>4. /\ jstack'[Len(jstack') - i] = jstack[Len(jstack) - (i + n)]
        /\ stack'[Len(stack') - i] = stack[Len(stack) - (i + n)]
    BY <2>2, <1>2
  <2> QED
    BY <2>3, <2>4
<1>4. Len(jstack') <= Len(stack')
  BY <1>1, <1>2
<1> QED
  BY <1>2, <1>3, <1>4 DEF C!KeysStayBelow, C!Top

\* The entries on top are the same.
LEMMA TopsAgree ==
  ASSUME C!IInv, NEW n \in Nat, NEW V, C!Holds(n, V), NEW i \in 0 .. n - 1
  PROVE  C!Top(stack, i) = C!Top(jstack, i) /\ C!Top(jstack, i) \in V /\ n <= Len(jstack)
<1>1. /\ Len(jstack) >= n /\ Len(jstack) \in Nat
      /\ \A k \in Len(jstack) - n + 1 .. Len(jstack) : jstack[k] \in V
      /\ \A k \in 0 .. Len(jstack) - 1 : C!Top(jstack, k) = C!Top(stack, k)
  BY ControlTypes DEF C!Holds
<1>2. i \in 0 .. Len(jstack) - 1 /\ Len(jstack) - i \in Len(jstack) - n + 1 .. Len(jstack)
  BY <1>1
<1> QED
  BY <1>1, <1>2 DEF C!Top

LEMMA InstructionLengths ==
  /\ \A op \in {"nop", "iconst", "aconst", "bipush", "sipush", "if", "multianewarray", "invokeinterface"} :
       C!JavaLength(op) = C!Occupied(op) /\ C!Occupied(op) \in Nat
  /\ \A op \in {"if", "goto", "tableswitch", "lookupswitch"} : C!Occupied(op) \in Int
BY DEF C!JavaLength, C!Occupied, C!Operands

\* A branch is taken exactly if Java takes it.
LEMMA BranchAgrees ==
  ASSUME C!IInv, C!Running, UNCHANGED flowDev,
         NEW op \in {"if", "goto"}, NEW test, op = "goto" => test, C!Branch(op, test, test)
  PROVE  pc' \in Int /\ jpc' \in Nat /\ C!SameProgramCounter' /\ UNCHANGED flowOut
<1>1. pc = jpc /\ jpc \in Nat
  BY ControlTypes
<1>2. PICK target \in 0 .. CodeLength - 1 :
        /\ pc' = (IF test THEN pc + (target - jpc) - C!Occupied(op) ELSE pc) + C!Occupied(op)
        /\ UNCHANGED flowOut
        /\ jpc' = IF test THEN target ELSE jpc + C!JavaLength(op)
  BY DEF C!Branch, C!Advance, C!Offsets
<1>3. CodeLength \in Nat
  BY InstructionsAssumption DEF C!ControlAssumption
<1>4. CASE test
  BY <1>1, <1>2, <1>3, <1>4, InstructionLengths DEF C!SameProgramCounter
<1>5. CASE ~test
  BY <1>1, <1>2, <1>5, InstructionLengths DEF C!SameProgramCounter
<1> QED
  BY <1>4, <1>5

LEMMA PaddingAgrees == \A p \in Nat : C!Padded(p) = C!JavaPadded(p) /\ C!JavaPadded(p) \in Nat
BY DEF C!Padded, C!JavaPadded

\* What lies at the word m of the table.
LEMMA WordOfTable ==
  ASSUME jpc \in Nat, NEW V, NEW table \in Seq(V), NEW m \in 0 .. Len(table) - 1
  PROVE  C!Word(table, C!JavaPadded(jpc) + 4 * m) = table[m + 1]
<1>0. C!JavaPadded(jpc) \in Nat
  BY PaddingAgrees
<1>1. C!JavaPadded(jpc) \in Nat /\ m \in Nat
  BY <1>0
<1>2. (C!JavaPadded(jpc) + 4 * m) - C!JavaPadded(jpc) = 4 * m
  BY <1>1
<1>3. (4 * m) % 4 = 0 /\ (4 * m) \div 4 = m
  BY <1>1
<1> QED
  BY <1>2, <1>3 DEF C!Word

LEMMA TableswitchKeeps ==
  ASSUME C!IInv, C!Tableswitch
  PROVE  C!IInv'
<1>1. /\ C!Running /\ Len(jstack) = 1 /\ C!Holds(1, Keys)
      /\ jstack' = <<>> /\ UNCHANGED <<stack, flowDev>>
  BY DEF C!Tableswitch, C!Switches
<1>2. /\ pc = jpc /\ jpc \in Nat /\ Keys \subseteq Int /\ CodeLength \in Nat
      /\ C!Top(stack, 0) = C!Top(jstack, 0) /\ C!Top(jstack, 0) \in Keys
      /\ C!Padded(pc) = C!JavaPadded(jpc) /\ C!JavaPadded(jpc) \in Nat
  BY <1>1, ControlTypes, TopsAgree, PaddingAgrees, InstructionsAssumption DEF C!ControlAssumption
<1>3. PICK low \in Keys, high \in Keys :
        /\ low <= high
        /\ \E default \in C!Offsets, jumps \in [1 .. high - low + 1 -> C!Offsets] :
           LET table == <<default - jpc, low, high>> \o [i \in 1 .. high - low + 1 |-> jumps[i] - jpc]
               ptr == C!Padded(pc)
               lowbyte == C!Word(table, ptr + 4)
               num == C!Word(table, ptr + 8) - lowbyte + 1
               jump_tbl == [i \in 1 .. num |-> C!Word(table, ptr + 8 + 4 * i) + pc]
                           \o <<C!Word(table, ptr) + pc>>
               key == C!Top(stack, 0)
               jump == IF key > Len(jump_tbl) - 1 + lowbyte \/ key < lowbyte
                       THEN jump_tbl[Len(jump_tbl)] ELSE jump_tbl[key - lowbyte + 1]
               jkey == C!Top(jstack, 0)
           IN /\ C!Advance(jump - C!Occupied("tableswitch"), "tableswitch")
              /\ jpc' = IF jkey \in low .. high THEN jumps[jkey - low + 1] ELSE default
  BY DEF C!Tableswitch
<1>3a. PICK default \in C!Offsets, jumps \in [1 .. high - low + 1 -> C!Offsets] :
        LET table == <<default - jpc, low, high>> \o [i \in 1 .. high - low + 1 |-> jumps[i] - jpc]
            ptr == C!Padded(pc)
            lowbyte == C!Word(table, ptr + 4)
            num == C!Word(table, ptr + 8) - lowbyte + 1
            jump_tbl == [i \in 1 .. num |-> C!Word(table, ptr + 8 + 4 * i) + pc]
                        \o <<C!Word(table, ptr) + pc>>
            key == C!Top(stack, 0)
            jump == IF key > Len(jump_tbl) - 1 + lowbyte \/ key < lowbyte
                    THEN jump_tbl[Len(jump_tbl)] ELSE jump_tbl[key - lowbyte + 1]
            jkey == C!Top(jstack, 0)
        IN /\ C!Advance(jump - C!Occupied("tableswitch"), "tableswitch")
           /\ jpc' = IF jkey \in low .. high THEN jumps[jkey - low + 1] ELSE default
  BY <1>3
<1> DEFINE n == high - low + 1
           entries == [i \in 1 .. n |-> jumps[i] - jpc]
           table == <<default - jpc, low, high>> \o entries
           base == C!JavaPadded(jpc)
<1>4. low \in Int /\ high \in Int /\ low <= high /\ n \in Nat /\ default \in Nat /\ default \in C!Offsets
      /\ \A i \in 1 .. n : jumps[i] \in Nat
  <2>1. low \in Int /\ high \in Int /\ low <= high
    BY <1>2, <1>3
  <2>2. n \in Nat
    BY <2>1
  <2>3. C!Offsets \subseteq Nat
    BY <1>2 DEF C!Offsets
  <2>4. default \in C!Offsets /\ jumps \in [1 .. n -> C!Offsets]
    BY <1>3a
  <2> QED
    BY <2>1, <2>2, <2>3, <2>4
<1>5. /\ table \in Seq(Int) /\ Len(table) = n + 3
      /\ table[1] = default - jpc /\ table[2] = low /\ table[3] = high
      /\ \A i \in 1 .. n : table[3 + i] = jumps[i] - jpc
  <2>1. <<default - jpc, low, high>> \in Seq(Int) /\ entries \in Seq(Int)
        /\ Len(<<default - jpc, low, high>>) = 3 /\ Len(entries) = n
    BY <1>2, <1>4
  <2> DEFINE front == <<default - jpc, low, high>>
  <2>2. front[1] = default - jpc /\ front[2] = low /\ front[3] = high
    OBVIOUS
  <2>3. front \in Seq(Int) /\ Len(front) = 3 /\ entries \in Seq(Int) /\ Len(entries) = n
    BY <2>1
  <2>4. \A i \in 1 .. n : entries[i] = jumps[i] - jpc
    OBVIOUS
  <2>5. table = front \o entries
    OBVIOUS
  <2>6. n \in Nat 
    BY <1>4
  <2> HIDE DEF front, entries, table, n
  <2>7. /\ front \o entries \in Seq(Int) /\ Len(front \o entries) = Len(front) + Len(entries)
        /\ \A i \in 1 .. Len(front) + Len(entries) :
             (front \o entries)[i] = IF i <= Len(front) THEN front[i] ELSE entries[i - Len(front)]
    BY <2>3, ConcatProperties
  <2>8. /\ table \in Seq(Int) /\ Len(table) = 3 + n
        /\ \A i \in 1 .. 3 + n : table[i] = IF i <= 3 THEN front[i] ELSE entries[i - 3]
    BY <2>3, <2>5, <2>7
  <2>9. ASSUME NEW i \in 1 .. n PROVE table[3 + i] = entries[i]
    <3>1. 3 + i \in 1 .. 3 + n /\ ~(3 + i <= 3) /\ (3 + i) - 3 = i
      BY <2>6
    <3> QED
      BY <2>8, <3>1
  <2>10. table[1] = front[1] /\ table[2] = front[2] /\ table[3] = front[3]
    <3>1. 1 \in 1 .. 3 + n /\ 2 \in 1 .. 3 + n /\ 3 \in 1 .. 3 + n
      BY <2>6
    <3>2. table[1] = IF 1 <= 3 THEN front[1] ELSE entries[1 - 3]
      BY <2>8, <3>1
    <3>3. table[2] = IF 2 <= 3 THEN front[2] ELSE entries[2 - 3]
      BY <2>8, <3>1
    <3>4. table[3] = IF 3 <= 3 THEN front[3] ELSE entries[3 - 3]
      BY <2>8, <3>1
    <3> QED
      BY <3>2, <3>3, <3>4
  <2> QED
    BY <2>2, <2>4, <2>6, <2>8, <2>9, <2>10
<1> HIDE DEF table, n
<1>6. /\ C!Word(table, base) = default - jpc /\ C!Word(table, base + 4) = low
      /\ C!Word(table, base + 8) = high
      /\ \A i \in 1 .. n : C!Word(table, base + 8 + 4 * i) = jumps[i] - jpc
  <2>1. ASSUME NEW m \in 0 .. n + 2 PROVE C!Word(table, base + 4 * m) = table[m + 1]
    <3>1. m \in 0 .. Len(table) - 1 /\ table \in Seq(Int) /\ jpc \in Nat
      BY <1>2, <1>4, <1>5
    <3> QED
      BY <3>1, WordOfTable
  <2>2. 0 \in 0 .. n + 2 /\ 1 \in 0 .. n + 2 /\ 2 \in 0 .. n + 2
        /\ \A i \in 1 .. n : 2 + i \in 0 .. n + 2 /\ base + 8 + 4 * i = base + 4 * (2 + i)
        /\ base + 4 * 0 = base /\ base + 4 * 1 = base + 4 /\ base + 4 * 2 = base + 8
    BY <1>4, <1>2
  <2>3. /\ C!Word(table, base + 4 * 0) = table[0 + 1]
        /\ C!Word(table, base + 4 * 1) = table[1 + 1]
        /\ C!Word(table, base + 4 * 2) = table[2 + 1]
    BY <2>1, <2>2
  <2>5. /\ C!Word(table, base) = table[1] /\ C!Word(table, base + 4) = table[2]
        /\ C!Word(table, base + 8) = table[3]
    <3>1. base + 4 * 0 = base /\ 0 + 1 = 1
      BY <1>2
    <3>2. base + 4 * 1 = base + 4 /\ 1 + 1 = 2
      BY <1>2
    <3>3. base + 4 * 2 = base + 8 /\ 2 + 1 = 3
      BY <1>2
    <3>4. C!Word(table, base) = table[1]
      BY <2>3, <3>1, Zenon
    <3>5. C!Word(table, base + 4) = table[2]
      BY <2>3, <3>2, Zenon
    <3>6. C!Word(table, base + 8) = table[3]
      BY <2>3, <3>3, Zenon
    <3> QED
      BY <3>4, <3>5, <3>6
  <2>4. ASSUME NEW i \in 1 .. n PROVE C!Word(table, base + 8 + 4 * i) = table[3 + i]
    BY <2>1, <2>2
  <2> QED
    BY <2>5, <2>4, <1>5
<1> DEFINE tbl == [i \in 1 .. n |-> C!Word(table, base + 8 + 4 * i) + pc] \o <<C!Word(table, base) + pc>>
           key == C!Top(jstack, 0)
<1>7. /\ Len(tbl) = n + 1 /\ tbl[n + 1] = default /\ \A i \in 1 .. n : tbl[i] = jumps[i]
  <2> DEFINE js == [i \in 1 .. n |-> jumps[i]]
             ws == [i \in 1 .. n |-> C!Word(table, base + 8 + 4 * i) + pc]
  <2>1. js \in Seq(Int) /\ Len(js) = n /\ \A i \in 1 .. n : js[i] = jumps[i]
    BY <1>4
  <2>2. C!Word(table, base) + pc = default
    <3>1. (default - jpc) + jpc = default
      BY <1>2, <1>4
    <3> QED
      BY <3>1, <1>6, <1>2
  <2>3. ws = js
    <3>1. ASSUME NEW i \in 1 .. n PROVE C!Word(table, base + 8 + 4 * i) + pc = jumps[i]
      <4>1. (jumps[i] - jpc) + jpc = jumps[i]
        BY <1>2, <1>4
      <4> QED
        BY <4>1, <1>6, <1>2
    <3> QED
      BY <3>1
  <2>4. <<default>> \in Seq(Int) /\ Len(<<default>>) = 1 /\ <<default>>[1] = default
    BY <1>4
  <2>5. tbl = js \o <<default>>
    BY <2>2, <2>3
  <2> HIDE DEF tbl, js
  <2>6. /\ Len(js \o <<default>>) = n + 1
        /\ \A i \in 1 .. n + 1 : (js \o <<default>>)[i] = IF i <= n THEN js[i] ELSE <<default>>[i - n]
    BY <2>1, <2>4, ConcatProperties
  <2>7. (n + 1) - n = 1 /\ ~(n + 1 <= n) /\ n + 1 \in 1 .. n + 1 /\ \A i \in 1 .. n : i \in 1 .. n + 1 /\ i <= n
    BY <1>4
  <2> QED
    BY <2>1, <2>4, <2>5, <2>6, <2>7
<1> HIDE DEF tbl
<1>8. LET jump == IF key > Len(tbl) - 1 + low \/ key < low THEN tbl[Len(tbl)] ELSE tbl[key - low + 1]
      IN C!Advance(jump - C!Occupied("tableswitch"), "tableswitch")
  <2>1. (high - low) + 1 = n
    BY DEF n
  <2> QED
    BY <1>2, <1>3a, <1>6, <2>1 DEF tbl, table, n
<1>9. jpc' = (IF key \in low .. high THEN jumps[key - low + 1] ELSE default)
  BY <1>3a
<1>10. key \in Int /\ (IF key > Len(tbl) - 1 + low \/ key < low THEN tbl[Len(tbl)] ELSE tbl[key - low + 1])
         = (IF key \in low .. high THEN jumps[key - low + 1] ELSE default)
  <2>1. low \in Int /\ high \in Int /\ key \in Int /\ n = high - low + 1 /\ n \in Nat
    BY <1>2, <1>4 DEF n
  <2>2. Len(tbl) - 1 + low = high + 1
    BY <2>1, <1>7
  <2>3. CASE key \in low .. high
    <3>1. key - low + 1 \in 1 .. n /\ ~(key > high + 1) /\ ~(key < low)
      BY <2>1, <2>3
    <3> QED
      BY <2>1, <2>2, <2>3, <3>1, <1>7
  <2>4. CASE key \notin low .. high
    <3>1. CASE key = high + 1
      <4>1. key - low + 1 = n + 1 /\ ~(key < low)
        BY <2>1, <3>1, <1>4
      <4> QED
        BY <2>1, <2>2, <2>4, <4>1, <1>7
    <3>2. CASE key # high + 1
      BY <2>1, <2>2, <2>4, <3>2, <1>7
    <3> QED
      BY <3>1, <3>2
  <2> QED
    BY <2>1, <2>3, <2>4
<1>11. jpc' \in Nat
  <2>1. ASSUME key \in low .. high PROVE jumps[key - low + 1] \in Nat
    <3>1. key - low + 1 \in 1 .. n
      BY <2>1, <1>4, <1>10 DEF n
    <3> QED
      BY <3>1, <1>4
  <2> QED
    BY <1>9, <1>4, <2>1
<1>12. pc' = jpc' /\ UNCHANGED flowOut
  <2> DEFINE jump == IF key > Len(tbl) - 1 + low \/ key < low THEN tbl[Len(tbl)] ELSE tbl[key - low + 1]
  <2>1. jump = jpc'
    BY <1>9, <1>10
  <2>2. pc' = jump - C!Occupied("tableswitch") + C!Occupied("tableswitch") /\ UNCHANGED flowOut
    BY <1>8 DEF C!Advance
  <2> HIDE DEF jump
  <2> QED
    BY <2>1, <2>2, <1>11, InstructionLengths
<1> QED
  BY <1>1, <1>11, <1>12 DEF C!IInv, C!TypeOK, C!SameProgramCounter, C!KeysStayBelow

LEMMA LookupswitchKeeps ==
  ASSUME C!IInv, C!Lookupswitch
  PROVE  C!IInv'
<1>1. /\ C!Running /\ Len(jstack) = 1 /\ C!Holds(1, Keys)
      /\ jstack' = <<>> /\ UNCHANGED stack
  BY DEF C!Lookupswitch, C!Switches
<1>2. /\ pc = jpc /\ jpc \in Nat /\ Keys \subseteq Int /\ CodeLength \in Nat
      /\ C!Top(stack, 0) = C!Top(jstack, 0) /\ C!Top(jstack, 0) \in Keys
      /\ C!Padded(pc) = C!JavaPadded(jpc) /\ C!JavaPadded(jpc) \in Nat
  BY <1>1, ControlTypes, TopsAgree, PaddingAgrees, InstructionsAssumption DEF C!ControlAssumption
<1>3. PICK n \in 0 .. C!Cardinality(Keys) :
        \E cases \in C!Ascending(n), default \in C!Offsets : \E jumps \in [1 .. n -> C!Offsets] :
          LET table == <<default - jpc, n>>
                       \o [i \in 1 .. 2 * n |->
                             IF i % 2 = 1 THEN cases[(i + 1) \div 2] ELSE jumps[i \div 2] - jpc]
              ptr == C!Padded(pc)
              npairs == C!Word(table, ptr + 4)
              match(m) == C!Word(table, ptr + 8 * m)
              jump_pos(m) == C!Word(table, ptr + 8 * m + 4) + pc
              found(k) == {m \in 1 .. npairs : match(m) = k}
              elsewhere == IF found(IntMax) # {} THEN jump_pos(CHOOSE m \in found(IntMax) : TRUE)
                           ELSE C!Word(table, ptr) + pc
              key == C!Top(stack, 0)
              jump == IF found(key) # {} THEN jump_pos(CHOOSE m \in found(key) : TRUE)
                      ELSE elsewhere
              jkey == C!Top(jstack, 0)
              case(k) == {m \in 1 .. n : cases[m] = k}
          IN /\ C!Advance(jump - C!Occupied("lookupswitch"), "lookupswitch")
             /\ jpc' = IF case(jkey) # {} THEN jumps[CHOOSE m \in case(jkey) : TRUE] ELSE default
             /\ flowDev' = IF case(IntMax) # {} /\ case(jkey) = {} THEN {"lookupswitch"} ELSE {}
  BY DEF C!Lookupswitch
<1>4. PICK cases \in C!Ascending(n), default \in C!Offsets : \E jumps \in [1 .. n -> C!Offsets] :
          LET table == <<default - jpc, n>>
                       \o [i \in 1 .. 2 * n |->
                             IF i % 2 = 1 THEN cases[(i + 1) \div 2] ELSE jumps[i \div 2] - jpc]
              ptr == C!Padded(pc)
              npairs == C!Word(table, ptr + 4)
              match(m) == C!Word(table, ptr + 8 * m)
              jump_pos(m) == C!Word(table, ptr + 8 * m + 4) + pc
              found(k) == {m \in 1 .. npairs : match(m) = k}
              elsewhere == IF found(IntMax) # {} THEN jump_pos(CHOOSE m \in found(IntMax) : TRUE)
                           ELSE C!Word(table, ptr) + pc
              key == C!Top(stack, 0)
              jump == IF found(key) # {} THEN jump_pos(CHOOSE m \in found(key) : TRUE)
                      ELSE elsewhere
              jkey == C!Top(jstack, 0)
              case(k) == {m \in 1 .. n : cases[m] = k}
          IN /\ C!Advance(jump - C!Occupied("lookupswitch"), "lookupswitch")
             /\ jpc' = IF case(jkey) # {} THEN jumps[CHOOSE m \in case(jkey) : TRUE] ELSE default
             /\ flowDev' = IF case(IntMax) # {} /\ case(jkey) = {} THEN {"lookupswitch"} ELSE {}
  BY <1>3
<1> DEFINE base == C!JavaPadded(jpc)
           key == C!Top(jstack, 0)
           Table(jumps) == <<default - jpc, n>>
                       \o [i \in 1 .. 2 * n |->
                             IF i % 2 = 1 THEN cases[(i + 1) \div 2] ELSE jumps[i \div 2] - jpc]
           case(k) == {m \in 1 .. n : cases[m] = k}
<1>5. PICK jumps \in [1 .. n -> C!Offsets] :
          LET table == Table(jumps)
              npairs == C!Word(table, base + 4)
              match(m) == C!Word(table, base + 8 * m)
              jump_pos(m) == C!Word(table, base + 8 * m + 4) + jpc
              found(k) == {m \in 1 .. npairs : match(m) = k}
              elsewhere == IF found(IntMax) # {} THEN jump_pos(CHOOSE m \in found(IntMax) : TRUE)
                           ELSE C!Word(table, base) + jpc
              jump == IF found(key) # {} THEN jump_pos(CHOOSE m \in found(key) : TRUE)
                      ELSE elsewhere
          IN /\ C!Advance(jump - C!Occupied("lookupswitch"), "lookupswitch")
             /\ jpc' = IF case(key) # {} THEN jumps[CHOOSE m \in case(key) : TRUE] ELSE default
             /\ flowDev' = IF case(IntMax) # {} /\ case(key) = {} THEN {"lookupswitch"} ELSE {}
  <2>1. pc = jpc /\ C!Padded(pc) = base /\ C!Top(stack, 0) = key
    BY <1>2
  <2> QED
    BY <1>4, <2>1, ZenonT(30)
<1> DEFINE table == Table(jumps)
<1>6. /\ n \in Nat /\ default \in Nat /\ \A m \in 1 .. n : cases[m] \in Int /\ jumps[m] \in Nat
  <2>1. C!Offsets \subseteq Nat
    BY <1>2 DEF C!Offsets
  <2>2. n \in Nat
    BY <1>3
  <2>3. cases \in [1 .. n -> Keys]
    BY <1>4 DEF C!Ascending
  <2> QED
    BY <2>1, <2>2, <2>3, <1>2, <1>4, <1>5
<1>7. /\ table \in Seq(Int) /\ Len(table) = 2 + 2 * n
      /\ table[1] = default - jpc /\ table[2] = n
      /\ \A m \in 1 .. n : table[2 * m + 1] = cases[m] /\ table[2 * m + 2] = jumps[m] - jpc
  <2> DEFINE pairs == [i \in 1 .. 2 * n |->
                             IF i % 2 = 1 THEN cases[(i + 1) \div 2] ELSE jumps[i \div 2] - jpc]
             front == <<default - jpc, n>>
  <2>1. ASSUME NEW m \in 1 .. n
        PROVE  /\ 2 * m - 1 \in 1 .. 2 * n /\ 2 * m \in 1 .. 2 * n
               /\ (2 * m - 1) % 2 = 1 /\ (2 * m) % 2 = 0 /\ ((2 * m - 1) + 1) \div 2 = m /\ (2 * m) \div 2 = m
    BY <1>6
  <2>2. ASSUME NEW i \in 1 .. 2 * n
        PROVE  pairs[i] \in Int
    <3>1. CASE i % 2 = 1
      <4>1. (i + 1) \div 2 \in 1 .. n
        BY <3>1, <1>6
      <4> QED
        BY <4>1, <3>1, <1>6
    <3>2. CASE i % 2 # 1
      <4>1. i \div 2 \in 1 .. n
        BY <3>2, <1>6
      <4>2. jumps[i \div 2] - jpc \in Int
        BY <4>1, <1>6, <1>2
      <4> QED
        BY <4>2, <3>2
    <3> QED
      BY <3>1, <3>2
  <2>3. pairs \in Seq(Int) /\ Len(pairs) = 2 * n
    BY <2>2, <1>6
  <2>4. front \in Seq(Int) /\ Len(front) = 2 /\ front[1] = default - jpc /\ front[2] = n
    BY <1>2, <1>6
  <2>5. \A m \in 1 .. n : pairs[2 * m - 1] = cases[m] /\ pairs[2 * m] = jumps[m] - jpc
    BY <2>1
  <2>6. table = front \o pairs
    OBVIOUS
  <2> HIDE DEF pairs, front, table
  <2>7. /\ table \in Seq(Int) /\ Len(table) = 2 + 2 * n
        /\ \A i \in 1 .. 2 + 2 * n : table[i] = IF i <= 2 THEN front[i] ELSE pairs[i - 2]
    <3>1. /\ front \o pairs \in Seq(Int) /\ Len(front \o pairs) = Len(front) + Len(pairs)
          /\ \A i \in 1 .. Len(front) + Len(pairs) :
               (front \o pairs)[i] = IF i <= Len(front) THEN front[i] ELSE pairs[i - Len(front)]
      BY <2>3, <2>4, ConcatProperties
    <3> QED
      BY <3>1, <2>3, <2>4, <2>6
  <2>8. \A m \in 1 .. n : table[2 * m + 1] = pairs[2 * m - 1] /\ table[2 * m + 2] = pairs[2 * m]
    <3>1. ASSUME NEW m \in 1 .. n
          PROVE  /\ 2 * m + 1 \in 1 .. 2 + 2 * n /\ ~(2 * m + 1 <= 2) /\ (2 * m + 1) - 2 = 2 * m - 1
                 /\ 2 * m + 2 \in 1 .. 2 + 2 * n /\ ~(2 * m + 2 <= 2) /\ (2 * m + 2) - 2 = 2 * m
      BY <1>6
    <3> QED
      BY <3>1, <2>7
  <2>9. 1 \in 1 .. 2 + 2 * n /\ 2 \in 1 .. 2 + 2 * n
    BY <1>6
  <2>10. table[1] = front[1] /\ table[2] = front[2]
    <3>1. table[1] = IF 1 <= 2 THEN front[1] ELSE pairs[1 - 2]
      BY <2>7, <2>9
    <3>2. table[2] = IF 2 <= 2 THEN front[2] ELSE pairs[2 - 2]
      BY <2>7, <2>9
    <3> QED
      BY <3>1, <3>2
  <2>11. table \in Seq(Int) /\ Len(table) = 2 + 2 * n
    BY <2>7
  <2> QED
    BY <2>4, <2>5, <2>8, <2>10, <2>11, Zenon
<1> HIDE DEF table
<1>8. /\ C!Word(table, base) = default - jpc /\ C!Word(table, base + 4) = n
      /\ \A m \in 1 .. n : C!Word(table, base + 8 * m) = cases[m] /\ C!Word(table, base + 8 * m + 4) = jumps[m] - jpc
  <2>1. ASSUME NEW m \in 0 .. 2 * n + 1 PROVE C!Word(table, base + 4 * m) = table[m + 1]
    <3>1. m \in 0 .. Len(table) - 1 /\ table \in Seq(Int) /\ jpc \in Nat
      BY <1>2, <1>6, <1>7
    <3> QED
      BY <3>1, WordOfTable
  <2>2. C!Word(table, base) = table[1]
    <3>1. base + 4 * 0 = base /\ 0 + 1 = 1 /\ 0 \in 0 .. 2 * n + 1
      BY <1>2, <1>6
    <3>2. C!Word(table, base + 4 * 0) = table[0 + 1]
      BY <2>1, <3>1
    <3> QED
      BY <3>1, <3>2, Zenon
  <2>3. C!Word(table, base + 4) = table[2]
    <3>1. base + 4 * 1 = base + 4 /\ 1 + 1 = 2 /\ 1 \in 0 .. 2 * n + 1
      BY <1>2, <1>6
    <3>2. C!Word(table, base + 4 * 1) = table[1 + 1]
      BY <2>1, <3>1
    <3> QED
      BY <3>1, <3>2, Zenon
  <2>4. ASSUME NEW m \in 1 .. n
        PROVE  C!Word(table, base + 8 * m) = cases[m] /\ C!Word(table, base + 8 * m + 4) = jumps[m] - jpc
    <3>1. base + 4 * (2 * m) = base + 8 * m /\ 2 * m \in 0 .. 2 * n + 1
      BY <1>2, <1>6
    <3>2. base + 4 * (2 * m + 1) = base + 8 * m + 4 /\ 2 * m + 1 + 1 = 2 * m + 2 /\ 2 * m + 1 \in 0 .. 2 * n + 1
      BY <1>2, <1>6
    <3>3. C!Word(table, base + 4 * (2 * m)) = table[2 * m + 1]
      BY <2>1, <3>1
    <3>4. C!Word(table, base + 4 * (2 * m + 1)) = table[2 * m + 1 + 1]
      BY <2>1, <3>2
    <3>5. C!Word(table, base + 8 * m) = table[2 * m + 1] /\ C!Word(table, base + 8 * m + 4) = table[2 * m + 2]
      BY <3>1, <3>2, <3>3, <3>4, Zenon
    <3> QED
      BY <3>5, <1>7
  <2> QED
    BY <2>2, <2>3, <2>4, <1>7
<1> DEFINE jump_pos(m) == C!Word(table, base + 8 * m + 4) + jpc
           found(k) == {m \in 1 .. n : C!Word(table, base + 8 * m) = k}
           elsewhere == IF found(IntMax) # {} THEN jump_pos(CHOOSE m \in found(IntMax) : TRUE)
                        ELSE C!Word(table, base) + jpc
           jump == IF found(key) # {} THEN jump_pos(CHOOSE m \in found(key) : TRUE) ELSE elsewhere
<1>9. /\ C!Advance(jump - C!Occupied("lookupswitch"), "lookupswitch")
      /\ jpc' = IF case(key) # {} THEN jumps[CHOOSE m \in case(key) : TRUE] ELSE default
      /\ flowDev' = IF case(IntMax) # {} /\ case(key) = {} THEN {"lookupswitch"} ELSE {}
  BY <1>5, <1>8 DEF table
<1>10. /\ \A k : found(k) = case(k)
       /\ \A m \in 1 .. n : jump_pos(m) = jumps[m]
       /\ C!Word(table, base) + jpc = default
  <2>1. ASSUME NEW k PROVE found(k) = case(k)
    BY <1>8
  <2>2. ASSUME NEW m \in 1 .. n PROVE jump_pos(m) = jumps[m]
    <3>1. (jumps[m] - jpc) + jpc = jumps[m]
      BY <1>2, <1>6
    <3> QED
      BY <3>1, <1>8
  <2>3. (default - jpc) + jpc = default
    BY <1>2, <1>6
  <2> QED
    BY <2>1, <2>2, <2>3, <1>8
<1>11. \A k : case(k) # {} => (CHOOSE m \in case(k) : TRUE) \in 1 .. n
  OBVIOUS
<1> HIDE DEF found, jump_pos, case
<1>12. jump = IF case(key) # {} THEN jumps[CHOOSE m \in case(key) : TRUE]
              ELSE IF case(IntMax) # {} THEN jumps[CHOOSE m \in case(IntMax) : TRUE] ELSE default
  BY <1>10, <1>11
<1>13. jump \in Nat /\ jpc' \in Nat
  BY <1>6, <1>9, <1>11, <1>12
<1>14. pc' = jump /\ UNCHANGED flowOut
  <2>1. pc' = jump - C!Occupied("lookupswitch") + C!Occupied("lookupswitch") /\ UNCHANGED flowOut
    BY <1>9 DEF C!Advance
  <2> HIDE DEF jump
  <2> QED
    BY <2>1, <1>13, InstructionLengths
<1>15. flowDev' = {} => pc' = jpc'
  BY <1>9, <1>12, <1>14
<1>16. flowDev' \subseteq {"lookupswitch"}
  BY <1>9
<1> QED
  BY <1>1, <1>13, <1>14, <1>15, <1>16 DEF C!IInv, C!TypeOK, C!SameProgramCounter, C!KeysStayBelow

LEMMA ControlStart == ASSUME C!Init PROVE C!IInv
BY DEF C!Init, C!IInv, C!TypeOK, C!SameProgramCounter, C!KeysStayBelow

LEMMA ControlStep == ASSUME C!IInv, [C!Next]_cVars PROVE C!IInv'
<1>c. Keys \subseteq Operand /\ {Null, Obj} \subseteq Operand
  BY DEF Operand
<1>t. /\ pc \in Int /\ jpc \in Nat /\ flowDev \subseteq {"lookupswitch"}
      /\ flowOut \in {"running", "returned", "abort"} /\ C!KeysStayBelow /\ C!SameProgramCounter
      /\ stack \in Seq(Operand) /\ jstack \in Seq(Operand)
  BY DEF C!IInv, C!TypeOK, Operand
<1>p. ASSUME NEW v \in Operand, C!Pushes(v), NEW op \in {"iconst", "aconst", "bipush", "sipush"},
             C!Running, C!Advance(pc, op), jpc' = jpc + C!JavaLength(op), UNCHANGED flowDev
      PROVE  C!IInv'
  <2>1. pc' = pc + C!Occupied(op) /\ UNCHANGED flowOut /\ C!JavaLength(op) = C!Occupied(op) /\ C!Occupied(op) \in Nat
    BY <1>p, InstructionLengths DEF C!Advance
  <2>2. pc' \in Int /\ jpc' \in Nat /\ C!SameProgramCounter'
    BY <2>1, <1>p, <1>t DEF C!SameProgramCounter
  <2> QED
    BY <1>p, <1>t, <2>1, <2>2, PushBoth DEF C!IInv, C!TypeOK, Operand
<1>1. CASE C!PushValue
  <2>1. PICK op \in {"iconst", "bipush", "sipush"}, v \in Keys :
          C!Pushes(v) /\ C!Advance(pc, op) /\ jpc' = jpc + C!JavaLength(op)
    BY <1>1 DEF C!PushValue
  <2> QED
    BY <1>1, <2>1, <1>p, <1>c DEF C!PushValue
<1>2. CASE C!PushReference
  <2>1. PICK r \in {Null, Obj} : C!Pushes(r)
    BY <1>2 DEF C!PushReference
  <2> QED
    BY <1>2, <2>1, <1>p, <1>c DEF C!PushReference
<1>3. CASE C!PlainInstruction
  <2>1. PICK op \in {"nop", "multianewarray", "invokeinterface"} :
          C!Advance(pc, op) /\ jpc' = jpc + C!JavaLength(op)
    BY <1>3 DEF C!PlainInstruction
  <2>2. pc' = pc + C!Occupied(op) /\ UNCHANGED flowOut /\ C!JavaLength(op) = C!Occupied(op) /\ C!Occupied(op) \in Nat
    BY <2>1, InstructionLengths DEF C!Advance
  <2>3. pc' \in Int /\ jpc' \in Nat /\ C!SameProgramCounter'
    BY <2>1, <2>2, <1>3, <1>t DEF C!SameProgramCounter, C!PlainInstruction
  <2> QED
    BY <1>3, <1>t, <2>2, <2>3 DEF C!IInv, C!TypeOK, C!PlainInstruction, C!KeysStayBelow, Operand
<1>4. CASE C!Unsupported \/ C!FallOff
  BY <1>4 DEF C!Unsupported, C!FallOff, C!IInv, C!TypeOK, C!SameProgramCounter, C!KeysStayBelow
<1>b. ASSUME NEW n \in {1, 2}, NEW V, C!Holds(n, V), C!Pops(n), C!Running, UNCHANGED flowDev,
             NEW test, C!Branch("if", test, test)
      PROVE  C!IInv'
  <2>1. pc' \in Int /\ jpc' \in Nat /\ C!SameProgramCounter' /\ UNCHANGED flowOut
    BY <1>b, BranchAgrees
  <2>2. n \in Nat /\ n <= Len(jstack)
    BY <1>b, ControlTypes DEF C!Holds
  <2>3. stack' \in Seq(Operand) /\ jstack' \in Seq(Operand) /\ C!KeysStayBelow'
    BY <2>2, <1>b, PopBoth
  <2> QED
    BY <1>b, <1>t, <2>1, <2>3 DEF C!IInv, C!TypeOK, Operand
<1>5. CASE C!If
  <2>1. PICK c \in C!Conditions :
          C!Branch("if", C!Compare(c, C!Top(stack, 0), 0), C!Compare(c, C!Top(jstack, 0), 0))
    BY <1>5 DEF C!If
  <2>2. C!Holds(1, Keys) /\ C!Pops(1) /\ C!Running /\ UNCHANGED flowDev
    BY <1>5 DEF C!If
  <2>3. C!Top(stack, 0) = C!Top(jstack, 0)
    BY <2>2, TopsAgree
  <2> QED
    BY <2>1, <2>2, <2>3, <1>b
<1>6. CASE C!IfCompare
  <2>1. PICK c \in C!Conditions :
          C!Branch("if", C!Compare(c, C!Top(stack, 1), C!Top(stack, 0)),
                         C!Compare(c, C!Top(jstack, 1), C!Top(jstack, 0)))
    BY <1>6 DEF C!IfCompare
  <2>2. C!Holds(2, Keys) /\ C!Pops(2) /\ C!Running /\ UNCHANGED flowDev
    BY <1>6 DEF C!IfCompare
  <2>3. C!Top(stack, 0) = C!Top(jstack, 0) /\ C!Top(stack, 1) = C!Top(jstack, 1)
    BY <2>2, TopsAgree
  <2> QED
    BY <2>1, <2>2, <2>3, <1>b
<1>7. CASE C!IfReference
  <2>1. PICK c \in {"eq", "ne"} :
          C!Branch("if", C!Compare(c, C!Top(stack, 1), C!Top(stack, 0)),
                         C!Compare(c, C!Top(jstack, 1), C!Top(jstack, 0)))
    BY <1>7 DEF C!IfReference
  <2>2. C!Holds(2, {Null, Obj}) /\ C!Pops(2) /\ C!Running /\ UNCHANGED flowDev
    BY <1>7 DEF C!IfReference
  <2>3. C!Top(stack, 0) = C!Top(jstack, 0) /\ C!Top(stack, 1) = C!Top(jstack, 1)
    BY <2>2, TopsAgree
  <2>4. c \in C!Conditions
    BY DEF C!Conditions
  <2> QED
    BY <2>1, <2>2, <2>3, <2>4, <1>b
<1>8. CASE C!IfNull
  <2>1. PICK c \in {"eq", "ne"} :
          C!Branch("if", C!Compare(c, C!Top(stack, 0), Null), C!Compare(c, C!Top(jstack, 0), Null))
    BY <1>8 DEF C!IfNull
  <2>2. C!Holds(1, {Null, Obj}) /\ C!Pops(1) /\ C!Running /\ UNCHANGED flowDev
    BY <1>8 DEF C!IfNull
  <2>3. C!Top(stack, 0) = C!Top(jstack, 0)
    BY <2>2, TopsAgree
  <2>4. c \in C!Conditions
    BY DEF C!Conditions
  <2> QED
    BY <2>1, <2>2, <2>3, <2>4, <1>b
<1>9. CASE C!Goto
  <2>1. C!Running /\ C!Branch("goto", TRUE, TRUE) /\ UNCHANGED <<stack, jstack, flowDev>>
    BY <1>9 DEF C!Goto
  <2>2. pc' \in Int /\ jpc' \in Nat /\ C!SameProgramCounter' /\ UNCHANGED flowOut
    BY <2>1, BranchAgrees
  <2> QED
    BY <2>1, <2>2, <1>t DEF C!IInv, C!TypeOK, C!KeysStayBelow, Operand
<1>10. CASE UNCHANGED cVars
  BY <1>10 DEF cVars, C!IInv, C!TypeOK, C!SameProgramCounter, C!KeysStayBelow
<1> QED
  BY <1>1, <1>2, <1>3, <1>4, <1>5, <1>6, <1>7, <1>8, <1>9, <1>10, TableswitchKeeps, LookupswitchKeeps
  DEF C!Next

-----------------------------------------------------------------------------
(* The operand stack. Offsets are added up value by value.                      *)

WordSet == S!Boxes \X {"high", "low", "word"}

\* The wide values among the first n.
Wide(s, n) == {j \in 1 .. n : S!IsWide(s[j])}
Words1(b) == IF S!IsWide(b) THEN 2 ELSE 1

LEMMA OffsetIs ==
  ASSUME NEW s, NEW i \in Nat, i > 0
  PROVE  /\ S!Offset(s, i) = i + Cardinality(Wide(s, i - 1))
         /\ IsFiniteSet(Wide(s, i - 1)) /\ Cardinality(Wide(s, i - 1)) \in Nat
<1>1. S!Cardinality(Wide(s, i - 1)) = Cardinality(Wide(s, i - 1))
  BY DEF S!Cardinality, Cardinality
<1>2. i - 1 \in Int /\ Wide(s, i - 1) \in SUBSET (1 .. i - 1)
  BY DEF Wide
<1>3. IsFiniteSet(Wide(s, i - 1))
  BY <1>2, FS_Interval, FS_Subset
<1>4. S!Offset(s, i) = i + S!Cardinality(Wide(s, i - 1))
  BY DEF S!Offset, Wide
<1> QED
  BY <1>1, <1>3, <1>4, FS_CardinalityType

LEMMA OffsetType ==
  ASSUME NEW s, NEW i \in Nat, i > 0
  PROVE  S!Offset(s, i) \in Nat /\ S!Offset(s, i) >= i
BY OffsetIs

LEMMA OffsetStarts == ASSUME NEW s PROVE S!Offset(s, 1) = 1
<1>1. Wide(s, 1 - 1) = {}
  BY DEF Wide
<1> QED
  BY <1>1, OffsetIs, FS_EmptySet

LEMMA OffsetStep ==
  ASSUME NEW s, NEW i \in Nat, i > 0
  PROVE  S!Offset(s, i + 1) = S!Offset(s, i) + Words1(s[i])
<1>1. i + 1 \in Nat /\ i + 1 > 0 /\ (i + 1) - 1 = i
  OBVIOUS
<1>2. /\ S!Offset(s, i) = i + Cardinality(Wide(s, i - 1)) /\ IsFiniteSet(Wide(s, i - 1))
      /\ Cardinality(Wide(s, i - 1)) \in Nat
      /\ S!Offset(s, i + 1) = (i + 1) + Cardinality(Wide(s, i))
  BY <1>1, OffsetIs
<1>3. CASE S!IsWide(s[i])
  <2>1. Wide(s, i) = Wide(s, i - 1) \cup {i} /\ i \notin Wide(s, i - 1)
    BY <1>3 DEF Wide
  <2>2. Cardinality(Wide(s, i)) = Cardinality(Wide(s, i - 1)) + 1
    BY <1>2, <2>1, FS_AddElement
  <2> QED
    BY <1>2, <1>3, <2>2 DEF Words1
<1>4. CASE ~S!IsWide(s[i])
  <2>1. Wide(s, i) = Wide(s, i - 1)
    BY <1>4 DEF Wide
  <2> QED
    BY <1>2, <1>4, <2>1 DEF Words1
<1> QED
  BY <1>3, <1>4

LEMMA OffsetGrows ==
  ASSUME NEW s, NEW i \in Nat, NEW j \in Nat, 0 < i, i <= j
  PROVE  S!Offset(s, i) <= S!Offset(s, j)
<1>1. /\ S!Offset(s, i) = i + Cardinality(Wide(s, i - 1)) /\ Cardinality(Wide(s, i - 1)) \in Nat
      /\ S!Offset(s, j) = j + Cardinality(Wide(s, j - 1)) /\ Cardinality(Wide(s, j - 1)) \in Nat
      /\ IsFiniteSet(Wide(s, j - 1))
  BY OffsetIs
<1>2. Wide(s, i - 1) \in SUBSET Wide(s, j - 1)
  BY DEF Wide
<1>3. Cardinality(Wide(s, i - 1)) <= Cardinality(Wide(s, j - 1))
  BY <1>1, <1>2, FS_Subset
<1> QED
  BY <1>1, <1>3

\* Only the values below matter, and of these their widths.
LEMMA OffsetAgrees ==
  ASSUME NEW s, NEW t, NEW i \in Nat, i > 0, \A j \in 1 .. i - 1 : S!IsWide(s[j]) <=> S!IsWide(t[j])
  PROVE  S!Offset(s, i) = S!Offset(t, i)
<1>1. Wide(s, i - 1) = Wide(t, i - 1)
  BY DEF Wide
<1> QED
  BY <1>1, OffsetIs

LEMMA OffsetOfConcat ==
  ASSUME NEW V, NEW s \in Seq(V), NEW t \in Seq(V), NEW k \in 1 .. Len(t) + 1
  PROVE  /\ \A i \in 1 .. Len(s) + 1 : S!Offset(s \o t, i) = S!Offset(s, i)
         /\ S!Offset(s \o t, Len(s) + k) = (S!Offset(s, Len(s) + 1) - 1) + S!Offset(t, k)
<1> DEFINE n == Len(s)
           u == s \o t
           shifted == {j \in n + 1 .. n + (k - 1) : S!IsWide(u[j])}
<1>1. /\ n \in Nat /\ Len(t) \in Nat /\ k \in Nat /\ k > 0
      /\ \A i \in 1 .. n : u[i] = s[i]
      /\ \A i \in 1 .. Len(t) : u[n + i] = t[i]
  <2>1. n \in Nat /\ Len(t) \in Nat
    OBVIOUS
  <2>2. \A i \in 1 .. Len(s) + Len(t) : u[i] = IF i <= Len(s) THEN s[i] ELSE t[i - Len(s)]
    BY ConcatProperties
  <2>3. ASSUME NEW i \in 1 .. Len(t) PROVE u[n + i] = t[i]
    <3>1. n + i \in 1 .. Len(s) + Len(t) /\ ~(n + i <= Len(s)) /\ (n + i) - Len(s) = i
      BY <2>1
    <3> QED
      BY <2>2, <3>1
  <2>4. ASSUME NEW i \in 1 .. n PROVE u[i] = s[i]
    <3>1. i \in 1 .. Len(s) + Len(t) /\ i <= Len(s)
      BY <2>1
    <3> QED
      BY <2>2, <3>1
  <2>5. k \in Nat /\ k > 0
    BY <2>1
  <2> QED
    BY <2>1, <2>3, <2>4, <2>5
<1> HIDE DEF u
<1>2. \A i \in 1 .. n + 1 : S!Offset(u, i) = S!Offset(s, i)
  <2>1. ASSUME NEW i \in 1 .. n + 1 PROVE S!Offset(u, i) = S!Offset(s, i)
    <3>1. i \in Nat /\ i > 0 /\ \A j \in 1 .. i - 1 : j \in 1 .. n
      BY <1>1
    <3>2. \A j \in 1 .. i - 1 : S!IsWide(u[j]) <=> S!IsWide(s[j])
      BY <3>1, <1>1
    <3> QED
      BY <3>1, <3>2, OffsetAgrees
  <2> QED
    BY <2>1
<1>3. /\ S!Offset(s, n + 1) = (n + 1) + Cardinality(Wide(s, n))
      /\ S!Offset(t, k) = k + Cardinality(Wide(t, k - 1))
      /\ S!Offset(u, n + k) = (n + k) + Cardinality(Wide(u, n + k - 1))
      /\ IsFiniteSet(Wide(s, n)) /\ IsFiniteSet(Wide(t, k - 1))
      /\ Cardinality(Wide(s, n)) \in Nat /\ Cardinality(Wide(t, k - 1)) \in Nat
  <2>1. n + 1 \in Nat /\ n + 1 > 0 /\ (n + 1) - 1 = n /\ n + k \in Nat /\ n + k > 0
    BY <1>1
  <2>2. /\ S!Offset(s, n + 1) = (n + 1) + Cardinality(Wide(s, n))
        /\ IsFiniteSet(Wide(s, n)) /\ Cardinality(Wide(s, n)) \in Nat
    BY <2>1, OffsetIs
  <2>3. /\ S!Offset(t, k) = k + Cardinality(Wide(t, k - 1))
        /\ IsFiniteSet(Wide(t, k - 1)) /\ Cardinality(Wide(t, k - 1)) \in Nat
    BY <1>1, OffsetIs
  <2>4. S!Offset(u, n + k) = (n + k) + Cardinality(Wide(u, n + k - 1))
    BY <2>1, OffsetIs
  <2> QED
    BY <2>2, <2>3, <2>4
<1>4. Wide(u, n + k - 1) = Wide(s, n) \cup shifted /\ Wide(s, n) \cap shifted = {}
  <2>1. ASSUME NEW j PROVE j \in Wide(u, n + k - 1) <=> j \in Wide(s, n) \cup shifted
    <3>1. CASE j \in 1 .. n
      BY <3>1, <1>1 DEF Wide
    <3>2. CASE j \notin 1 .. n
      BY <3>2, <1>1 DEF Wide
    <3> QED
      BY <3>1, <3>2
  <2> QED
    BY <2>1, <1>1 DEF Wide
<1>5. IsFiniteSet(shifted) /\ Cardinality(shifted) = Cardinality(Wide(t, k - 1))
  <2> DEFINE f == [j \in Wide(t, k - 1) |-> n + j]
  <2>1. ASSUME NEW j \in Wide(t, k - 1) PROVE n + j \in shifted /\ j \in Int
    <3>1. j \in 1 .. k - 1 /\ S!IsWide(t[j])
      BY DEF Wide
    <3>2. j \in 1 .. Len(t) /\ n + j \in n + 1 .. n + (k - 1) /\ j \in Int
      BY <3>1, <1>1
    <3> QED
      BY <3>1, <3>2, <1>1
  <2>2. ASSUME NEW j \in shifted PROVE j - n \in Wide(t, k - 1) /\ n + (j - n) = j
    <3>1. j \in n + 1 .. n + (k - 1) /\ S!IsWide(u[j])
      OBVIOUS
    <3>2. j - n \in 1 .. k - 1 /\ j - n \in 1 .. Len(t) /\ n + (j - n) = j
      BY <3>1, <1>1
    <3>3. u[n + (j - n)] = t[j - n]
      BY <3>2, <1>1
    <3> QED
      BY <3>1, <3>2, <3>3 DEF Wide
  <2> HIDE DEF shifted
  <2>3. f \in [Wide(t, k - 1) -> shifted]
    BY <2>1
  <2>4. \A a, b \in Wide(t, k - 1) : f[a] = f[b] => a = b
    BY <2>1, <1>1
  <2>5. \A j \in shifted : \E a \in Wide(t, k - 1) : f[a] = j
    BY <2>2
  <2>6. f \in Bijection(Wide(t, k - 1), shifted)
    BY <2>3, <2>4, <2>5 DEF Bijection, Injection, Surjection, IsInjective
  <2> QED
    BY <2>6, <1>3, FS_Bijection DEF ExistsBijection
<1>6. Cardinality(Wide(u, n + k - 1)) = Cardinality(Wide(s, n)) + Cardinality(Wide(t, k - 1))
  <2> HIDE DEF shifted, n
  <2>1. Cardinality(Wide(s, n) \cap shifted) = 0
    BY <1>4, FS_EmptySet
  <2>2. Cardinality(Wide(s, n) \cup shifted) = Cardinality(Wide(s, n)) + Cardinality(shifted) - 0
    BY <1>3, <1>5, <2>1, FS_Union
  <2>3. Cardinality(Wide(u, n + k - 1)) = Cardinality(Wide(s, n) \cup shifted)
    BY <1>4, Zenon
  <2>4. Cardinality(Wide(s, n)) \in Nat /\ Cardinality(shifted) = Cardinality(Wide(t, k - 1))
        /\ Cardinality(Wide(t, k - 1)) \in Nat
    BY <1>3, <1>5
  <2> QED
    BY <2>2, <2>3, <2>4
<1> QED
  BY <1>1, <1>2, <1>3, <1>6 DEF u

\* The words of b begin at `at'.
Fits(b, w, at) ==
  IF S!IsWide(b) THEN S!Is(b, "high", w[at]) /\ S!Is(b, "low", w[at + 1]) ELSE S!Is(b, "word", w[at])

LEMMA AlignedIs ==
  ASSUME NEW s, NEW w
  PROVE  S!Aligned(s, w) <=> /\ Len(w) = S!Offset(s, Len(s) + 1) - 1
                             /\ \A i \in 1 .. Len(s) : Fits(s[i], w, S!Offset(s, i))
BY DEF S!Aligned, Fits

\* A value's words lie in the sequence.
LEMMA WordsAreInside ==
  ASSUME NEW s, Len(s) \in Nat, NEW i \in 1 .. Len(s)
  PROVE  /\ S!Offset(s, i) \in Nat /\ S!Offset(s, i) >= 1
         /\ S!Offset(s, i) <= S!Offset(s, Len(s) + 1) - 1
         /\ S!IsWide(s[i]) => S!Offset(s, i) + 1 <= S!Offset(s, Len(s) + 1) - 1
<1>1. i \in Nat /\ i > 0 /\ i + 1 \in Nat /\ i + 1 > 0 /\ Len(s) + 1 \in Nat /\ i + 1 <= Len(s) + 1 /\ Len(s) + 1 > 0
  OBVIOUS
<1>2. /\ S!Offset(s, i) \in Nat /\ S!Offset(s, i) >= i /\ S!Offset(s, Len(s) + 1) \in Nat
      /\ S!Offset(s, i + 1) \in Nat /\ S!Offset(s, i + 1) <= S!Offset(s, Len(s) + 1)
      /\ S!Offset(s, i + 1) = S!Offset(s, i) + Words1(s[i])
  BY <1>1, OffsetType, OffsetGrows, OffsetStep
<1> QED
  BY <1>1, <1>2 DEF Words1

LEMMA AlignedConcat ==
  ASSUME NEW V, NEW s \in Seq(V), NEW t \in Seq(V), NEW W, NEW v \in Seq(W), NEW w \in Seq(W),
         Len(v) = S!Offset(s, Len(s) + 1) - 1
  PROVE  S!Aligned(s \o t, v \o w) <=> S!Aligned(s, v) /\ S!Aligned(t, w)
<1> DEFINE u == s \o t
           x == v \o w
<1>1. /\ Len(u) = Len(s) + Len(t) /\ Len(s) \in Nat /\ Len(t) \in Nat
      /\ \A i \in 1 .. Len(s) : u[i] = s[i]
      /\ \A i \in 1 .. Len(t) : u[Len(s) + i] = t[i]
      /\ Len(x) = Len(v) + Len(w) /\ Len(v) \in Nat /\ Len(w) \in Nat
      /\ \A i \in 1 .. Len(v) : x[i] = v[i]
      /\ \A i \in 1 .. Len(w) : x[Len(v) + i] = w[i]
  <2>1. /\ Len(u) = Len(s) + Len(t) /\ Len(s) \in Nat /\ Len(t) \in Nat
        /\ \A i \in 1 .. Len(s) : u[i] = s[i]
        /\ \A i \in 1 .. Len(t) : u[Len(s) + i] = t[i]
    BY ConcatParts
  <2>2. /\ Len(x) = Len(v) + Len(w) /\ Len(v) \in Nat /\ Len(w) \in Nat
        /\ \A i \in 1 .. Len(v) : x[i] = v[i]
        /\ \A i \in 1 .. Len(w) : x[Len(v) + i] = w[i]
    <3> HIDE DEF u
    <3>1. v \in Seq(W) /\ w \in Seq(W)
      OBVIOUS
    <3> QED
      BY ONLY <3>1, ConcatParts DEF x
  <2> QED
    BY <2>1, <2>2
<1>2. /\ \A i \in 1 .. Len(s) + 1 : S!Offset(u, i) = S!Offset(s, i)
      /\ \A k \in 1 .. Len(t) + 1 : S!Offset(u, Len(s) + k) = Len(v) + S!Offset(t, k)
  BY OffsetOfConcat
<1> HIDE DEF u, x
<1>3. ASSUME NEW i \in 1 .. Len(s)
      PROVE  Fits(u[i], x, S!Offset(u, i)) <=> Fits(s[i], v, S!Offset(s, i))
  <2>1. /\ S!Offset(s, i) \in 1 .. Len(v)
        /\ S!IsWide(s[i]) => S!Offset(s, i) + 1 \in 1 .. Len(v)
    BY WordsAreInside, SMTT(20)
  <2>2. S!Offset(u, i) = S!Offset(s, i) /\ u[i] = s[i]
    <3>1. i \in 1 .. Len(s) + 1
      BY <1>1
    <3> QED
      BY <3>1, <1>1, <1>2
  <2> QED
    BY <1>1, <2>1, <2>2 DEF Fits
<1>4. ASSUME NEW i \in 1 .. Len(t), Len(w) = S!Offset(t, Len(t) + 1) - 1
      PROVE  Fits(u[Len(s) + i], x, S!Offset(u, Len(s) + i)) <=> Fits(t[i], w, S!Offset(t, i))
  <2>1. /\ S!Offset(t, i) \in Nat /\ S!Offset(t, i) \in 1 .. Len(w)
        /\ S!IsWide(t[i]) => S!Offset(t, i) + 1 \in 1 .. Len(w)
    BY <1>1, <1>4, WordsAreInside
  <2>2. S!Offset(u, Len(s) + i) = Len(v) + S!Offset(t, i) /\ u[Len(s) + i] = t[i]
    BY <1>1, <1>2
  <2>3. x[Len(v) + S!Offset(t, i)] = w[S!Offset(t, i)]
    BY <1>1, <2>1
  <2>4. S!IsWide(t[i]) => x[(Len(v) + S!Offset(t, i)) + 1] = w[S!Offset(t, i) + 1]
    <3> DEFINE j == S!Offset(t, i) + 1
    <3>1. (Len(v) + S!Offset(t, i)) + 1 = Len(v) + j
      BY <1>1, <2>1
    <3>2. ASSUME S!IsWide(t[i]) PROVE x[Len(v) + j] = w[j]
      <4>1. j \in 1 .. Len(w)
        BY <2>1, <3>2
      <4> HIDE DEF j
      <4> QED
        BY <1>1, <4>1
    <3> QED
      BY <3>1, <3>2, Zenon
  <2> QED
    BY <2>2, <2>3, <2>4 DEF Fits
<1>5. Len(x) = S!Offset(u, Len(u) + 1) - 1 <=> Len(w) = S!Offset(t, Len(t) + 1) - 1
  <2>1. Len(t) + 1 \in 1 .. Len(t) + 1 /\ Len(u) + 1 = Len(s) + (Len(t) + 1) /\ Len(t) + 1 \in Nat /\ Len(t) + 1 > 0
    BY <1>1
  <2>2. S!Offset(u, Len(u) + 1) = Len(v) + S!Offset(t, Len(t) + 1) /\ S!Offset(t, Len(t) + 1) \in Nat
    BY <1>2, <2>1, OffsetType
  <2> QED
    BY <1>1, <2>2
<1>6. ASSUME S!Aligned(u, x) PROVE S!Aligned(s, v) /\ S!Aligned(t, w)
  <2>1. /\ Len(w) = S!Offset(t, Len(t) + 1) - 1
        /\ \A i \in 1 .. Len(u) : Fits(u[i], x, S!Offset(u, i))
    BY <1>5, <1>6, AlignedIs
  <2>2. \A i \in 1 .. Len(s) : i \in 1 .. Len(u)
    BY <1>1
  <2>3. \A i \in 1 .. Len(t) : Len(s) + i \in 1 .. Len(u)
    BY <1>1
  <2>4. \A i \in 1 .. Len(s) : Fits(s[i], v, S!Offset(s, i))
    BY <1>3, <2>1, <2>2
  <2>5. \A i \in 1 .. Len(t) : Fits(t[i], w, S!Offset(t, i))
    BY <1>4, <2>1, <2>3
  <2> QED
    BY <2>1, <2>4, <2>5, AlignedIs
<1>7. ASSUME S!Aligned(s, v), S!Aligned(t, w) PROVE S!Aligned(u, x)
  <2>1. /\ Len(w) = S!Offset(t, Len(t) + 1) - 1 /\ Len(x) = S!Offset(u, Len(u) + 1) - 1
        /\ \A i \in 1 .. Len(s) : Fits(s[i], v, S!Offset(s, i))
        /\ \A i \in 1 .. Len(t) : Fits(t[i], w, S!Offset(t, i))
    BY <1>5, <1>7, AlignedIs
  <2>2. ASSUME NEW i \in 1 .. Len(u) PROVE Fits(u[i], x, S!Offset(u, i))
    <3>1. CASE i \in 1 .. Len(s)
      BY <3>1, <1>3, <2>1
    <3>2. CASE i \notin 1 .. Len(s)
      <4>1. i - Len(s) \in 1 .. Len(t) /\ Len(s) + (i - Len(s)) = i
        BY <3>2, <1>1
      <4>2. Fits(u[Len(s) + (i - Len(s))], x, S!Offset(u, Len(s) + (i - Len(s))))
        BY <4>1, <1>4, <2>1
      <4> QED
        BY <4>1, <4>2
    <3> QED
      BY <3>1, <3>2
  <2> QED
    BY <2>1, <2>2, AlignedIs
<1> QED
  BY <1>6, <1>7 DEF u, x

\* Where the n-th value from the top begins; n = 0 is the end.
Start(n) == S!Offset(operands, Len(operands) - n + 1)

LEMMA StackTypes ==
  ASSUME S!IInv
  PROVE  /\ operands \in Seq(S!Boxes) /\ words \in Seq(WordSet) /\ Len(words) <= MaxWords
         /\ operandsOut \in {"running", "crash"} /\ Len(operands) \in Nat /\ Len(words) \in Nat
         /\ operandsOut = "running" => S!Aligned(operands, words) /\ Start(0) = Len(words) + 1
<1>1. /\ operands \in Seq(S!Boxes) /\ words \in Seq(WordSet) /\ Len(words) <= MaxWords
      /\ operandsOut \in {"running", "crash"} /\ Len(operands) \in Nat /\ Len(words) \in Nat
      /\ operandsOut = "running" => S!Aligned(operands, words)
  BY DEF S!IInv, S!TypeOK, S!SameWords, WordSet
<1>2. Len(operands) - 0 + 1 = Len(operands) + 1 /\ S!Offset(operands, Len(operands) + 1) \in Nat
  BY <1>1, OffsetType
<1> QED
  BY <1>1, <1>2, AlignedIs DEF Start

LEMMA StartStep ==
  ASSUME S!IInv, NEW n \in 1 .. Len(operands)
  PROVE  /\ Start(n - 1) = Start(n) + Words1(S!Val(n))
         /\ Start(n) \in Nat /\ Start(n) >= 1 /\ Start(n) <= Start(0)
<1> DEFINE i == Len(operands) - n + 1
<1>1. Len(operands) \in Nat
  BY StackTypes
<1>2. /\ i \in Nat /\ i > 0 /\ Len(operands) - (n - 1) + 1 = i + 1
      /\ Len(operands) - 0 + 1 \in Nat /\ i <= Len(operands) - 0 + 1
  BY <1>1
<1> HIDE DEF i
<1>3. /\ S!Offset(operands, i + 1) = S!Offset(operands, i) + Words1(operands[i])
      /\ S!Offset(operands, i) \in Nat /\ S!Offset(operands, i) >= i
      /\ S!Offset(operands, i) <= S!Offset(operands, Len(operands) - 0 + 1)
  BY <1>2, OffsetStep, OffsetType, OffsetGrows
<1>4. Start(n) = S!Offset(operands, i) /\ S!Val(n) = operands[i] /\ Start(n - 1) = S!Offset(operands, i + 1)
  BY <1>2 DEF i, Start, S!Val
<1> QED
  BY <1>2, <1>3, <1>4 DEF Start

\* If Java's words are not cut two words below a value's end the value is narrow.
LEMMA NotCut ==
  ASSUME S!IInv, operandsOut = "running", NEW n \in 1 .. Len(operands), ~S!IsCut(words, Start(n - 1) - 2)
  PROVE  ~S!IsWide(S!Val(n)) /\ Start(n) = Start(n - 1) - 1
<1>1. /\ Start(n - 1) = Start(n) + Words1(S!Val(n)) /\ Start(n) \in Nat /\ Start(n) >= 1
      /\ Start(n) <= Len(words) + 1 /\ Len(words) \in Nat
  BY StartStep, StackTypes
<1>2. ASSUME S!IsWide(S!Val(n)) PROVE FALSE
  <2>1. Start(n - 1) - 2 = Start(n) /\ Start(n) <= Len(words)
    <3>1. Start(n - 1) <= Len(words) + 1
      <4>1. CASE n = 1
        BY <4>1, StackTypes
      <4>2. CASE n > 1
        <5>1. n - 1 \in 1 .. Len(operands)
          BY <4>2, StackTypes
        <5> QED
          BY <5>1, StartStep, StackTypes
      <4> QED
        BY <4>1, <4>2
    <3> QED
      BY <1>1, <1>2, <3>1 DEF Words1
  <2>2. Len(operands) - n + 1 \in 1 .. Len(operands)
    BY StackTypes
  <2>3. Fits(operands[Len(operands) - n + 1], words, S!Offset(operands, Len(operands) - n + 1))
    BY <2>2, StackTypes, AlignedIs
  <2>4. words[Start(n)][2] = "high"
    BY <1>2, <2>3 DEF Fits, S!Is, Start, S!Val
  <2> QED
    BY <1>1, <2>1, <2>4 DEF S!IsCut
<1> QED
  BY <1>1, <1>2 DEF Words1

\* Copies have the words of what is copied, but for the value of a float or a long.
LEMMA CopiesFit ==
  ASSUME NEW s, NEW t, NEW w, S!Aligned(s, w), Len(t) = Len(s), Len(s) \in Nat,
         \A i \in 1 .. Len(s) : s[i] \in S!Boxes /\ t[i] = S!if_BasicType_then_copy(s[i])
  PROVE  S!Aligned(t, w)
<1>1. ASSUME NEW i \in 1 .. Len(s)
      PROVE  /\ S!IsWide(t[i]) <=> S!IsWide(s[i])
             /\ \A part, x : S!Is(s[i], part, x) => S!Is(t[i], part, x)
  <2>1. /\ s[i] \in [type : Types, id : 1 .. S!Lost] /\ t[i].type = s[i].type
        /\ t[i].id = s[i].id \/ (t[i].id = S!Lost /\ s[i].type \in {"float", "long"})
    BY DEF S!Boxes, S!if_BasicType_then_copy
  <2>2. S!IsWide(t[i]) <=> S!IsWide(s[i])
    BY <2>1 DEF S!IsWide
  <2>3. ASSUME NEW part, NEW x, S!Is(s[i], part, x) PROVE S!Is(t[i], part, x)
    <3>1. /\ x[2] = part /\ s[i].type = x[1].type
          /\ s[i].id = x[1].id \/ (s[i].id = S!Lost /\ s[i].type \in {"float", "long"})
      BY <2>3 DEF S!Is
    <3>2. t[i].id = x[1].id \/ (t[i].id = S!Lost /\ t[i].type \in {"float", "long"})
      BY <2>1, <3>1
    <3> QED
      BY <2>1, <3>1, <3>2 DEF S!Is
  <2> QED
    BY <2>2, <2>3
<1>2. ASSUME NEW i \in 1 .. Len(s) + 1 PROVE S!Offset(t, i) = S!Offset(s, i)
  <2>1. i \in Nat /\ i > 0 /\ \A j \in 1 .. i - 1 : j \in 1 .. Len(s)
    OBVIOUS
  <2>2. \A j \in 1 .. i - 1 : S!IsWide(t[j]) <=> S!IsWide(s[j])
    BY <2>1, <1>1
  <2> QED
    BY <2>1, <2>2, OffsetAgrees
<1>3. ASSUME NEW i \in 1 .. Len(t) PROVE Fits(t[i], w, S!Offset(t, i))
  <2>1. i \in 1 .. Len(s) /\ i \in 1 .. Len(s) + 1
    OBVIOUS
  <2>2. Fits(s[i], w, S!Offset(s, i)) /\ S!Offset(t, i) = S!Offset(s, i)
    BY <2>1, <1>2, AlignedIs
  <2> QED
    BY <2>1, <2>2, <1>1 DEF Fits
<1>4. Len(s) + 1 \in 1 .. Len(s) + 1
  OBVIOUS
<1>5. Len(w) = S!Offset(t, Len(t) + 1) - 1
  BY <1>2, <1>4, AlignedIs
<1> QED
  BY <1>3, <1>5, AlignedIs

\* A value that ends where the words are to be cut.
LEMMA DupAligns ==
  ASSUME S!IInv, operandsOut = "running", NEW m \in Nat, NEW j \in Nat, NEW n \in Nat, NEW k \in Nat,
         m + j <= Len(operands), n + k <= Len(words),
         Start(m) = Start(0) - n, Start(m + j) = Start(0) - (n + k),
         S!Insert(m, j), S!JavaDup(n, k)
  PROVE  operands' \in Seq(S!Boxes) /\ words' \in Seq(WordSet) /\ S!Aligned(operands', words')
<1> DEFINE L == Len(operands)
           X == Len(words)
           base == SubSeq(operands, 1, L - m - j)
           top == SubSeq(operands, L - m - j + 1, L)
           skip == SubSeq(top, 1, j)
           last == SubSeq(top, j + 1, Len(top))
           copies == [i \in 1 .. m |-> S!if_BasicType_then_copy(S!Val(m - i + 1))]
           wbase == SubSeq(words, 1, X - n - k)
           wtop == SubSeq(words, X - n - k + 1, X)
           wskip == SubSeq(words, X - n - k + 1, X - n)
           wlast == SubSeq(words, X - n + 1, X)
<1>1. /\ operands \in Seq(S!Boxes) /\ words \in Seq(WordSet) /\ L \in Nat /\ X \in Nat
      /\ S!Aligned(operands, words) /\ Start(0) = X + 1
  BY StackTypes
<1>2. /\ operands' = (base \o copies) \o top
      /\ words' = ((wbase \o wlast) \o wskip) \o wlast
  BY DEF S!Insert, S!JavaDup
<1>3. /\ operands = base \o top
      /\ base \in Seq(S!Boxes) /\ Len(base) = L - m - j
      /\ top \in Seq(S!Boxes) /\ Len(top) = m + j /\ \A i \in 1 .. m + j : top[i] = operands[L - m - j + i]
  <2> DEFINE c == L - m - j
  <2>1. c \in 0 .. Len(operands) /\ L - c = m + j
    BY <1>1
  <2> HIDE DEF c
  <2>2. /\ operands = SubSeq(operands, 1, c) \o SubSeq(operands, c + 1, L)
        /\ SubSeq(operands, 1, c) \in Seq(S!Boxes) /\ Len(SubSeq(operands, 1, c)) = c
        /\ SubSeq(operands, c + 1, L) \in Seq(S!Boxes) /\ Len(SubSeq(operands, c + 1, L)) = L - c
        /\ \A i \in 1 .. L - c : SubSeq(operands, c + 1, L)[i] = operands[c + i]
    BY <1>1, <2>1, Split
  <2>3. base = SubSeq(operands, 1, c) /\ top = SubSeq(operands, c + 1, L)
    BY DEF c
  <2> HIDE DEF base, top
  <2> QED
    BY <2>1, <2>2, <2>3 DEF c
<1>4. /\ top = skip \o last
      /\ skip \in Seq(S!Boxes) /\ Len(skip) = j
      /\ last \in Seq(S!Boxes) /\ Len(last) = m /\ \A i \in 1 .. m : last[i] = operands[L - m + i]
  <2> HIDE DEF top, base
  <2>1. j \in 0 .. Len(top) /\ Len(top) - j = m
    BY <1>3
  <2>2. /\ top = skip \o last
        /\ skip \in Seq(S!Boxes) /\ Len(skip) = j
        /\ last \in Seq(S!Boxes) /\ Len(last) = m /\ \A i \in 1 .. m : last[i] = top[j + i]
    BY <1>3, <2>1, Split
  <2>3. ASSUME NEW i \in 1 .. m PROVE last[i] = operands[L - m + i]
    <3>1. j + i \in 1 .. m + j /\ L - m - j + (j + i) = L - m + i
      BY <1>1
    <3> QED
      BY <2>2, <3>1, <1>3
  <2> QED
    BY <2>2, <2>3
<1>5. copies \in Seq(S!Boxes) /\ Len(copies) = m /\ \A i \in 1 .. m : copies[i] = S!if_BasicType_then_copy(last[i])
  <2>1. ASSUME NEW i \in 1 .. m PROVE S!Val(m - i + 1) = last[i]
    <3>1. Len(operands) - (m - i + 1) + 1 = L - m + i
      BY <1>1
    <3> QED
      BY <3>1, <1>4 DEF S!Val
  <2>2. ASSUME NEW i \in 1 .. m PROVE last[i] \in S!Boxes
    <3> HIDE DEF last
    <3> QED
      BY <1>4, ElementOfSeq
  <2>3. S!Lost \in 1 .. S!Lost
    BY InstructionsAssumption DEF S!StackAssumption, S!Lost
  <2>4. ASSUME NEW i \in 1 .. m PROVE copies[i] \in S!Boxes
    BY <2>1, <2>2, <2>3 DEF S!if_BasicType_then_copy, S!Boxes
  <2>5. \A i \in 1 .. m : copies[i] = S!if_BasicType_then_copy(last[i])
    BY <2>1
  <2> QED
    BY <2>4, <2>5
<1>6. /\ words = wbase \o wtop /\ wbase \in Seq(WordSet) /\ Len(wbase) = X - n - k
      /\ wtop \in Seq(WordSet) /\ Len(wtop) = n + k
  <2>1. X - n - k \in 0 .. Len(words) /\ X - (X - n - k) = n + k
    BY <1>1
  <2> QED
    BY <1>1, <2>1, Split
<1>7. /\ wtop = wskip \o wlast /\ wskip \in Seq(WordSet) /\ Len(wskip) = k
      /\ wlast \in Seq(WordSet)
  <2>1. /\ X - n - k + 1 \in 1 .. Len(words) + 1 /\ X - n \in (X - n - k + 1) - 1 .. Len(words)
        /\ Len(words) \in X - n .. Len(words) /\ X - n \in 0 .. Len(words)
    BY <1>1
  <2>2. wtop = wskip \o wlast
    BY <1>1, <2>1, ConcatAdjacentSubSeq
  <2>3. wlast \in Seq(WordSet) /\ Len(wlast) = X - (X - n)
    BY <1>1, <2>1, Split
  <2>4. wskip \in Seq(WordSet)
    <3>1. \A i \in X - n - k + 1 .. X - n : i \in 1 .. Len(words)
      BY <1>1
    <3>2. \A i \in X - n - k + 1 .. X - n : words[i] \in WordSet
      BY <1>1, <3>1, ElementOfSeq
    <3>3. X - n - k + 1 \in Int /\ X - n \in Int
      BY <1>1
    <3> QED
      BY <3>2, <3>3, SubSeqProperties
  <2>5. Len(wskip) = k
    <3> HIDE DEF wskip, wlast, wtop
    <3>1. Len(wskip \o wlast) = Len(wskip) + Len(wlast) /\ Len(wskip) \in Nat
      BY <2>3, <2>4, ConcatParts
    <3> QED
      BY <1>1, <1>6, <2>2, <2>3, <3>1
  <2> QED
    BY <2>2, <2>3, <2>4, <2>5
<1>8. Len(wbase) = S!Offset(base, Len(base) + 1) - 1
  <2>1. S!Offset(operands, L - (m + j) + 1) = (X + 1) - (n + k)
    BY <1>1 DEF Start
  <2>2. Len(base) + 1 \in 1 .. Len(base) + 1 /\ Len(top) + 1 \in Nat /\ 1 \in 1 .. Len(top) + 1
        /\ Len(base) + 1 = L - (m + j) + 1
    BY <1>1, <1>3
  <2> HIDE DEF base, top, wbase
  <2>3. S!Offset(base \o top, Len(base) + 1) = S!Offset(base, Len(base) + 1)
    BY <1>3, <2>2, OffsetOfConcat
  <2>4. S!Offset(base, Len(base) + 1) = (X + 1) - (n + k)
    BY <1>3, <2>1, <2>2, <2>3
  <2> QED
    BY <1>1, <1>6, <2>4
<1>9. S!Aligned(base, wbase) /\ S!Aligned(top, wtop)
  <2> HIDE DEF base, top, wbase, wtop
  <2>1. S!Aligned(base \o top, wbase \o wtop)
    BY <1>1, <1>3, <1>6
  <2> QED
    BY <2>1, <1>3, <1>6, <1>8, AlignedConcat
<1>10. Len(wskip) = S!Offset(skip, Len(skip) + 1) - 1
  <2>1. S!Offset(operands, L - m + 1) = (X + 1) - n
    BY <1>1 DEF Start
  <2> HIDE DEF base, top, wbase, wtop, skip, last, wskip
  <2>2. j + 1 \in 1 .. Len(top) + 1 /\ Len(base) + (j + 1) = L - m + 1 /\ j + 1 \in 1 .. Len(skip) + 1
        /\ j + 1 \in Nat /\ j + 1 > 0
    BY <1>1, <1>3, <1>4
  <2>3. S!Offset(base \o top, Len(base) + (j + 1)) = (S!Offset(base, Len(base) + 1) - 1) + S!Offset(top, j + 1)
    BY <1>3, <2>2, OffsetOfConcat
  <2>4. (X + 1) - n = (X - n - k) + S!Offset(top, j + 1) /\ S!Offset(top, j + 1) \in Nat
    <3>1. (X + 1) - n = Len(wbase) + S!Offset(top, j + 1)
      BY <2>1, <2>2, <2>3, <1>3, <1>8
    <3>2. S!Offset(top, j + 1) \in Nat
      BY <2>2, OffsetType
    <3> QED
      BY <3>1, <3>2, <1>6
  <2>5. S!Offset(skip \o last, j + 1) = S!Offset(skip, j + 1)
    BY <1>4, <2>2, OffsetOfConcat
  <2>6. S!Offset(skip \o last, j + 1) = k + 1
    <3>1. S!Offset(top, j + 1) = k + 1
      BY <1>1, <2>4
    <3> QED
      BY <3>1, <1>4
  <2> HIDE DEF L, X
  <2> QED
    BY <1>1, <1>4, <1>7, <2>5, <2>6
<1> HIDE DEF L, X, base, top, skip, last, copies, wbase, wtop, wskip, wlast
<1>11. S!Aligned(skip, wskip) /\ S!Aligned(last, wlast)
  <2>1. S!Aligned(skip \o last, wskip \o wlast)
    BY <1>9, <1>4, <1>7
  <2> QED
    BY <2>1, <1>4, <1>7, <1>10, AlignedConcat
<1>12. S!Aligned(copies, wlast)
  BY <1>4, <1>5, <1>11, CopiesFit
<1>13. S!Aligned(base \o copies, wbase \o wlast) /\ base \o copies \in Seq(S!Boxes) /\ wbase \o wlast \in Seq(WordSet)
  BY <1>3, <1>5, <1>6, <1>7, <1>8, <1>9, <1>12, AlignedConcat, ConcatProperties
<1>14. S!Aligned((base \o copies) \o top, (wbase \o wlast) \o wtop)
  <2>1. Len(wbase \o wlast) = S!Offset(base \o copies, Len(base \o copies) + 1) - 1
    BY <1>13, AlignedIs
  <2> QED
    BY <1>3, <1>6, <1>9, <1>13, <2>1, AlignedConcat
<1>15. ((wbase \o wlast) \o wskip) \o wlast = (wbase \o wlast) \o wtop
  <2>1. ((wbase \o wlast) \o wskip) \o wlast = (wbase \o wlast) \o (wskip \o wlast)
    <3> DEFINE a == wbase \o wlast
    <3>1. a \in Seq(WordSet) /\ wskip \in Seq(WordSet) /\ wlast \in Seq(WordSet)
      BY <1>7, <1>13, Zenon
    <3> HIDE DEF a
    <3>2. (a \o wskip) \o wlast = a \o (wskip \o wlast)
      BY ONLY <3>1, ConcatAssociative, SMTT(20)
    <3> QED
      BY <3>2 DEF a
  <2> QED
    BY <2>1, <1>7, Zenon
<1> QED
  BY <1>2, <1>3, <1>6, <1>13, <1>14, <1>15, ConcatProperties

\* Java's instruction adds n words.
LEMMA JavaDupTypes ==
  ASSUME S!IInv, NEW n \in Nat, NEW k \in Nat, S!JavaDup(n, k)
  PROVE  words' \in Seq(WordSet) /\ Len(words') <= MaxWords
<1> DEFINE X == Len(words)
           base == SubSeq(words, 1, X - n - k)
           skipped == SubSeq(words, X - n - k + 1, X - n)
           part == SubSeq(words, X - n + 1, X)
<1>1. words \in Seq(WordSet) /\ X \in Nat /\ X >= n + k /\ X + n <= MaxWords
      /\ words' = ((base \o part) \o skipped) \o part
  BY StackTypes DEF S!JavaDup
<1>2. \A i \in 1 .. X : words[i] \in WordSet
  BY <1>1, ElementOfSeq
<1>3. /\ base \in Seq(WordSet) /\ Len(base) = X - n - k
  <2>1. 1 \in Int /\ X - n - k \in Int /\ \A i \in 1 .. X - n - k : words[i] \in WordSet
    BY <1>1, <1>2
  <2>2. (IF 1 <= X - n - k THEN X - n - k - 1 + 1 ELSE 0) = X - n - k
    BY <1>1
  <2> QED
    BY <2>1, <2>2, SubSeqProperties
<1>4. skipped \in Seq(WordSet) /\ Len(skipped) = k
  <2>1. X - n - k + 1 \in Int /\ X - n \in Int /\ \A i \in X - n - k + 1 .. X - n : words[i] \in WordSet
    BY <1>1, <1>2
  <2>2. (IF X - n - k + 1 <= X - n THEN X - n - (X - n - k + 1) + 1 ELSE 0) = k
    BY <1>1
  <2> QED
    BY <2>1, <2>2, SubSeqProperties
<1>5. part \in Seq(WordSet) /\ Len(part) = n
  <2>1. X - n + 1 \in Int /\ X \in Int /\ \A i \in X - n + 1 .. X : words[i] \in WordSet
    BY <1>1, <1>2
  <2>2. (IF X - n + 1 <= X THEN X - (X - n + 1) + 1 ELSE 0) = n
    BY <1>1
  <2> QED
    BY <2>1, <2>2, SubSeqProperties
<1> HIDE DEF base, skipped, part, X
<1>6. base \o part \in Seq(WordSet) /\ Len(base \o part) = X - k
  <2>1. base \o part \in Seq(WordSet) /\ Len(base \o part) = (X - n - k) + n
    BY <1>3, <1>5, ConcatProperties
  <2> QED
    BY <2>1, <1>1
<1>7. (base \o part) \o skipped \in Seq(WordSet) /\ Len((base \o part) \o skipped) = X
  <2>1. (base \o part) \o skipped \in Seq(WordSet) /\ Len((base \o part) \o skipped) = (X - k) + k
    BY <1>4, <1>6, ConcatProperties
  <2> QED
    BY <2>1, <1>1
<1>8. words' \in Seq(WordSet) /\ Len(words') = X + n
  BY <1>1, <1>5, <1>7, ConcatProperties
<1> QED
  BY <1>1, <1>8

LEMMA DupKeeps ==
  ASSUME S!IInv, operandsOut = "running", NEW m \in Nat, NEW j \in Nat, NEW n \in Nat, NEW k \in Nat,
         Start(m) = Start(0) - n, Start(m + j) = Start(0) - (n + k),
         S!Insert(m, j), S!JavaDup(n, k)
  PROVE  S!IInv'
<1>1. m + j <= Len(operands) /\ n + k <= Len(words) /\ UNCHANGED operandsOut
  BY DEF S!Insert, S!JavaDup
<1>2. operands' \in Seq(S!Boxes) /\ words' \in Seq(WordSet) /\ S!Aligned(operands', words')
  BY <1>1, DupAligns
<1>3. Len(words') <= MaxWords
  BY JavaDupTypes
<1>4. operandsOut' \in {"running", "crash"}
  BY <1>1
<1> QED
  BY <1>2, <1>3, <1>4 DEF S!IInv, S!TypeOK, S!SameWords, WordSet

LEMMA CrashKeeps ==
  ASSUME S!IInv, NEW n \in Nat, NEW k \in Nat, S!JavaDup(n, k), NEW v \in Nat, S!Crash(v)
  PROVE  S!IInv'
<1>1. operandsOut' = "crash" /\ UNCHANGED operands /\ operands \in Seq(S!Boxes)
  BY StackTypes DEF S!Crash
<1>2. words' \in Seq(WordSet) /\ Len(words') <= MaxWords
  BY JavaDupTypes
<1> QED
  BY <1>1, <1>2 DEF S!IInv, S!TypeOK, S!SameWords, WordSet

\* m values of n words are taken off.
LEMMA PopKeeps ==
  ASSUME S!IInv, operandsOut = "running", NEW m \in Nat, NEW n \in Nat, m <= Len(operands),
         Start(m) = Start(0) - n, S!JavaPop(n), UNCHANGED operandsOut,
         operands' = SubSeq(operands, 1, Len(operands) - m)
  PROVE  S!IInv'
<1> DEFINE base == SubSeq(operands, 1, Len(operands) - m)
           top == SubSeq(operands, Len(operands) - m + 1, Len(operands))
           wbase == SubSeq(words, 1, Len(words) - n)
           wtop == SubSeq(words, Len(words) - n + 1, Len(words))
<1>1. /\ operands \in Seq(S!Boxes) /\ words \in Seq(WordSet) /\ Len(operands) \in Nat /\ Len(words) \in Nat
      /\ S!Aligned(operands, words) /\ Start(0) = Len(words) + 1 /\ n <= Len(words) /\ Len(words) <= MaxWords
      /\ words' = wbase /\ operands' = base
  BY StackTypes DEF S!JavaPop
<1>2. operands = base \o top /\ base \in Seq(S!Boxes) /\ top \in Seq(S!Boxes) /\ Len(base) = Len(operands) - m
  <2>1. Len(operands) - m \in 0 .. Len(operands)
    BY <1>1
  <2> QED
    BY <1>1, <2>1, Split
<1>3. words = wbase \o wtop /\ wbase \in Seq(WordSet) /\ wtop \in Seq(WordSet) /\ Len(wbase) = Len(words) - n
  <2>1. Len(words) - n \in 0 .. Len(words)
    BY <1>1
  <2> QED
    BY <1>1, <2>1, Split
<1> HIDE DEF base, top, wbase, wtop
<1>4. Len(wbase) = S!Offset(base, Len(base) + 1) - 1
  <2>1. Len(base) + 1 \in 1 .. Len(base) + 1 /\ 1 \in 1 .. Len(top) + 1
    BY <1>2
  <2>2. S!Offset(base \o top, Len(base) + 1) = S!Offset(base, Len(base) + 1)
    BY <1>2, <2>1, OffsetOfConcat
  <2>3. S!Offset(operands, Len(base) + 1) = (Len(words) + 1) - n
    BY <1>1, <1>2 DEF Start
  <2> QED
    BY <1>1, <1>2, <1>3, <2>2, <2>3
<1>5. S!Aligned(base \o top, wbase \o wtop)
  BY <1>1, <1>2, <1>3
<1>6. S!Aligned(base, wbase)
  BY <1>2, <1>3, <1>4, <1>5, AlignedConcat
<1>7. Len(wbase) <= MaxWords
  <2>1. MaxWords \in Nat
    BY InstructionsAssumption DEF S!StackAssumption
  <2> QED
    BY <1>1, <1>3, <2>1
<1>8. operandsOut' \in {"running", "crash"}
  OBVIOUS
<1> QED
  BY <1>1, <1>2, <1>3, <1>6, <1>7, <1>8 DEF S!IInv, S!TypeOK, S!SameWords, WordSet

LEMMA PushKeeps == ASSUME S!IInv, S!Push PROVE S!IInv'
<1>1. PICK t \in Types :
        LET b == S!Box(t, Len(operands) + 1)
        IN /\ Len(words) + Len(S!Words(b)) <= MaxWords
           /\ operands' = Append(operands, b) /\ words' = words \o S!Words(b)
  BY DEF S!Push
<1> DEFINE b == S!Box(t, Len(operands) + 1)
<1>2. /\ operands \in Seq(S!Boxes) /\ words \in Seq(WordSet) /\ Len(operands) \in Nat /\ Len(words) \in Nat
      /\ S!Aligned(operands, words) /\ operandsOut = "running" /\ UNCHANGED operandsOut
      /\ Len(operands) < MaxValues /\ MaxValues \in Nat
  BY StackTypes, InstructionsAssumption DEF S!Push, S!StackAssumption
<1>3. b \in S!Boxes
  BY <1>2 DEF S!Box, S!Boxes, S!Lost
<1>4. S!Words(b) \in Seq(WordSet) /\ Len(S!Words(b)) = Words1(b)
  <2>1. /\ <<b, "high">> \in WordSet /\ <<b, "low">> \in WordSet /\ <<b, "word">> \in WordSet
    BY <1>3 DEF WordSet
  <2> HIDE DEF b
  <2>2. CASE S!IsWide(b)
    <3>1. S!Words(b) = << <<b, "high">>, <<b, "low">> >>
      BY <2>2 DEF S!Words
    <3> QED
      BY <2>1, <2>2, <3>1 DEF Words1
  <2>3. CASE ~S!IsWide(b)
    <3>1. S!Words(b) = << <<b, "word">> >>
      BY <2>3 DEF S!Words
    <3> QED
      BY <2>1, <2>3, <3>1 DEF Words1
  <2> QED
    BY <2>2, <2>3
<1>5. S!Aligned(<<b>>, S!Words(b))
  <2>1. Len(<<b>>) = 1 /\ <<b>>[1] = b
    OBVIOUS
  <2>2. S!Offset(<<b>>, 1) = 1 /\ S!Offset(<<b>>, 1 + 1) = 1 + Words1(<<b>>[1])
    BY OffsetStarts, OffsetStep
  <2>3. Len(S!Words(b)) = S!Offset(<<b>>, 1 + 1) - 1
    BY <2>1, <2>2, <1>4 DEF Words1
  <2>4. Fits(b, S!Words(b), 1)
    BY DEF Fits, S!Words, S!Is
  <2>5. \A i \in 1 .. 1 : Fits(<<b>>[i], S!Words(b), S!Offset(<<b>>, i))
    BY <2>1, <2>2, <2>4
  <2> QED
    BY <2>1, <2>3, <2>5, AlignedIs
<1>6. operands' = operands \o <<b>> /\ <<b>> \in Seq(S!Boxes)
  BY <1>1, <1>2, <1>3, AppendIsConcat
<1>7. Len(words) = S!Offset(operands, Len(operands) + 1) - 1
  BY <1>2, AlignedIs
<1> HIDE DEF b
<1>8. S!Aligned(operands \o <<b>>, words \o S!Words(b))
  BY <1>2, <1>4, <1>5, <1>6, <1>7, AlignedConcat
<1>9. words' = words \o S!Words(b) /\ Len(words) + Len(S!Words(b)) <= MaxWords
  BY <1>1 DEF b
<1>10. words' \in Seq(WordSet) /\ Len(words') <= MaxWords /\ operands' \in Seq(S!Boxes)
  BY <1>2, <1>4, <1>6, <1>9, ConcatProperties
<1> QED
  BY <1>2, <1>6, <1>8, <1>9, <1>10 DEF S!IInv, S!TypeOK, S!SameWords, WordSet

LEMMA StackStart == ASSUME S!Init PROVE S!IInv
<1>1. operands = <<>> /\ words = <<>> /\ operandsOut = "running"
  BY DEF S!Init
<1>2. MaxWords \in Nat
  BY InstructionsAssumption DEF S!StackAssumption
<1>3. S!Aligned(<<>>, <<>>)
  <2>1. Len(<<>>) = 0 /\ S!Offset(<<>>, 0 + 1) = 1
    BY OffsetStarts
  <2> QED
    BY <2>1, AlignedIs
<1> QED
  BY <1>1, <1>2, <1>3 DEF S!IInv, S!TypeOK, S!SameWords

LEMMA StackStep == ASSUME S!IInv, [S!Next]_sVars PROVE S!IInv'
<1>t. /\ Len(operands) \in Nat /\ Len(words) \in Nat /\ Start(0) \in Nat
      /\ operandsOut = "running" => Start(0) = Len(words) + 1
  BY StackTypes, OffsetType DEF Start
<1>n. ASSUME operandsOut = "running", NEW n \in {1, 2, 3, 4}, n <= Len(operands), NEW c, c = Start(n - 1) - 2,
             ~S!IsCut(words, c)
      PROVE  Start(n) = Start(n - 1) - 1 /\ ~S!IsWide(S!Val(n))
  BY <1>n, <1>t, NotCut
<1>w. ASSUME NEW n \in {1, 2, 3, 4}, n <= Len(operands)
      PROVE  /\ S!IsWide(S!Val(n)) => Start(n) = Start(n - 1) - 2
             /\ ~S!IsWide(S!Val(n)) => Start(n) = Start(n - 1) - 1
  <2>1. n \in 1 .. Len(operands)
    BY <1>t, <1>w
  <2>2. Start(n - 1) = Start(n) + Words1(S!Val(n)) /\ Start(n) \in Nat
    BY <2>1, StartStep
  <2> QED
    BY <2>2 DEF Words1
<1>c. \A n \in Nat, k \in Nat : S!JavaDup(n, k) =>
        ~S!IsCut(words, Len(words) - n) /\ ~S!IsCut(words, Len(words) - n - k)
  BY DEF S!JavaDup
<1>1. CASE S!Pop
  <2>1. operandsOut = "running" /\ Len(operands) >= 1 /\ S!JavaPop(1) /\ UNCHANGED operandsOut
        /\ operands' = SubSeq(operands, 1, Len(operands) - 1) /\ ~S!IsCut(words, Len(words) - 1)
    BY <1>1 DEF S!Pop, S!Has, S!JavaPop
  <2>2. Start(1) = Start(0) - 1
    <3>1. Len(words) - 1 = Start(1 - 1) - 2
      BY <1>t, <2>1
    <3> QED
      BY <1>n, <1>t, <2>1, <3>1
  <2> QED
    BY <1>t, <2>1, <2>2, PopKeeps
<1>2. CASE S!Pop2
  <2>1. operandsOut = "running" /\ Len(operands) >= 1 /\ S!JavaPop(2) /\ ~S!IsCut(words, Len(words) - 2)
        /\ Len(words) >= 2
    BY <1>2 DEF S!Pop2, S!Has, S!JavaPop
  <2>2. CASE S!Crash(1)
    <3>1. operandsOut' = "crash" /\ UNCHANGED operands /\ operands \in Seq(S!Boxes)
      BY <2>2, StackTypes DEF S!Crash
    <3>2. words' \in Seq(WordSet) /\ Len(words') <= MaxWords
      <4>1. words' = SubSeq(words, 1, Len(words) - 2) /\ words \in Seq(WordSet) /\ Len(words) <= MaxWords
            /\ MaxWords \in Nat
        BY <2>1, StackTypes, InstructionsAssumption DEF S!JavaPop, S!StackAssumption
      <4>2. words' \in Seq(WordSet) /\ Len(words') = Len(words) - 2
        <5>1. 2 \in Nat /\ 2 <= Len(words) /\ words \in Seq(WordSet)
          BY <4>1, <2>1, <1>t
        <5> QED
          BY <5>1, <4>1, Prefix
      <4> QED
        BY <4>1, <4>2, <1>t
    <3> QED
      BY <3>1, <3>2 DEF S!IInv, S!TypeOK, S!SameWords, WordSet
  <2>3. CASE S!IsWide(S!Val(1)) /\ operands' = SubSeq(operands, 1, Len(operands) - 1) /\ UNCHANGED operandsOut
    <3>1. Start(1) = Start(0) - 2
      BY <1>w, <2>1, <2>3
    <3> QED
      BY <1>t, <2>1, <2>3, <3>1, PopKeeps
  <2>4. CASE ~S!IsWide(S!Val(1)) /\ operands' = SubSeq(operands, 1, Len(operands) - 2) /\ UNCHANGED operandsOut
    <3>1. Start(1) = Start(0) - 1
      BY <1>w, <2>1, <2>4
    <3>2. Len(operands) >= 2
      BY <1>t, <2>1, <3>1, StackTypes, OffsetStarts DEF Start
    <3>3. Len(words) - 2 = Start(2 - 1) - 2
      BY <1>t, <2>1, <3>1
    <3>4. Start(2) = Start(0) - 2
      BY <1>n, <1>t, <2>1, <3>1, <3>2, <3>3
    <3> QED
      BY <1>t, <2>1, <2>4, <3>2, <3>4, PopKeeps
  <2> QED
    BY <1>2, <2>2, <2>3, <2>4 DEF S!Pop2
\* n words are copied from the top, the engine copies m values; then k words, j values are skipped.
<1>d. ASSUME operandsOut = "running", NEW m \in {1, 2}, NEW j \in {0, 1, 2}, NEW n \in {1, 2}, NEW k \in {0, 1, 2},
             S!Insert(m, j), S!JavaDup(n, k), Start(m) = Start(0) - n, Start(m + j) = Start(0) - (n + k)
      PROVE  S!IInv'
  BY <1>d, DupKeeps
<1>e. ASSUME NEW n \in {1, 2}, NEW k \in {0, 1, 2}, S!JavaDup(n, k), NEW v \in {1, 2, 3}, S!Crash(v)
      PROVE  S!IInv'
  BY <1>e, CrashKeeps
<1>i. \A m \in {1, 2}, j \in {0, 1, 2} : S!Insert(m, j) => Len(operands) >= m + j
  BY DEF S!Insert
<1>3. CASE S!Dup
  <2>1. operandsOut = "running" /\ Len(operands) >= 1 /\ S!JavaDup(1, 0) /\ S!Insert(1, 0)
        /\ ~S!IsCut(words, Len(words) - 1)
    BY <1>3, <1>c DEF S!Dup, S!Has
  <2>2. Start(1) = Start(0) - 1
    <3>1. Len(words) - 1 = Start(1 - 1) - 2
      BY <1>t, <2>1
    <3> QED
      BY <1>n, <1>t, <2>1, <3>1
  <2>3. 1 + 0 = 1
    OBVIOUS
  <2> QED
    BY <1>d, <2>1, <2>2, <2>3
\* No value is cut p words below the top, where the n-th value ends: it is a narrow one.
<1>p. ASSUME operandsOut = "running", NEW n \in {1, 2, 3, 4}, n <= Len(operands), NEW p \in {1, 2, 3, 4},
             Start(n - 1) = Start(0) - (p - 1), ~S!IsCut(words, Len(words) - p)
      PROVE  Start(n) = Start(0) - p
  <2>1. Len(words) - p = Start(n - 1) - 2
    BY <1>p, <1>t
  <2>2. operandsOut = "running" /\ n <= Len(operands) /\ ~S!IsCut(words, Start(n - 1) - 2)
    BY <1>p, <2>1
  <2>3. Start(n) = Start(n - 1) - 1
    BY <1>n, <2>2
  <2>4. Start(0) - (p - 1) - 1 = Start(0) - p
    BY <1>t
  <2> QED
    BY <1>p, <2>3, <2>4
<1>q. ASSUME NEW n \in {1, 2}, NEW k \in {0, 1, 2}, S!JavaDup(n, k)
      PROVE  ~S!IsCut(words, Len(words) - n) /\ ~S!IsCut(words, Len(words) - (n + k))
  <2>1. Len(words) - n - k = Len(words) - (n + k)
    BY <1>t
  <2>2. ~S!IsCut(words, Len(words) - n) /\ ~S!IsCut(words, Len(words) - n - k)
    BY <1>q, <1>c
  <2> QED
    BY <2>1, <2>2
<1>4. CASE S!Dup_x1
  <2>1. operandsOut = "running" /\ Len(operands) >= 2 /\ S!JavaDup(1, 1)
    BY <1>4 DEF S!Dup_x1, S!Has
  <2>2. ~S!IsCut(words, Len(words) - 1) /\ ~S!IsCut(words, Len(words) - 2)
    <3>1. 1 + 1 = 2
      OBVIOUS
    <3> QED
      BY <1>q, <2>1, <3>1
  <2>3. CASE S!Insert(1, 1)
    <3>0. Len(operands) >= 2 /\ 1 + 1 = 2
      BY <1>i, <2>3
    <3>1. Start(1) = Start(0) - 1
      <4>1. 1 <= Len(operands) /\ Start(1 - 1) = Start(0) - (1 - 1)
        BY <1>t, <2>1, <3>0
      <4> QED
        BY <1>p, <2>1, <2>2, <4>1
    <3>2. Start(2) = Start(0) - 2
      <4>1. 2 <= Len(operands) /\ Start(2 - 1) = Start(0) - (2 - 1)
        BY <1>t, <2>1, <3>0, <3>1
      <4> QED
        BY <1>p, <2>1, <2>2, <4>1
    <3> QED
      BY <1>d, <2>1, <2>3, <3>0, <3>1, <3>2
  <2> QED
    BY <1>4, <2>3 DEF S!Dup_x1
<1>5. CASE S!Dup_x2
  <2>1. operandsOut = "running" /\ Len(operands) >= 2 /\ S!JavaDup(1, 2)
    BY <1>5 DEF S!Dup_x2, S!Has
  <2>2. ~S!IsCut(words, Len(words) - 1) /\ ~S!IsCut(words, Len(words) - 3)
    <3>1. 1 + 2 = 3
      OBVIOUS
    <3> QED
      BY <1>q, <2>1, <3>1
  <2>3. CASE S!Crash(2)
    BY <1>e, <2>1, <2>3
  <2>4. CASE S!IsWide(S!Val(2)) /\ S!Insert(1, 1)
    <3>0. Len(operands) >= 2 /\ 1 + 1 = 2
      BY <1>i, <2>4
    <3>1. Start(1) = Start(0) - 1
      <4>1. 1 <= Len(operands) /\ Start(1 - 1) = Start(0) - (1 - 1)
        BY <1>t, <2>1, <3>0
      <4> QED
        BY <1>p, <2>1, <2>2, <4>1
    <3>2. Start(2) = Start(0) - 3
      <4>1. 2 - 1 = 1 /\ 2 <= Len(operands)
        BY <1>t, <2>1, <3>0
      <4> QED
        BY <1>t, <1>w, <2>4, <4>1, <3>1
    <3> QED
      BY <1>d, <2>1, <2>4, <3>0, <3>1, <3>2
  <2>5. CASE ~S!IsWide(S!Val(2)) /\ S!Insert(1, 2)
    <3>0. Len(operands) >= 3 /\ 1 + 2 = 3
      BY <1>i, <2>5
    <3>1. Start(1) = Start(0) - 1
      <4>1. 1 <= Len(operands) /\ Start(1 - 1) = Start(0) - (1 - 1)
        BY <1>t, <2>1, <3>0
      <4> QED
        BY <1>p, <2>1, <2>2, <4>1
    <3>2. Start(2) = Start(0) - 2
      <4>1. 2 - 1 = 1 /\ 2 <= Len(operands)
        BY <1>t, <2>1, <3>0
      <4> QED
        BY <1>t, <1>w, <2>5, <4>1, <3>1
    <3>3. Start(3) = Start(0) - 3
      <4>1. 3 <= Len(operands) /\ Start(3 - 1) = Start(0) - (3 - 1)
        BY <1>t, <2>1, <3>0, <3>2
      <4> QED
        BY <1>p, <2>1, <2>2, <4>1
    <3> QED
      BY <1>d, <2>1, <2>5, <3>0, <3>1, <3>3
  <2> QED
    BY <1>5, <2>3, <2>4, <2>5 DEF S!Dup_x2
<1>6. CASE S!Dup2
  <2>1. operandsOut = "running" /\ Len(operands) >= 1 /\ S!JavaDup(2, 0)
    BY <1>6 DEF S!Dup2, S!Has
  <2>2. ~S!IsCut(words, Len(words) - 2)
    <3>1. 2 + 0 = 2
      OBVIOUS
    <3> QED
      BY <1>q, <2>1, <3>1
  <2>3. CASE S!Crash(1)
    BY <1>e, <2>1, <2>3
  <2>4. CASE S!IsWide(S!Val(1)) /\ S!Insert(1, 0)
    <3>0. Len(operands) >= 1 /\ 1 + 0 = 1
      BY <1>i, <2>4
    <3>1. Start(1) = Start(0) - 2
      <4>1. 1 - 1 = 0 /\ 1 <= Len(operands)
        BY <1>t, <2>1, <3>0
      <4> QED
        BY <1>t, <1>w, <2>4, <4>1
    <3> QED
      BY <1>d, <2>1, <2>4, <3>0, <3>1
  <2>5. CASE ~S!IsWide(S!Val(1)) /\ S!Insert(2, 0)
    <3>0. Len(operands) >= 2 /\ 2 + 0 = 2
      BY <1>i, <2>5
    <3>1. Start(1) = Start(0) - 1
      <4>1. 1 - 1 = 0 /\ 1 <= Len(operands)
        BY <1>t, <2>1, <3>0
      <4> QED
        BY <1>t, <1>w, <2>5, <4>1
    <3>2. Start(2) = Start(0) - 2
      <4>1. 2 <= Len(operands) /\ Start(2 - 1) = Start(0) - (2 - 1)
        BY <1>t, <2>1, <3>0, <3>1
      <4> QED
        BY <1>p, <2>1, <2>2, <4>1
    <3> QED
      BY <1>d, <2>1, <2>5, <3>0, <3>2
  <2> QED
    BY <1>6, <2>3, <2>4, <2>5 DEF S!Dup2
<1>7. CASE S!Dup2_x1
  <2>1. operandsOut = "running" /\ Len(operands) >= 2 /\ S!JavaDup(2, 1)
    BY <1>7 DEF S!Dup2_x1, S!Has
  <2>2. ~S!IsCut(words, Len(words) - 2) /\ ~S!IsCut(words, Len(words) - 3)
    <3>1. 2 + 1 = 3
      OBVIOUS
    <3> QED
      BY <1>q, <2>1, <3>1
  <2>3. CASE S!Crash(1)
    BY <1>e, <2>1, <2>3
  <2>4. CASE S!IsWide(S!Val(1)) /\ S!Insert(1, 1)
    <3>0. Len(operands) >= 2 /\ 1 + 1 = 2
      BY <1>i, <2>4
    <3>1. Start(1) = Start(0) - 2
      <4>1. 1 - 1 = 0 /\ 1 <= Len(operands)
        BY <1>t, <2>1, <3>0
      <4> QED
        BY <1>t, <1>w, <2>4, <4>1
    <3>2. Start(2) = Start(0) - 3
      <4>1. 2 <= Len(operands) /\ Start(2 - 1) = Start(0) - (3 - 1)
        BY <1>t, <2>1, <3>0, <3>1
      <4> QED
        BY <1>p, <2>1, <2>2, <4>1
    <3> QED
      BY <1>d, <2>1, <2>4, <3>0, <3>1, <3>2
  <2>5. CASE ~S!IsWide(S!Val(1)) /\ S!Insert(2, 1)
    <3>0. Len(operands) >= 3 /\ 2 + 1 = 3
      BY <1>i, <2>5
    <3>1. Start(1) = Start(0) - 1
      <4>1. 1 - 1 = 0 /\ 1 <= Len(operands)
        BY <1>t, <2>1, <3>0
      <4> QED
        BY <1>t, <1>w, <2>5, <4>1
    <3>2. Start(2) = Start(0) - 2
      <4>1. 2 <= Len(operands) /\ Start(2 - 1) = Start(0) - (2 - 1)
        BY <1>t, <2>1, <3>0, <3>1
      <4> QED
        BY <1>p, <2>1, <2>2, <4>1
    <3>3. Start(3) = Start(0) - 3
      <4>1. 3 <= Len(operands) /\ Start(3 - 1) = Start(0) - (3 - 1)
        BY <1>t, <2>1, <3>0, <3>2
      <4> QED
        BY <1>p, <2>1, <2>2, <4>1
    <3> QED
      BY <1>d, <2>1, <2>5, <3>0, <3>2, <3>3
  <2> QED
    BY <1>7, <2>3, <2>4, <2>5 DEF S!Dup2_x1
<1>8. CASE S!Dup2_x2
  <2>1. operandsOut = "running" /\ Len(operands) >= 2 /\ S!JavaDup(2, 2)
    BY <1>8 DEF S!Dup2_x2, S!Has
  <2>2. ~S!IsCut(words, Len(words) - 2) /\ ~S!IsCut(words, Len(words) - 4)
    <3>1. 2 + 2 = 4
      OBVIOUS
    <3> QED
      BY <1>q, <2>1, <3>1
  <2>3. CASE S!Crash(1)
    BY <1>e, <2>1, <2>3
  <2>4. CASE S!Crash(2)
    BY <1>e, <2>1, <2>4
  <2>5. CASE S!Crash(3)
    BY <1>e, <2>1, <2>5
  <2>6. CASE S!IsWide(S!Val(1)) /\ S!IsWide(S!Val(2)) /\ S!Insert(1, 1)
    <3>0. Len(operands) >= 2 /\ 1 + 1 = 2
      BY <1>i, <2>6
    <3>1. Start(1) = Start(0) - 2
      <4>1. 1 - 1 = 0 /\ 1 <= Len(operands)
        BY <1>t, <2>1, <3>0
      <4> QED
        BY <1>t, <1>w, <2>6, <4>1
    <3>2. Start(2) = Start(0) - 4
      <4>1. 2 - 1 = 1 /\ 2 <= Len(operands)
        BY <1>t, <2>1, <3>0
      <4> QED
        BY <1>t, <1>w, <2>6, <4>1, <3>1
    <3> QED
      BY <1>d, <2>1, <2>6, <3>0, <3>1, <3>2
  <2>7. CASE S!IsWide(S!Val(1)) /\ ~S!IsWide(S!Val(2)) /\ S!Insert(1, 2)
    <3>0. Len(operands) >= 3 /\ 1 + 2 = 3
      BY <1>i, <2>7
    <3>1. Start(1) = Start(0) - 2
      <4>1. 1 - 1 = 0 /\ 1 <= Len(operands)
        BY <1>t, <2>1, <3>0
      <4> QED
        BY <1>t, <1>w, <2>7, <4>1
    <3>2. Start(2) = Start(0) - 3
      <4>1. 2 - 1 = 1 /\ 2 <= Len(operands)
        BY <1>t, <2>1, <3>0
      <4> QED
        BY <1>t, <1>w, <2>7, <4>1, <3>1
    <3>3. Start(3) = Start(0) - 4
      <4>1. 3 <= Len(operands) /\ Start(3 - 1) = Start(0) - (4 - 1)
        BY <1>t, <2>1, <3>0, <3>2
      <4> QED
        BY <1>p, <2>1, <2>2, <4>1
    <3> QED
      BY <1>d, <2>1, <2>7, <3>0, <3>1, <3>3
  <2>8. CASE ~S!IsWide(S!Val(1)) /\ S!IsWide(S!Val(3)) /\ S!Insert(2, 1)
    <3>0. Len(operands) >= 3 /\ 2 + 1 = 3
      BY <1>i, <2>8
    <3>1. Start(1) = Start(0) - 1
      <4>1. 1 - 1 = 0 /\ 1 <= Len(operands)
        BY <1>t, <2>1, <3>0
      <4> QED
        BY <1>t, <1>w, <2>8, <4>1
    <3>2. Start(2) = Start(0) - 2
      <4>1. 2 <= Len(operands) /\ Start(2 - 1) = Start(0) - (2 - 1)
        BY <1>t, <2>1, <3>0, <3>1
      <4> QED
        BY <1>p, <2>1, <2>2, <4>1
    <3>3. Start(3) = Start(0) - 4
      <4>1. 3 - 1 = 2 /\ 3 <= Len(operands)
        BY <1>t, <2>1, <3>0
      <4> QED
        BY <1>t, <1>w, <2>8, <4>1, <3>2
    <3> QED
      BY <1>d, <2>1, <2>8, <3>0, <3>2, <3>3
  <2>9. CASE ~S!IsWide(S!Val(1)) /\ ~S!IsWide(S!Val(3)) /\ S!Insert(2, 2)
    <3>0. Len(operands) >= 4 /\ 2 + 2 = 4
      BY <1>i, <2>9
    <3>1. Start(1) = Start(0) - 1
      <4>1. 1 - 1 = 0 /\ 1 <= Len(operands)
        BY <1>t, <2>1, <3>0
      <4> QED
        BY <1>t, <1>w, <2>9, <4>1
    <3>2. Start(2) = Start(0) - 2
      <4>1. 2 <= Len(operands) /\ Start(2 - 1) = Start(0) - (2 - 1)
        BY <1>t, <2>1, <3>0, <3>1
      <4> QED
        BY <1>p, <2>1, <2>2, <4>1
    <3>3. Start(3) = Start(0) - 3
      <4>1. 3 - 1 = 2 /\ 3 <= Len(operands)
        BY <1>t, <2>1, <3>0
      <4> QED
        BY <1>t, <1>w, <2>9, <4>1, <3>2
    <3>4. Start(4) = Start(0) - 4
      <4>1. 4 <= Len(operands) /\ Start(4 - 1) = Start(0) - (4 - 1)
        BY <1>t, <2>1, <3>0, <3>3
      <4> QED
        BY <1>p, <2>1, <2>2, <4>1
    <3> QED
      BY <1>d, <2>1, <2>9, <3>0, <3>2, <3>4
  <2> QED
    BY <1>8, <2>3, <2>4, <2>5, <2>6, <2>7, <2>8, <2>9 DEF S!Dup2_x2
<1>9. CASE UNCHANGED sVars
  BY <1>9 DEF sVars, S!IInv, S!TypeOK, S!SameWords
<1> QED
  BY <1>1, <1>2, <1>3, <1>4, <1>5, <1>6, <1>7, <1>8, <1>9, PushKeeps DEF S!Next

-----------------------------------------------------------------------------
(* Locals, operands, fields and elements.                                       *)

FrameSet == [locals : [1 .. MaxLocals -> F!SlotSet], ops : Seq(F!SlotSet)]

\* The slots of the stack frames.
Held(fs) == UNION {F!ToSet(fs[i].locals) \cup F!ToSet(fs[i].ops) : i \in 1 .. Len(fs)}

\* What the engine would read in s if the boxes held bs.
Reads(s, bs) == IF s.oop \in AllBoxes THEN bs[s.oop] ELSE s.oop

\* No location but the array's has the box of an element.
Own(fs, h) ==
  \A c \in F!Arrays : h[c].oop \in AllBoxes =>
    /\ \A d \in F!Cells : d # c => h[d].oop # h[c].oop
    /\ \A s \in Held(fs) : s.oop # h[c].oop

\* What an instruction leaves in a location: what another one had that is no element, a
\* reference, or a box of its own.
Moved(s) ==
  \E o \in Held(frames) \cup {heap[f] : f \in F!Fields} : s.oop = o.oop /\ s.java \in {o.java, Unset}
IsRef(s) == s.oop \in F!Refs /\ s.java \in {s.oop, Unset}
IsNew(s, bs) == F!FreeBoxes # {} /\ s.oop = F!Fresh /\ s.java = bs[F!Fresh] /\ s.java \in F!Numbers

LEMMA FramesConstants ==
  /\ F!Refs \cap AllBoxes = {} /\ F!Refs \cap F!Numbers = {} /\ Unset \notin F!Numbers
  /\ NoBox \notin F!Numbers /\ Unset \notin F!Refs /\ Null \in F!Refs /\ Obj \in F!Refs /\ Null # Obj
  /\ MaxLocals \in Nat /\ MaxFrames \in Nat /\ MaxOps \in Nat /\ Steps \in Nat /\ ShortForms \in Nat /\ MaxFrames > 0
  /\ \A v \in Ints : v \in Int /\ F!Number("int", v) \in F!Numbers
  /\ -1 \in Ints /\ 0 \in Ints /\ 1 \in Ints /\ Literals \subseteq F!Numbers /\ 1 .. 4 \subseteq AllBoxes
<1>1. /\ Null # Obj /\ 1 .. 4 \subseteq AllBoxes /\ F!Refs \cap AllBoxes = {}
      /\ (F!Refs \cup {Unset, NoBox}) \cap F!Numbers = {} /\ Unset \notin F!Refs
      /\ {ShortForms, MaxLocals, MaxFrames, MaxOps, Steps} \subseteq Nat /\ MaxFrames > 0
      /\ F!Least(Ints) \in Int /\ F!Greatest(Ints) \in Int /\ Ints = F!Least(Ints) .. F!Greatest(Ints)
      /\ {-1, 0, 1} \subseteq Ints /\ Literals \subseteq F!Numbers
  BY InstructionsAssumption DEF F!FramesAssumption
<1>2. \A v \in Ints : F!Number("int", v) \in F!Numbers
  BY DEF F!Numbers
<1>3. Null \in F!Refs /\ Obj \in F!Refs
  BY DEF F!Refs
<1>4. \A v \in Ints : v \in Int
  BY <1>1
<1> QED
  BY <1>1, <1>2, <1>3, <1>4

LEMMA NumberIs ==
  ASSUME NEW n \in F!Numbers
  PROVE  \/ n.type = "int" /\ n.val \in Ints /\ n = F!Number("int", n.val) /\ ~F!IsWide(n)
         \/ n.type = "long" /\ n.val \in Longs /\ n = F!Number("long", n.val) /\ F!IsWide(n)
<1>1. CASE n \in {F!Number("int", v) : v \in Ints}
  <2>1. PICK v \in Ints : n = [type |-> "int", val |-> v]
    BY <1>1 DEF F!Number
  <2>2. n.type = "int" /\ n.val = v
    BY <2>1
  <2>3. ~F!IsWide(n)
    BY <2>2 DEF F!IsWide, F!Number
  <2> QED
    BY <2>1, <2>2, <2>3 DEF F!Number
<1>2. CASE n \in {F!Number("long", v) : v \in Longs}
  <2>1. PICK v \in Longs : n = [type |-> "long", val |-> v]
    BY <1>2 DEF F!Number
  <2> QED
    BY <1>2, <2>1 DEF F!Number, F!IsWide
<1> QED
  BY <1>1, <1>2 DEF F!Numbers

LEMMA SlotsAre ==
  ASSUME NEW fs, NEW h
  PROVE  F!Slots(fs, h) = Held(fs) \cup {h[c] : c \in F!Cells}
<1>1. UNION {F!ToSet(fs[i].locals) \cup F!ToSet(fs[i].ops) : i \in 1 .. Len(fs)} = Held(fs)
  BY DEF Held
<1> QED
  BY <1>1 DEF F!Slots

LEMMA HeldIs ==
  ASSUME NEW fs \in Seq(FrameSet), NEW s
  PROVE  s \in Held(fs) <=>
           \E k \in 1 .. Len(fs) : \/ \E j \in 1 .. MaxLocals : s = fs[k].locals[j]
                                   \/ \E j \in 1 .. Len(fs[k].ops) : s = fs[k].ops[j]
<1>1. ASSUME NEW k \in 1 .. Len(fs)
      PROVE  DOMAIN fs[k].locals = 1 .. MaxLocals /\ DOMAIN fs[k].ops = 1 .. Len(fs[k].ops)
  <2>1. fs[k] \in FrameSet
    BY ElementOfSeq
  <2> QED
    BY <2>1 DEF FrameSet
<1>2. s \in Held(fs) <=> \E k \in 1 .. Len(fs) : s \in F!ToSet(fs[k].locals) \cup F!ToSet(fs[k].ops)
  BY DEF Held
<1> QED
  BY <1>1, <1>2 DEF F!ToSet

LEMMA HeldOop ==
  ASSUME NEW fs \in Seq(FrameSet), NEW b
  PROVE  (\E s \in Held(fs) : s.oop = b) <=>
           \E k \in 1 .. Len(fs) : \/ \E j \in 1 .. MaxLocals : fs[k].locals[j].oop = b
                                   \/ \E j \in 1 .. Len(fs[k].ops) : fs[k].ops[j].oop = b
<1>1. \A s : s \in Held(fs) <=>
        \E k \in 1 .. Len(fs) : \/ \E j \in 1 .. MaxLocals : s = fs[k].locals[j]
                                \/ \E j \in 1 .. Len(fs[k].ops) : s = fs[k].ops[j]
  BY HeldIs
<1>2. ASSUME NEW s \in Held(fs), s.oop = b
      PROVE  \E k \in 1 .. Len(fs) : \/ \E j \in 1 .. MaxLocals : fs[k].locals[j].oop = b
                                     \/ \E j \in 1 .. Len(fs[k].ops) : fs[k].ops[j].oop = b
  <2>1. PICK k \in 1 .. Len(fs) : \/ \E j \in 1 .. MaxLocals : s = fs[k].locals[j]
                                 \/ \E j \in 1 .. Len(fs[k].ops) : s = fs[k].ops[j]
    BY <1>1
  <2> QED
    BY <1>2, <2>1
<1>3. ASSUME NEW k \in 1 .. Len(fs),
             \/ \E j \in 1 .. MaxLocals : fs[k].locals[j].oop = b
             \/ \E j \in 1 .. Len(fs[k].ops) : fs[k].ops[j].oop = b
      PROVE  \E s \in Held(fs) : s.oop = b
  <2>1. \A j \in 1 .. MaxLocals : fs[k].locals[j] \in Held(fs)
    BY <1>1
  <2>2. \A j \in 1 .. Len(fs[k].ops) : fs[k].ops[j] \in Held(fs)
    BY <1>1
  <2> QED
    BY <1>3, <2>1, <2>2
<1> QED
  BY <1>2, <1>3

LEMMA FramesTypes ==
  ASSUME F!IInv
  PROVE  /\ frames \in Seq(FrameSet) /\ heap \in [F!Cells -> F!SlotSet] /\ boxes \in [AllBoxes -> F!Numbers \cup {NoBox}]
         /\ Len(frames) \in 1 .. MaxFrames /\ frames[F!Here] \in FrameSet /\ F!Here \in 1 .. Len(frames)
         /\ F!Locals \in [1 .. MaxLocals -> F!SlotSet] /\ F!Ops \in Seq(F!SlotSet)
         /\ Len(F!Ops) \in Nat /\ Len(F!Ops) <= MaxOps
         /\ \A j \in 1 .. Len(F!Ops) : F!Ops[j] \in Held(frames) /\ F!Ops[j].java # Unset
         /\ \A j \in 1 .. MaxLocals : F!Locals[j] \in Held(frames)
<1>1. /\ frames \in Seq(FrameSet) /\ heap \in [F!Cells -> F!SlotSet] /\ boxes \in [AllBoxes -> F!Numbers \cup {NoBox}]
      /\ Len(frames) \in 1 .. MaxFrames /\ \A k \in 1 .. Len(frames) : Len(frames[k].ops) <= MaxOps
      /\ \A k \in 1 .. Len(frames) : \A j \in 1 .. Len(frames[k].ops) : frames[k].ops[j].java # Unset
  BY DEF F!IInv, F!TypeOK, F!SetInv, FrameSet
<1>2. F!Here \in 1 .. Len(frames) /\ F!Here = Len(frames)
  BY <1>1, FramesConstants DEF F!Here
<1>3. frames[F!Here] \in FrameSet
  BY <1>1, <1>2, ElementOfSeq
<1>4. F!Locals = frames[F!Here].locals /\ F!Ops = frames[F!Here].ops
  BY DEF F!Locals, F!Ops
<1>5. F!Locals \in [1 .. MaxLocals -> F!SlotSet] /\ F!Ops \in Seq(F!SlotSet)
  BY <1>3, <1>4 DEF FrameSet
<1>6. \A j \in 1 .. Len(F!Ops) : F!Ops[j] \in Held(frames) /\ F!Ops[j].java # Unset
  BY <1>1, <1>2, <1>4, HeldIs
<1>7. \A j \in 1 .. MaxLocals : F!Locals[j] \in Held(frames)
  BY <1>1, <1>2, <1>4, HeldIs
<1> QED
  BY <1>1, <1>2, <1>3, <1>4, <1>5, <1>6, <1>7

LEMMA OwnIs ==
  ASSUME NEW fs \in Seq(FrameSet), frames = fs
  PROVE  F!ElementsOwnTheirBox <=> Own(fs, heap)
<1>1. ASSUME NEW c \in F!Arrays
      PROVE  ~F!CellIsShared(c) <=> /\ \A d \in F!Cells : d # c => heap[d].oop # heap[c].oop
                                    /\ \A s \in Held(fs) : s.oop # heap[c].oop
  <2>1. F!InLocals(heap[c].oop, <<>>) <=>
          \E k \in 1 .. Len(fs) : \E j \in 1 .. MaxLocals : fs[k].locals[j].oop = heap[c].oop
    <3>1. \A k, j : <<k, j>> # <<>>
      OBVIOUS
    <3> QED
      BY <3>1 DEF F!InLocals
  <2>2. F!InOps(heap[c].oop) <=>
          \E k \in 1 .. Len(fs) : \E j \in 1 .. Len(fs[k].ops) : fs[k].ops[j].oop = heap[c].oop
    BY DEF F!InOps
  <2>3. (\E s \in Held(fs) : s.oop = heap[c].oop) <=> F!InLocals(heap[c].oop, <<>>) \/ F!InOps(heap[c].oop)
    BY <2>1, <2>2, HeldIs
  <2>4. F!InCells(heap[c].oop, F!Cells \ {c}) <=> \E d \in F!Cells : d # c /\ heap[d].oop = heap[c].oop
    BY DEF F!InCells
  <2> QED
    BY <2>3, <2>4 DEF F!CellIsShared
<1> QED
  BY <1>1 DEF F!ElementsOwnTheirBox, F!IsNumber, Own

\* AllBoxes are kept for what points to them.
LEMMA UpdateKeeps ==
  ASSUME F!IInv, steps < Steps, NEW fs \in Seq(FrameSet), NEW h \in [F!Cells -> F!SlotSet], NEW bs,
         F!Update(fs, h, bs), Len(fs) \in 1 .. MaxFrames,
         \A k \in 1 .. Len(fs) : Len(fs[k].ops) <= MaxOps,
         \A k \in 1 .. Len(fs) : \A j \in 1 .. Len(fs[k].ops) : fs[k].ops[j].java # Unset,
         \A c \in F!Cells : h[c].java \in F!ElementType(c),
         alias' \in BOOLEAN, fate' \in {"running", "abort"},
         \A s \in F!Slots(fs, h) : s.oop \in AllBoxes => bs[s.oop] \in F!Numbers,
         ~alias' => \A s \in F!Slots(fs, h) : s.java # Unset => Reads(s, bs) = s.java,
         Own(fs, h)
  PROVE  F!IInv'
<1>1. /\ frames' = fs /\ heap' = h /\ steps' = steps + 1
      /\ boxes' = [b \in AllBoxes |-> IF b \in {s.oop : s \in F!Slots(fs, h)} THEN bs[b] ELSE NoBox]
  BY DEF F!Update
<1>2. \A s \in F!Slots(fs, h) : s.oop \in AllBoxes => boxes'[s.oop] = bs[s.oop]
  BY <1>1
<1>3. boxes' \in [AllBoxes -> F!Numbers \cup {NoBox}]
  <2>1. \A b \in AllBoxes : b \in {s.oop : s \in F!Slots(fs, h)} => bs[b] \in F!Numbers
    OBVIOUS
  <2> QED
    BY <1>1, <2>1
<1>4. steps' \in 0 .. Steps
  BY <1>1, FramesConstants DEF F!IInv, F!TypeOK
<1>5. F!TypeOK'
  BY <1>1, <1>3, <1>4 DEF F!TypeOK, FrameSet
<1>6. F!SetInv'
  BY <1>1 DEF F!SetInv, F!ElementType
<1>7. F!Slots(fs, h) = F!Slots(frames, heap)'
  BY <1>1 DEF F!Slots
<1>8. F!UsedInv'
  BY <1>2, <1>7 DEF F!UsedInv, F!IsNumber
<1>9. F!SameValues'
  BY <1>2, <1>7 DEF F!SameValues, F!Read, F!IsNumber, Reads
<1>10. F!ElementsOwnTheirBox'
  <2>1. ASSUME NEW c \in F!Arrays
        PROVE  (~F!CellIsShared(c))' <=> /\ \A d \in F!Cells : d # c => h[d].oop # h[c].oop
                                         /\ \A s \in Held(fs) : s.oop # h[c].oop
    <3>1. F!InLocals(heap[c].oop, <<>>)' <=>
            \E k \in 1 .. Len(fs) : \E j \in 1 .. MaxLocals : fs[k].locals[j].oop = h[c].oop
      <4>1. \A k, j : <<k, j>> # <<>>
        OBVIOUS
      <4> QED
        BY <1>1, <4>1 DEF F!InLocals
    <3>2. F!InOps(heap[c].oop)' <=>
            \E k \in 1 .. Len(fs) : \E j \in 1 .. Len(fs[k].ops) : fs[k].ops[j].oop = h[c].oop
      BY <1>1 DEF F!InOps
    <3>3. (\E s \in Held(fs) : s.oop = h[c].oop) <=> F!InLocals(heap[c].oop, <<>>)' \/ F!InOps(heap[c].oop)'
      <4>1. (\E s \in Held(fs) : s.oop = h[c].oop) <=>
              \E k \in 1 .. Len(fs) : \/ \E j \in 1 .. MaxLocals : fs[k].locals[j].oop = h[c].oop
                                      \/ \E j \in 1 .. Len(fs[k].ops) : fs[k].ops[j].oop = h[c].oop
        BY HeldOop
      <4> QED
        BY <3>1, <3>2, <4>1
    <3>4. F!InCells(heap[c].oop, F!Cells \ {c})' <=> \E d \in F!Cells : d # c /\ h[d].oop = h[c].oop
      BY <1>1 DEF F!InCells
    <3> QED
      BY <3>3, <3>4 DEF F!CellIsShared
  <2> QED
    BY <1>1, <2>1 DEF F!ElementsOwnTheirBox, F!IsNumber, Own
<1> QED
  BY <1>5, <1>6, <1>8, <1>9, <1>10 DEF F!IInv

\* What the invariant says of locations before an instruction.
LEMMA BeforeStep ==
  ASSUME F!IInv, F!Executing
  PROVE  /\ steps < Steps /\ alias = FALSE /\ fate = "running"
         /\ \A s \in Held(frames) \cup {heap[c] : c \in F!Cells} :
              /\ s \in F!SlotSet
              /\ s.oop \in AllBoxes => boxes[s.oop] \in F!Numbers
              /\ s.java # Unset => Reads(s, boxes) = s.java
              /\ F!FreeBoxes # {} => s.oop # F!Fresh
         /\ F!FreeBoxes # {} => F!Fresh \in AllBoxes /\ boxes[F!Fresh] = NoBox
         /\ Own(frames, heap)
         /\ \A c \in F!Cells : heap[c].java \in F!ElementType(c) /\ heap[c].java # Unset
<1>1. /\ steps < Steps /\ alias = FALSE /\ fate = "running"
      /\ \A s \in F!Slots(frames, heap) : s.oop \in AllBoxes => boxes[s.oop] \in F!Numbers
      /\ \A s \in F!Slots(frames, heap) : s.java # Unset => Reads(s, boxes) = s.java
  BY DEF F!IInv, F!Executing, F!TypeOK, F!UsedInv, F!SameValues, F!IsNumber, F!Read, Reads
<1>2. F!FreeBoxes # {} => F!Fresh \in AllBoxes /\ boxes[F!Fresh] = NoBox
  BY DEF F!Fresh, F!FreeBoxes
<1>3. \A s \in F!Slots(frames, heap) : F!FreeBoxes # {} => s.oop # F!Fresh
  BY <1>1, <1>2, FramesConstants
<1>4. \A s \in F!Slots(frames, heap) : s \in F!SlotSet
  <2>1. ASSUME NEW s \in Held(frames) PROVE s \in F!SlotSet
    <3>1. frames \in Seq(FrameSet)
      BY FramesTypes
    <3>2. PICK k \in 1 .. Len(frames) : \/ \E j \in 1 .. MaxLocals : s = frames[k].locals[j]
                                        \/ \E j \in 1 .. Len(frames[k].ops) : s = frames[k].ops[j]
      BY <3>1, HeldIs
    <3>3. frames[k] \in FrameSet
      BY <3>1, ElementOfSeq
    <3>4. frames[k].locals \in [1 .. MaxLocals -> F!SlotSet] /\ frames[k].ops \in Seq(F!SlotSet)
      BY <3>3 DEF FrameSet
    <3> QED
      BY <3>2, <3>4, ElementOfSeq
  <2> QED
    BY <2>1, SlotsAre, FramesTypes
<1>5. Own(frames, heap)
  BY FramesTypes, OwnIs DEF F!IInv
<1>6. \A c \in F!Cells : heap[c].java \in F!ElementType(c) /\ heap[c].java # Unset
  BY FramesConstants DEF F!IInv, F!SetInv, F!ElementType
<1> QED
  BY <1>1, <1>2, <1>3, <1>4, <1>5, <1>6, SlotsAre

\* An instruction that moves, copies and makes values changes at most one field or element c.
LEMMA MovesKeep ==
  ASSUME F!IInv, F!Executing, F!Goes, NEW fs \in Seq(FrameSet), NEW h \in [F!Cells -> F!SlotSet], NEW bs,
         F!Update(fs, h, bs), Len(fs) \in 1 .. MaxFrames,
         \A k \in 1 .. Len(fs) : Len(fs[k].ops) <= MaxOps,
         \A k \in 1 .. Len(fs) : \A j \in 1 .. Len(fs[k].ops) : fs[k].ops[j].java # Unset,
         NEW c \in F!Cells, h[c].java \in F!ElementType(c),
         \A d \in F!Cells : d # c => h[d] = heap[d],
         \A b \in AllBoxes : boxes[b] # NoBox => bs[b] = boxes[b],
         \A s \in Held(fs) : Moved(s) \/ IsRef(s) \/ (IsNew(s, bs) /\ h[c] = heap[c]),
         h[c] = heap[c] \/ IsRef(h[c]) \/ IsNew(h[c], bs) \/ (c \in F!Fields /\ Moved(h[c]))
  PROVE  F!IInv'
<1>1. /\ steps < Steps /\ alias' = FALSE /\ fate' = "running"
      /\ \A s \in Held(frames) \cup {heap[d] : d \in F!Cells} :
              /\ s.oop \in AllBoxes => boxes[s.oop] \in F!Numbers
              /\ s.java # Unset => Reads(s, boxes) = s.java
              /\ F!FreeBoxes # {} => s.oop # F!Fresh
      /\ Own(frames, heap)
      /\ \A d \in F!Cells : heap[d].java \in F!ElementType(d)
      /\ F!FreeBoxes # {} => F!Fresh \in AllBoxes
  BY BeforeStep DEF F!Goes
<1>f. F!Fields \subseteq F!Cells /\ F!Arrays \subseteq F!Cells /\ F!Fields \cap F!Arrays = {}
  BY DEF F!Cells, F!Fields, F!Arrays, F!ByteArrays
<1>2. ASSUME NEW s, s \in Held(frames) \cup {heap[d] : d \in F!Cells} \/ Moved(s) \/ IsRef(s) \/ IsNew(s, bs)
      PROVE  /\ s.oop \in AllBoxes => bs[s.oop] \in F!Numbers
             /\ s.java # Unset => Reads(s, bs) = s.java
  <2>1. CASE s \in Held(frames) \cup {heap[d] : d \in F!Cells} \/ Moved(s)
    <3>1. PICK o \in Held(frames) \cup {heap[d] : d \in F!Cells} : s.oop = o.oop /\ s.java \in {o.java, Unset}
      BY <2>1, <1>f DEF Moved
    <3>2. o.oop \in AllBoxes => boxes[o.oop] \in F!Numbers /\ bs[o.oop] = boxes[o.oop]
      BY <1>1, FramesConstants
    <3> QED
      BY <1>1, <3>1, <3>2 DEF Reads
  <2>2. CASE IsRef(s)
    BY <2>2, FramesConstants DEF IsRef, Reads
  <2>3. CASE IsNew(s, bs)
    BY <2>3, <1>1 DEF IsNew, Reads
  <2> QED
    BY <1>2, <2>1, <2>2, <2>3
<1>3. ASSUME NEW s \in F!Slots(fs, h)
      PROVE  s \in Held(frames) \cup {heap[d] : d \in F!Cells} \/ Moved(s) \/ IsRef(s) \/ IsNew(s, bs)
  BY <1>3, SlotsAre
<1>4. Own(fs, h)
  <2> SUFFICES ASSUME NEW a \in F!Arrays, h[a].oop \in AllBoxes
               PROVE  /\ \A d \in F!Cells : d # a => h[d].oop # h[a].oop
                      /\ \A s \in Held(fs) : s.oop # h[a].oop
    BY DEF Own
  <2>1. \A s : IsRef(s) => s.oop \notin AllBoxes
    BY FramesConstants DEF IsRef
  <2>2. \A s : IsNew(s, bs) => s.oop = F!Fresh /\ F!FreeBoxes # {}
    BY DEF IsNew
  <2>3. CASE h[a] = heap[a]
    <3>1. /\ \A d \in F!Cells : d # a => heap[d].oop # h[a].oop
          /\ \A s \in Held(frames) : s.oop # h[a].oop
      BY <1>1, <2>3 DEF Own
    <3>2. \A s : Moved(s) => s.oop # h[a].oop
      BY <3>1, <1>f DEF Moved
    <3>3. F!FreeBoxes # {} => F!Fresh # h[a].oop
      BY <1>1, <1>f, <2>3
    <3> QED
      BY <2>1, <2>2, <3>1, <3>2, <3>3
  <2>4. CASE h[a] # heap[a]
    <3>1. a = c /\ IsNew(h[a], bs)
      BY <2>1, <2>4, <1>f
    <3>2. h[a].oop = F!Fresh /\ F!FreeBoxes # {}
      BY <2>2, <3>1
    <3>3. \A s : Moved(s) => s.oop # F!Fresh
      BY <1>1, <1>f, <3>2 DEF Moved
    <3> QED
      BY <1>1, <2>1, <2>4, <3>1, <3>2, <3>3
  <2> QED
    BY <2>3, <2>4
<1>5. \A d \in F!Cells : h[d].java \in F!ElementType(d)
  BY <1>1
<1>6. /\ \A s \in F!Slots(fs, h) : s.oop \in AllBoxes => bs[s.oop] \in F!Numbers
      /\ \A s \in F!Slots(fs, h) : s.java # Unset => Reads(s, bs) = s.java
  BY <1>2, <1>3
<1> QED
  BY <1>1, <1>4, <1>5, <1>6, UpdateKeeps

\* Other operands of the running method.
LEMMA WithOpsIs ==
  ASSUME F!IInv, NEW o \in Seq(F!SlotSet)
  PROVE  /\ F!WithOps(o) \in Seq(FrameSet) /\ Len(F!WithOps(o)) = Len(frames)
         /\ \A k \in 1 .. Len(frames) : k # F!Here => F!WithOps(o)[k] = frames[k]
         /\ F!WithOps(o)[F!Here] = [locals |-> F!Locals, ops |-> o]
         /\ \A s \in Held(F!WithOps(o)) : s \in Held(frames) \/ \E j \in 1 .. Len(o) : s = o[j]
<1>1. /\ frames \in Seq(FrameSet) /\ frames[F!Here] \in FrameSet /\ F!Here \in 1 .. Len(frames)
      /\ F!Locals = frames[F!Here].locals /\ F!Locals \in [1 .. MaxLocals -> F!SlotSet]
  BY FramesTypes DEF F!Locals
<1>2. [frames[F!Here] EXCEPT !.ops = o] = [locals |-> F!Locals, ops |-> o]
  <2>1. ASSUME NEW f \in FrameSet PROVE [f EXCEPT !.ops = o] = [locals |-> f.locals, ops |-> o]
    BY DEF FrameSet
  <2> QED
    BY <1>1, <2>1
<1>3. [locals |-> F!Locals, ops |-> o] \in FrameSet
  BY <1>1 DEF FrameSet
<1>4. F!WithOps(o) = [frames EXCEPT ![F!Here] = [locals |-> F!Locals, ops |-> o]]
  BY <1>2 DEF F!WithOps
<1>5. F!WithOps(o) \in Seq(FrameSet) /\ Len(F!WithOps(o)) = Len(frames)
  BY <1>1, <1>3, <1>4, ExceptSeq
<1>6. /\ \A k \in 1 .. Len(frames) : k # F!Here => F!WithOps(o)[k] = frames[k]
      /\ F!WithOps(o)[F!Here] = [locals |-> F!Locals, ops |-> o]
  BY <1>1, <1>4
<1>7. ASSUME NEW s \in Held(F!WithOps(o)) PROVE s \in Held(frames) \/ \E j \in 1 .. Len(o) : s = o[j]
  <2>1. PICK k \in 1 .. Len(frames) : \/ \E j \in 1 .. MaxLocals : s = F!WithOps(o)[k].locals[j]
                                      \/ \E j \in 1 .. Len(F!WithOps(o)[k].ops) : s = F!WithOps(o)[k].ops[j]
    BY <1>5, HeldIs
  <2>2. CASE k # F!Here
    BY <1>1, <1>6, <2>1, <2>2, HeldIs
  <2>3. CASE k = F!Here
    <3>1. F!WithOps(o)[k].locals = F!Locals /\ F!WithOps(o)[k].ops = o
      BY <1>6, <2>3
    <3>2. \A j \in 1 .. MaxLocals : F!Locals[j] \in Held(frames)
      BY FramesTypes
    <3> QED
      BY <2>1, <3>1, <3>2
  <2> QED
    BY <2>2, <2>3
<1> QED
  BY <1>5, <1>6, <1>7

LEMMA PoppedIs ==
  ASSUME F!IInv, NEW n \in Nat, n <= Len(F!Ops)
  PROVE  /\ F!Popped(n) \in Seq(F!SlotSet) /\ Len(F!Popped(n)) = Len(F!Ops) - n
         /\ \A j \in 1 .. Len(F!Popped(n)) : F!Popped(n)[j] = F!Ops[j]
BY FramesTypes, Prefix DEF F!Popped

\* The n-th operand.
LEMMA TopIs ==
  ASSUME F!IInv, F!Executing, NEW n \in 1 .. Len(F!Ops)
  PROVE  /\ F!Top(n) \in Held(frames) /\ F!Top(n) \in F!SlotSet /\ F!Top(n).java # Unset /\ Moved(F!Top(n))
         /\ Reads(F!Top(n), boxes) = F!Top(n).java /\ F!Read(F!Top(n)) = F!Top(n).java
<1>1. Len(F!Ops) - n + 1 \in 1 .. Len(F!Ops)
  BY FramesTypes
<1>2. F!Top(n) \in Held(frames) /\ F!Top(n).java # Unset
  BY <1>1, FramesTypes DEF F!Top
<1> QED
  BY <1>2, BeforeStep DEF Moved, Reads, F!Read, F!IsNumber

\* A value has a box; a reference is its own.
LEMMA KindIs ==
  ASSUME F!IInv, F!Executing, NEW s \in Held(frames) \cup {heap[c] : c \in F!Cells}, s.java # Unset
  PROVE  /\ s.java \in F!Numbers => s.oop \in AllBoxes /\ boxes[s.oop] = s.java
         /\ s.java \in F!Refs => IsRef(s) /\ s.oop = s.java
         /\ s.java \in F!Numbers \cup F!Refs
         /\ F!IsNumber(s) <=> s.java \in F!Numbers
<1>1. /\ s \in F!SlotSet
      /\ s.oop \in AllBoxes => boxes[s.oop] \in F!Numbers
      /\ Reads(s, boxes) = s.java
  BY BeforeStep
<1>2. s.oop \in AllBoxes \cup F!Refs
  BY <1>1 DEF F!SlotSet
<1> QED
  BY <1>1, <1>2, FramesConstants DEF Reads, IsRef, F!IsNumber

\* A copy, in boxes where it has been made.
LEMMA CopyIs ==
  ASSUME F!IInv, F!Executing, F!FreeBoxes # {},
         NEW s \in Held(frames) \cup {heap[c] : c \in F!Cells}, s.java # Unset
  PROVE  /\ F!CopyOf(s) \in F!SlotSet /\ F!CopyOf(s).java = s.java
         /\ IsRef(F!CopyOf(s)) \/ IsNew(F!CopyOf(s), F!WithCopy(s))
         /\ \A b \in AllBoxes : boxes[b] # NoBox => F!WithCopy(s)[b] = boxes[b]
         /\ F!IsNumber(s) => F!CopyOf(s).oop = F!Fresh /\ F!WithCopy(s)[F!Fresh] = s.java
<1>1. F!Fresh \in AllBoxes /\ boxes[F!Fresh] = NoBox /\ s \in F!SlotSet
  BY BeforeStep
<1>2. CASE s.java \in F!Numbers
  <2>1. F!IsNumber(s) /\ boxes[s.oop] = s.java
    BY <1>2, KindIs
  <2>2. F!CopyOf(s) = [oop |-> F!Fresh, java |-> s.java] /\ F!WithCopy(s) = [boxes EXCEPT ![F!Fresh] = boxes[s.oop]]
    BY <2>1 DEF F!CopyOf, F!WithCopy, F!Slot
  <2>3. F!WithCopy(s)[F!Fresh] = s.java /\ \A b \in AllBoxes : boxes[b] # NoBox => F!WithCopy(s)[b] = boxes[b]
    BY <1>1, <2>1, <2>2, FramesTypes
  <2> QED
    BY <1>1, <1>2, <2>2, <2>3 DEF IsNew, F!SlotSet
<1>3. CASE s.java \in F!Refs
  <2>1. ~F!IsNumber(s) /\ IsRef(s)
    BY <1>3, KindIs, FramesConstants
  <2>2. F!CopyOf(s) = s /\ F!WithCopy(s) = boxes
    BY <2>1 DEF F!CopyOf, F!WithCopy
  <2> QED
    BY <1>1, <2>1, <2>2
<1> QED
  BY <1>2, <1>3, KindIs

\* An instruction that pops operands, pushes at most one and changes at most one field or
\* element.
LEMMA OpsKeep ==
  ASSUME F!IInv, F!Executing, F!Goes, NEW o \in Seq(F!SlotSet), NEW h \in [F!Cells -> F!SlotSet], NEW bs,
         F!Update(F!WithOps(o), h, bs), Len(o) <= MaxOps,
         NEW c \in F!Cells, h[c].java \in F!ElementType(c),
         \A d \in F!Cells : d # c => h[d] = heap[d],
         \A b \in AllBoxes : boxes[b] # NoBox => bs[b] = boxes[b],
         \A j \in 1 .. Len(o) : o[j].java # Unset,
         \A j \in 1 .. Len(o) : o[j] \in Held(frames) \/ Moved(o[j]) \/ IsRef(o[j]) \/ (IsNew(o[j], bs) /\ h[c] = heap[c]),
         h[c] = heap[c] \/ IsRef(h[c]) \/ IsNew(h[c], bs) \/ (c \in F!Fields /\ Moved(h[c]))
  PROVE  F!IInv'
<1>1. /\ F!WithOps(o) \in Seq(FrameSet) /\ Len(F!WithOps(o)) = Len(frames)
      /\ \A k \in 1 .. Len(frames) : k # F!Here => F!WithOps(o)[k] = frames[k]
      /\ F!WithOps(o)[F!Here] = [locals |-> F!Locals, ops |-> o]
      /\ \A s \in Held(F!WithOps(o)) : s \in Held(frames) \/ \E j \in 1 .. Len(o) : s = o[j]
  BY WithOpsIs
<1>2. Len(F!WithOps(o)) \in 1 .. MaxFrames
  BY <1>1, FramesTypes
<1>3. ASSUME NEW k \in 1 .. Len(F!WithOps(o))
      PROVE  /\ Len(F!WithOps(o)[k].ops) <= MaxOps
             /\ \A j \in 1 .. Len(F!WithOps(o)[k].ops) : F!WithOps(o)[k].ops[j].java # Unset
  <2>1. CASE k # F!Here
    <3>1. k \in 1 .. Len(frames) /\ F!WithOps(o)[k] = frames[k]
      BY <1>1, <2>1
    <3>2. Len(frames[k].ops) <= MaxOps /\ \A j \in 1 .. Len(frames[k].ops) : frames[k].ops[j].java # Unset
      BY <3>1 DEF F!IInv, F!TypeOK, F!SetInv
    <3> QED
      BY <3>1, <3>2
  <2>2. CASE k = F!Here
    <3>1. F!WithOps(o)[k].ops = o
      BY <1>1, <2>2
    <3> QED
      BY <3>1
  <2> QED
    BY <2>1, <2>2
<1>4. ASSUME NEW s \in Held(F!WithOps(o))
      PROVE  Moved(s) \/ IsRef(s) \/ (IsNew(s, bs) /\ h[c] = heap[c])
  <2>1. CASE s \in Held(frames)
    BY <2>1 DEF Moved
  <2>2. CASE \E j \in 1 .. Len(o) : s = o[j]
    BY <2>2 DEF Moved
  <2> QED
    BY <1>1, <2>1, <2>2
<1> DEFINE fs == F!WithOps(o)
<1>5. /\ fs \in Seq(FrameSet) /\ F!Update(fs, h, bs) /\ Len(fs) \in 1 .. MaxFrames
      /\ \A k \in 1 .. Len(fs) : Len(fs[k].ops) <= MaxOps
      /\ \A k \in 1 .. Len(fs) : \A j \in 1 .. Len(fs[k].ops) : fs[k].ops[j].java # Unset
      /\ \A s \in Held(fs) : Moved(s) \/ IsRef(s) \/ (IsNew(s, bs) /\ h[c] = heap[c])
  BY <1>1, <1>2, <1>3, <1>4
<1> HIDE DEF fs
<1> QED
  BY <1>5, MovesKeep, SMTT(20)

LEMMA PushesKeep ==
  ASSUME F!IInv, F!Executing, F!Goes, NEW n \in Nat, n <= Len(F!Ops), Len(F!Ops) - n < MaxOps,
         NEW x \in F!SlotSet, NEW h \in [F!Cells -> F!SlotSet], NEW bs,
         F!Update(F!WithOps(Append(F!Popped(n), x)), h, bs), x.java # Unset,
         NEW c \in F!Cells, h[c].java \in F!ElementType(c),
         \A d \in F!Cells : d # c => h[d] = heap[d],
         \A b \in AllBoxes : boxes[b] # NoBox => bs[b] = boxes[b],
         Moved(x) \/ IsRef(x) \/ (IsNew(x, bs) /\ h[c] = heap[c]),
         h[c] = heap[c] \/ IsRef(h[c]) \/ IsNew(h[c], bs)
  PROVE  F!IInv'
<1> DEFINE p == F!Popped(n)
           o == Append(p, x)
<1>1. p \in Seq(F!SlotSet) /\ Len(p) = Len(F!Ops) - n /\ Len(p) \in Nat /\ \A j \in 1 .. Len(p) : p[j] = F!Ops[j]
  BY PoppedIs
<1>2. \A j \in 1 .. Len(p) : p[j] \in Held(frames) /\ p[j].java # Unset
  <2>1. \A j \in 1 .. Len(p) : j \in 1 .. Len(F!Ops)
    BY <1>1, FramesTypes
  <2> QED
    BY <1>1, <2>1, FramesTypes
<1> HIDE DEF p
<1>3. /\ o \in Seq(F!SlotSet) /\ Len(o) = Len(p) + 1 /\ o[Len(p) + 1] = x
      /\ \A j \in 1 .. Len(p) : o[j] = p[j]
  BY <1>1, AppendProperties
<1> HIDE DEF o
<1>4. /\ \A j \in 1 .. Len(o) : o[j].java # Unset
      /\ \A j \in 1 .. Len(o) : o[j] \in Held(frames) \/ Moved(o[j]) \/ IsRef(o[j]) \/ (IsNew(o[j], bs) /\ h[c] = heap[c])
  <2>1. \A j \in 1 .. Len(o) : j \in 1 .. Len(p) \/ j = Len(p) + 1
    BY <1>1, <1>3
  <2> QED
    BY <1>2, <1>3, <2>1
<1>5. F!Update(F!WithOps(o), h, bs) /\ Len(o) <= MaxOps
  BY <1>1, <1>3, FramesConstants, FramesTypes DEF o, p
<1>6. h[c] = heap[c] \/ IsRef(h[c]) \/ IsNew(h[c], bs) \/ (c \in F!Fields /\ Moved(h[c]))
  OBVIOUS
<1>7. /\ o \in Seq(F!SlotSet) /\ F!IInv /\ F!Executing /\ F!Goes /\ h \in [F!Cells -> F!SlotSet]
      /\ c \in F!Cells /\ h[c].java \in F!ElementType(c)
      /\ \A d \in F!Cells : d # c => h[d] = heap[d]
      /\ \A b \in AllBoxes : boxes[b] # NoBox => bs[b] = boxes[b]
  BY <1>3
<1> QED
  BY ONLY <1>4, <1>5, <1>6, <1>7, OpsKeep

LEMMA PushKeepsFrames ==
  ASSUME F!IInv, F!Executing, F!Goes, NEW n \in Nat, n <= Len(F!Ops), Len(F!Ops) - n < MaxOps,
         NEW x \in F!SlotSet, NEW bs, F!Update(F!WithOps(Append(F!Popped(n), x)), heap, bs), x.java # Unset,
         \A b \in AllBoxes : boxes[b] # NoBox => bs[b] = boxes[b],
         Moved(x) \/ IsRef(x) \/ IsNew(x, bs)
  PROVE  F!IInv'
<1>1. "field" \in F!Cells /\ heap \in [F!Cells -> F!SlotSet] /\ heap["field"].java \in F!ElementType("field")
  BY BeforeStep, FramesTypes DEF F!Cells, F!Fields
<1> QED
  BY <1>1, PushesKeep

LEMMA PopsKeep ==
  ASSUME F!IInv, F!Executing, F!Goes, NEW n \in Nat, n <= Len(F!Ops),
         NEW h \in [F!Cells -> F!SlotSet], NEW bs, F!Update(F!WithOps(F!Popped(n)), h, bs),
         NEW c \in F!Cells, h[c].java \in F!ElementType(c),
         \A d \in F!Cells : d # c => h[d] = heap[d],
         \A b \in AllBoxes : boxes[b] # NoBox => bs[b] = boxes[b],
         h[c] = heap[c] \/ IsRef(h[c]) \/ IsNew(h[c], bs) \/ (c \in F!Fields /\ Moved(h[c]))
  PROVE  F!IInv'
<1> DEFINE p == F!Popped(n)
<1>1. p \in Seq(F!SlotSet) /\ Len(p) = Len(F!Ops) - n /\ Len(p) \in Nat /\ \A j \in 1 .. Len(p) : p[j] = F!Ops[j]
  BY PoppedIs
<1>2. \A j \in 1 .. Len(p) : p[j] \in Held(frames) /\ p[j].java # Unset
  <2>1. \A j \in 1 .. Len(p) : j \in 1 .. Len(F!Ops)
    BY <1>1, FramesTypes
  <2> QED
    BY <1>1, <2>1, FramesTypes
<1>3. F!Update(F!WithOps(p), h, bs) /\ Len(p) <= MaxOps
  <2>1. Len(F!Ops) <= MaxOps /\ Len(F!Ops) \in Nat /\ MaxOps \in Nat
    BY FramesConstants, FramesTypes
  <2> HIDE DEF p
  <2>2. Len(p) <= MaxOps
    BY <1>1, <2>1
  <2> QED
    BY <2>2 DEF p
<1> HIDE DEF p
<1> QED
  BY <1>1, <1>2, <1>3, OpsKeep

LEMMA NoPop == ASSUME F!IInv PROVE F!Ops = F!Popped(0)
<1>1. F!Ops \in Seq(F!SlotSet) /\ Len(F!Ops) \in Nat
  BY FramesTypes
<1>2. Len(F!Ops) - 0 = Len(F!Ops)
  BY <1>1
<1> QED
  BY <1>1, <1>2, SubSeqFull DEF F!Popped

\* A box of one's own.
LEMMA NewBox ==
  ASSUME F!IInv, F!Executing, F!FreeBoxes # {}, NEW v \in F!Numbers
  PROVE  /\ F!Slot(F!Fresh, v) \in F!SlotSet /\ F!Slot(F!Fresh, v).java = v /\ v # Unset
         /\ IsNew(F!Slot(F!Fresh, v), [boxes EXCEPT ![F!Fresh] = v])
         /\ \A b \in AllBoxes : boxes[b] # NoBox => [boxes EXCEPT ![F!Fresh] = v][b] = boxes[b]
<1>1. F!Fresh \in AllBoxes /\ boxes[F!Fresh] = NoBox /\ boxes \in [AllBoxes -> F!Numbers \cup {NoBox}]
  BY BeforeStep, FramesTypes
<1> QED
  BY <1>1, FramesConstants DEF F!Slot, F!SlotSet, F!Values, IsNew

LEMMA RefSlot ==
  ASSUME NEW r \in F!Refs
  PROVE  F!Slot(r, r) \in F!SlotSet /\ F!Slot(r, r).java = r /\ r # Unset /\ IsRef(F!Slot(r, r))
BY FramesConstants DEF F!Slot, F!SlotSet, F!Values, IsRef

LEMMA AbortKeeps == ASSUME F!IInv, F!Abort PROVE F!IInv'
<1>1. UNCHANGED <<boxes, frames, heap, alias, steps>> /\ fate' = "abort"
  BY DEF F!Abort
<1>2. F!TypeOK'
  BY <1>1 DEF F!IInv, F!TypeOK
<1>3. F!SetInv'
  BY <1>1 DEF F!IInv, F!SetInv
<1>4. F!Slots(frames, heap)' = F!Slots(frames, heap)
  BY <1>1
<1>5. F!UsedInv' /\ F!SameValues'
  BY <1>1, <1>4 DEF F!IInv, F!UsedInv, F!SameValues, F!IsNumber, F!Read
<1>6. F!ElementsOwnTheirBox'
  BY <1>1 DEF F!IInv, F!ElementsOwnTheirBox, F!IsNumber, F!CellIsShared, F!InCells, F!InLocals, F!InOps
<1> QED
  BY <1>2, <1>3, <1>5, <1>6 DEF F!IInv

LEMMA ConstantsKeep ==
  ASSUME F!IInv, F!PushNumber \/ F!PushReference PROVE F!IInv'
<1>1. F!Executing /\ Len(F!Ops) < MaxOps /\ F!FreeBoxes # {} /\ F!Goes
  BY DEF F!PushNumber, F!PushReference, F!Room
<1>2. F!Ops = F!Popped(0) /\ 0 \in Nat /\ 0 <= Len(F!Ops) /\ Len(F!Ops) - 0 < MaxOps
  BY <1>1, NoPop, FramesTypes
<1>3. CASE F!PushNumber
  <2>1. PICK v \in Literals :
          F!Update(F!WithOps(Append(F!Popped(0), F!Slot(F!Fresh, v))), heap, [boxes EXCEPT ![F!Fresh] = v])
    BY <1>2, <1>3 DEF F!PushNumber
  <2> DEFINE x == F!Slot(F!Fresh, v)
             bs == [boxes EXCEPT ![F!Fresh] = v]
  <2>2. /\ x \in F!SlotSet /\ x.java # Unset /\ IsNew(x, bs)
        /\ \A b \in AllBoxes : boxes[b] # NoBox => bs[b] = boxes[b]
    BY <1>1, FramesConstants, NewBox
  <2>3. F!Update(F!WithOps(Append(F!Popped(0), x)), heap, bs)
    BY <2>1
  <2> HIDE DEF x, bs
  <2> QED
    BY <1>1, <1>2, <2>2, <2>3, PushKeepsFrames
<1>4. CASE F!PushReference
  <2>1. PICK r \in F!Refs : F!Update(F!WithOps(Append(F!Popped(0), F!Slot(r, r))), heap, boxes)
    BY <1>2, <1>4 DEF F!PushReference
  <2> QED
    BY <1>1, <1>2, <2>1, RefSlot, PushKeepsFrames
<1> QED
  BY <1>3, <1>4

LEMMA LoadsKeep ==
  ASSUME F!IInv, NEW i \in 1 .. MaxLocals, F!LoadNumber(i) \/ F!LoadReference(i) PROVE F!IInv'
<1>1. F!Executing /\ Len(F!Ops) < MaxOps /\ F!FreeBoxes # {} /\ F!Goes
  BY DEF F!LoadNumber, F!LoadReference, F!Room
<1>2. F!Ops = F!Popped(0) /\ 0 \in Nat /\ 0 <= Len(F!Ops) /\ Len(F!Ops) - 0 < MaxOps
  BY <1>1, NoPop, FramesTypes
<1>3. F!Locals[i] \in Held(frames) /\ F!Locals[i] \in F!SlotSet /\ Moved(F!Locals[i])
  BY <1>1, FramesTypes, BeforeStep DEF Moved
<1>4. CASE F!LoadNumber(i)
  <2>1. /\ F!Locals[i].java # Unset
        /\ F!Update(F!WithOps(Append(F!Popped(0), F!CopyOf(F!Locals[i]))), heap, F!WithCopy(F!Locals[i]))
    BY <1>2, <1>4, FramesConstants DEF F!LoadNumber
  <2>2. /\ F!CopyOf(F!Locals[i]) \in F!SlotSet /\ F!CopyOf(F!Locals[i]).java # Unset
        /\ IsRef(F!CopyOf(F!Locals[i])) \/ IsNew(F!CopyOf(F!Locals[i]), F!WithCopy(F!Locals[i]))
        /\ \A b \in AllBoxes : boxes[b] # NoBox => F!WithCopy(F!Locals[i])[b] = boxes[b]
    BY <1>1, <1>3, <2>1, CopyIs
  <2> QED
    BY <1>1, <1>2, <2>1, <2>2, PushKeepsFrames
<1>5. CASE F!LoadReference(i)
  <2>1. /\ F!Locals[i].java # Unset
        /\ F!Update(F!WithOps(Append(F!Popped(0), F!Locals[i])), heap, boxes)
    BY <1>2, <1>5, FramesConstants DEF F!LoadReference
  <2> QED
    BY <1>1, <1>2, <1>3, <2>1, PushKeepsFrames
<1> QED
  BY <1>4, <1>5

\* One field or element.
LEMMA OneCell ==
  ASSUME F!IInv, NEW c \in F!Cells, NEW x \in F!SlotSet
  PROVE  /\ [heap EXCEPT ![c] = x] \in [F!Cells -> F!SlotSet] /\ [heap EXCEPT ![c] = x][c] = x
         /\ \A d \in F!Cells : d # c => [heap EXCEPT ![c] = x][d] = heap[d]
BY FramesTypes

LEMMA CellKinds ==
  /\ F!Arrays \subseteq F!Cells /\ F!Fields \subseteq F!Cells
  /\ \A c \in F!Arrays : c = "int[]" \/ c = "byte[]" \/ c = "Object[]"
  /\ "field" \in F!Fields /\ "static" \in F!Fields
  /\ \A c : c # "Object[]" => F!ElementType(c) = {F!Number("int", v) : v \in Ints}
  /\ F!ElementType("Object[]") = F!Refs
  /\ {F!Number("int", v) : v \in Ints} \subseteq F!Numbers
BY DEF F!Arrays, F!Cells, F!Fields, F!ByteArrays, F!ElementType, F!Numbers

LEMMA FieldsKeep ==
  ASSUME F!IInv, F!GetStatic \/ F!PutStatic \/ F!GetField \/ F!PutField PROVE F!IInv'
<1>f. /\ "field" \in F!Cells /\ "static" \in F!Cells /\ "field" \in F!Fields /\ "static" \in F!Fields
      /\ F!ElementType("field") = {F!Number("int", v) : v \in Ints}
      /\ F!ElementType("static") = {F!Number("int", v) : v \in Ints}
  BY CellKinds
<1>e. F!Executing
  BY DEF F!GetStatic, F!PutStatic, F!GetField, F!PutField, F!HasOps
<1>h. ASSUME NEW f \in F!Fields
      PROVE  heap[f] \in F!SlotSet /\ heap[f].java # Unset /\ Moved(heap[f])
  BY <1>e, BeforeStep, CellKinds DEF Moved
<1>p. ASSUME NEW n \in {1, 2}, NEW f \in F!Fields, n <= Len(F!Ops), F!IsInt(F!Top(1)), F!Goes,
             F!Update(F!WithOps(F!Popped(n)), [heap EXCEPT ![f] = F!Top(1)], boxes)
      PROVE  F!IInv'
  <2>1. F!Top(1) \in F!SlotSet /\ Moved(F!Top(1))
    <3>1. 1 \in 1 .. Len(F!Ops)
      BY <1>p, FramesTypes
    <3> QED
      BY <3>1, <1>e, TopIs
  <2> DEFINE h == [heap EXCEPT ![f] = F!Top(1)]
  <2>2. /\ f \in F!Cells /\ h \in [F!Cells -> F!SlotSet] /\ h[f] = F!Top(1)
        /\ \A d \in F!Cells : d # f => h[d] = heap[d]
    BY <2>1, OneCell, CellKinds
  <2>3. h[f].java \in F!ElementType(f)
    BY <1>p, <2>2, CellKinds DEF F!IsInt, F!Fields
  <2>4. F!Update(F!WithOps(F!Popped(n)), h, boxes) /\ n \in Nat
    BY <1>p
  <2> HIDE DEF h
  <2> QED
    BY <1>e, <1>p, <2>1, <2>2, <2>3, <2>4, PopsKeep
<1>1. CASE F!GetStatic
  <2>1. /\ F!Ops = F!Popped(0) /\ 0 \in Nat /\ 0 <= Len(F!Ops) /\ Len(F!Ops) - 0 < MaxOps /\ F!Goes
        /\ F!Update(F!WithOps(Append(F!Popped(0), heap["static"])), heap, boxes)
    BY <1>1, NoPop, FramesTypes DEF F!GetStatic, F!Room
  <2> QED
    BY <1>e, <1>f, <1>h, <2>1, PushKeepsFrames
<1>2. CASE F!PutStatic
  BY <1>2, <1>f, <1>p, FramesTypes DEF F!PutStatic, F!HasOps
<1>3. CASE F!GetField
  <2>1. CASE F!Abort
    BY <2>1, AbortKeeps
  <2>2. CASE F!Goes /\ F!Update(F!WithOps(Append(F!Popped(1), heap["field"])), heap, boxes)
    <3>1. 1 \in Nat /\ 1 <= Len(F!Ops) /\ Len(F!Ops) - 1 < MaxOps
      BY <1>3, FramesTypes, FramesConstants DEF F!GetField, F!HasOps
    <3> QED
      BY <1>e, <1>f, <1>h, <2>2, <3>1, PushKeepsFrames
  <2> QED
    BY <1>3, <2>1, <2>2 DEF F!GetField
<1>4. CASE F!PutField
  <2>1. CASE F!Abort
    BY <2>1, AbortKeeps
  <2>2. CASE F!Goes /\ F!Update(F!WithOps(F!Popped(2)), [heap EXCEPT !["field"] = F!Top(1)], boxes)
    BY <1>4, <1>f, <1>p, <2>2, FramesTypes DEF F!PutField, F!HasOps
  <2> QED
    BY <1>4, <2>1, <2>2 DEF F!PutField
<1> QED
  BY <1>1, <1>2, <1>3, <1>4

\* A number of one's own on top of the stack.
LEMMA NumberKeeps ==
  ASSUME F!IInv, F!Executing, F!Goes, F!FreeBoxes # {}, NEW n \in Nat, n <= Len(F!Ops), Len(F!Ops) - n < MaxOps,
         NEW v \in F!Numbers,
         F!Update(F!WithOps(Append(F!Popped(n), F!Slot(F!Fresh, v))), heap, [boxes EXCEPT ![F!Fresh] = v])
  PROVE  F!IInv'
<1> DEFINE x == F!Slot(F!Fresh, v)
           bs == [boxes EXCEPT ![F!Fresh] = v]
<1>1. /\ x \in F!SlotSet /\ x.java # Unset /\ IsNew(x, bs)
      /\ \A b \in AllBoxes : boxes[b] # NoBox => bs[b] = boxes[b]
  BY NewBox
<1>2. F!Update(F!WithOps(Append(F!Popped(n), x)), heap, bs)
  OBVIOUS
<1> HIDE DEF x, bs
<1> QED
  BY <1>1, <1>2, PushKeepsFrames

LEMMA ArraysAreMade ==
  ASSUME F!IInv, F!ArrayLength \/ \E c \in F!Arrays : F!NewArray(c) PROVE F!IInv'
<1>1. F!Executing /\ F!FreeBoxes # {} /\ 1 \in Nat /\ 1 <= Len(F!Ops) /\ Len(F!Ops) - 1 < MaxOps
  <2>1. F!HasOps(1)
    BY DEF F!ArrayLength, F!NewArray
  <2> QED
    BY <2>1, FramesTypes, FramesConstants DEF F!HasOps
<1>2. CASE F!ArrayLength
  <2>1. CASE F!Abort
    BY <2>1, AbortKeeps
  <2>2. CASE F!Goes /\ F!Update(F!WithOps(Append(F!Popped(1), F!Slot(F!Fresh, F!Number("int", 1)))), heap,
                                [boxes EXCEPT ![F!Fresh] = F!Number("int", 1)])
    <3>1. F!Number("int", 1) \in F!Numbers
      BY FramesConstants
    <3> QED
      BY <1>1, <2>2, <3>1, NumberKeeps
  <2> QED
    BY <1>2, <2>1, <2>2 DEF F!ArrayLength
<1>3. ASSUME NEW c \in F!Arrays, F!NewArray(c) PROVE F!IInv'
  <2>1. CASE F!Abort
    BY <2>1, AbortKeeps
  <2>2. CASE ~F!Abort
    <3> DEFINE zero == F!Zero(c)
               cell == F!Slot(IF zero = Null THEN Null ELSE F!Fresh, zero)
               bs == IF zero = Null THEN boxes ELSE [boxes EXCEPT ![F!Fresh] = zero]
               h == [heap EXCEPT ![c] = cell]
               x == F!Slot(Obj, Obj)
    <3>1. F!Goes /\ F!Update(F!WithOps(Append(F!Popped(1), x)), h, bs)
      BY <1>3, <2>2 DEF F!NewArray
    <3>2. /\ x \in F!SlotSet /\ x.java # Unset /\ IsRef(x)
      BY RefSlot, FramesConstants
    <3>3. /\ cell \in F!SlotSet /\ cell.java = zero /\ zero \in F!ElementType(c)
          /\ IsRef(cell) \/ IsNew(cell, bs)
          /\ \A b \in AllBoxes : boxes[b] # NoBox => bs[b] = boxes[b]
      <4>1. CASE c = "Object[]"
        <5>1. zero = Null /\ cell = F!Slot(Null, Null) /\ bs = boxes
          BY <4>1 DEF F!Zero
        <5> QED
          BY <4>1, <5>1, RefSlot, FramesConstants, CellKinds
      <4>2. CASE c # "Object[]"
        <5>1. zero = F!Number("int", 0) /\ zero \in F!Numbers /\ zero # Null /\ zero \in F!ElementType(c)
          BY <4>2, FramesConstants, CellKinds DEF F!Zero
        <5>2. cell = F!Slot(F!Fresh, zero) /\ bs = [boxes EXCEPT ![F!Fresh] = zero]
          BY <5>1
        <5> HIDE DEF zero
        <5> QED
          BY <1>1, <5>1, <5>2, NewBox
      <4> QED
        BY <4>1, <4>2
    <3> HIDE DEF cell, bs, x, zero
    <3>4. /\ c \in F!Cells /\ h \in [F!Cells -> F!SlotSet] /\ h[c] = cell
          /\ \A d \in F!Cells : d # c => h[d] = heap[d]
      BY <3>3, OneCell, CellKinds
    <3> HIDE DEF h
    <3> QED
      BY <1>1, <3>1, <3>2, <3>3, <3>4, PushesKeep
  <2> QED
    BY <2>1, <2>2
<1> QED
  BY <1>2, <1>3

LEMMA ArraysAreRead ==
  ASSUME F!IInv, NEW c \in F!Arrays, F!ArrayLoad(c) PROVE F!IInv'
<1>1. F!Executing /\ F!FreeBoxes # {} /\ 2 \in Nat /\ 2 <= Len(F!Ops) /\ Len(F!Ops) - 2 < MaxOps
  BY FramesTypes, FramesConstants DEF F!ArrayLoad, F!HasOps
<1>2. CASE F!Abort
  BY <1>2, AbortKeeps
<1>3. CASE F!Goes /\ F!Update(F!WithOps(Append(F!Popped(2), F!CopyOf(heap[c]))), heap, F!WithCopy(heap[c]))
  <2>1. heap[c] \in {heap[d] : d \in F!Cells} /\ heap[c].java # Unset
    BY <1>1, BeforeStep, CellKinds
  <2>2. /\ F!CopyOf(heap[c]) \in F!SlotSet /\ F!CopyOf(heap[c]).java # Unset
        /\ IsRef(F!CopyOf(heap[c])) \/ IsNew(F!CopyOf(heap[c]), F!WithCopy(heap[c]))
        /\ \A b \in AllBoxes : boxes[b] # NoBox => F!WithCopy(heap[c])[b] = boxes[b]
    BY <1>1, <2>1, CopyIs
  <2> QED
    BY <1>1, <1>3, <2>2, PushKeepsFrames
<1> QED
  BY <1>2, <1>3 DEF F!ArrayLoad

LEMMA ArraysAreWritten ==
  ASSUME F!IInv, NEW c \in F!Arrays, F!ArrayStore(c) PROVE F!IInv'
<1>1. /\ F!Executing /\ F!FreeBoxes # {} /\ 3 \in Nat /\ 3 <= Len(F!Ops) /\ 1 \in 1 .. Len(F!Ops)
      /\ F!Top(1).java \in F!ElementType(c)
  BY FramesTypes DEF F!ArrayStore, F!HasOps
<1> DEFINE top == F!Top(1)
           copy == F!WithCopy(top)
           x == [F!CopyOf(top) EXCEPT !.java = F!NarrowTo(c, @)]
           bs == IF F!IsNumber(top) THEN [copy EXCEPT ![F!Fresh] = F!NarrowTo(c, @)] ELSE copy
           h == [heap EXCEPT ![c] = x]
<1>2. CASE F!Abort
  BY <1>2, AbortKeeps
<1>3. CASE F!Goes /\ F!Update(F!WithOps(F!Popped(3)), h, bs)
  <2>1. top \in Held(frames) /\ top \in F!SlotSet /\ top.java # Unset
    BY <1>1, TopIs
  <2>2. /\ F!CopyOf(top) \in F!SlotSet /\ F!CopyOf(top).java = top.java
        /\ IsRef(F!CopyOf(top)) \/ IsNew(F!CopyOf(top), copy)
        /\ \A b \in AllBoxes : boxes[b] # NoBox => copy[b] = boxes[b]
        /\ F!IsNumber(top) => F!CopyOf(top).oop = F!Fresh /\ copy[F!Fresh] = top.java
    BY <1>1, <2>1, CopyIs
  <2>3. top.java \in F!Numbers => F!IsNumber(top)
    BY <1>1, <2>1, KindIs
  <2>f. F!Fresh \in AllBoxes /\ boxes[F!Fresh] = NoBox
    BY <1>1, BeforeStep
  <2>4. /\ x \in F!SlotSet /\ x.java \in F!ElementType(c)
        /\ IsRef(x) \/ IsNew(x, bs)
        /\ \A b \in AllBoxes : boxes[b] # NoBox => bs[b] = boxes[b]
    <3>1. x = [oop |-> F!CopyOf(top).oop, java |-> F!NarrowTo(c, top.java)]
      <4>1. ASSUME NEW s \in F!SlotSet, NEW v PROVE [s EXCEPT !.java = v] = [oop |-> s.oop, java |-> v]
        BY DEF F!SlotSet
      <4> QED
        BY <2>2, <4>1
    <3>2. CASE c = "Object[]"
      <4>1. F!NarrowTo(c, top.java) = top.java /\ \A v : F!NarrowTo(c, v) = v
        BY <3>2 DEF F!NarrowTo, F!ByteArrays
      <4>2. top.java \in F!Refs /\ ~F!IsNumber(top)
        BY <1>1, <2>1, <3>2, CellKinds, KindIs, FramesConstants
      <4>3. x = F!CopyOf(top) /\ bs = copy
        BY <2>2, <3>1, <4>1, <4>2 DEF F!SlotSet
      <4> QED
        BY <1>1, <2>2, <4>3
    <3>3. CASE c # "Object[]"
      <4>1. top.java \in {F!Number("int", v) : v \in Ints} /\ top.java \in F!Numbers
        BY <1>1, <3>3, CellKinds
      <4> DEFINE v == F!NarrowTo(c, top.java)
      <4>2. v \in {F!Number("int", w) : w \in Ints}
        <5>1. CASE c \in F!ByteArrays
          <6>1. PICK w \in Ints : top.java = F!Number("int", w)
            BY <4>1
          <6>2. top.java.val = w /\ w \in Int
            BY <6>1, FramesConstants DEF F!Number
          <6>3. v = F!Number("int", ((w + 1) % 2) - 1)
            BY <5>1, <6>2 DEF F!NarrowTo
          <6>4. ((w + 1) % 2) - 1 = -1 \/ ((w + 1) % 2) - 1 = 0
            BY <6>2
          <6> QED
            BY <6>3, <6>4, FramesConstants
        <5>2. CASE c \notin F!ByteArrays
          BY <4>1, <5>2 DEF F!NarrowTo
        <5> QED
          BY <5>1, <5>2
      <4> HIDE DEF v
      <4>3. v \in F!Numbers /\ v \in F!ElementType(c)
        BY <3>3, <4>2, CellKinds
      <4>4. F!IsNumber(top) /\ F!CopyOf(top).oop = F!Fresh /\ copy[F!Fresh] = top.java
        BY <2>2, <2>3, <4>1
      <4>5. x = [oop |-> F!Fresh, java |-> v]
        BY <3>1, <4>4 DEF v
      <4>6. copy = [boxes EXCEPT ![F!Fresh] = boxes[top.oop]] /\ boxes \in [AllBoxes -> F!Numbers \cup {NoBox}]
        BY <4>4, FramesTypes DEF F!WithCopy
      <4>7. bs = [copy EXCEPT ![F!Fresh] = v]
        BY <4>4, <4>6, <2>f DEF v
      <4>8. bs[F!Fresh] = v /\ \A b \in AllBoxes : boxes[b] # NoBox => bs[b] = boxes[b]
        BY <2>2, <2>f, <4>6, <4>7
      <4> QED
        BY <1>1, <2>f, <4>3, <4>5, <4>8 DEF IsNew, F!SlotSet, F!Values
    <3> QED
      BY <3>2, <3>3
  <2> HIDE DEF x, bs
  <2>5. /\ c \in F!Cells /\ h \in [F!Cells -> F!SlotSet] /\ h[c] = x
        /\ \A d \in F!Cells : d # c => h[d] = heap[d]
    BY <2>4, OneCell, CellKinds
  <2> HIDE DEF h
  <2> QED
    BY <1>1, <1>3, <2>4, <2>5, PopsKeep
<1> QED
  BY <1>2, <1>3 DEF F!ArrayStore

\* A local variable changes: the half of a long that is cut is Java's no more.
LEMMA StoreKeeps ==
  ASSUME F!IInv, F!Executing, F!Goes, NEW i \in 1 .. MaxLocals, NEW x \in F!SlotSet, NEW bs,
         F!Update([frames EXCEPT ![F!Here] = [locals |-> F!WithLocal(i, x), ops |-> F!Popped(1)]], heap, bs),
         1 <= Len(F!Ops), Moved(x) \/ IsRef(x) \/ IsNew(x, bs),
         \A b \in AllBoxes : boxes[b] # NoBox => bs[b] = boxes[b]
  PROVE  F!IInv'
<1> DEFINE p == F!Popped(1)
           w == F!WithLocal(i, x)
           fs == [frames EXCEPT ![F!Here] = [locals |-> w, ops |-> p]]
<1>1. /\ frames \in Seq(FrameSet) /\ F!Here \in 1 .. Len(frames) /\ Len(frames) \in 1 .. MaxFrames
      /\ F!Locals \in [1 .. MaxLocals -> F!SlotSet]
      /\ \A j \in 1 .. MaxLocals : F!Locals[j] \in Held(frames)
  BY FramesTypes
<1>2. p \in Seq(F!SlotSet) /\ Len(p) <= MaxOps /\ \A j \in 1 .. Len(p) : p[j] \in Held(frames) /\ p[j].java # Unset
  <2>1. p \in Seq(F!SlotSet) /\ Len(p) = Len(F!Ops) - 1 /\ \A j \in 1 .. Len(p) : p[j] = F!Ops[j]
    BY PoppedIs
  <2>2. \A j \in 1 .. Len(p) : j \in 1 .. Len(F!Ops)
    BY <2>1, FramesTypes
  <2>3. Len(p) <= MaxOps
    BY <2>1, FramesTypes, FramesConstants
  <2> QED
    BY <2>1, <2>2, <2>3, FramesTypes
<1>3. /\ w \in [1 .. MaxLocals -> F!SlotSet]
      /\ \A j \in 1 .. MaxLocals : w[j] = x \/ w[j] = F!Locals[j] \/ w[j] = F!Slot(F!Locals[j].oop, Unset)
  <2>1. \A j \in 1 .. MaxLocals : F!Slot(F!Locals[j].oop, Unset) \in F!SlotSet
    BY <1>1 DEF F!Slot, F!SlotSet, F!Values
  <2> QED
    BY <1>1, <2>1 DEF F!WithLocal
<1> HIDE DEF p, w
<1>4. [locals |-> w, ops |-> p] \in FrameSet
  BY <1>2, <1>3 DEF FrameSet
<1>5. fs \in Seq(FrameSet) /\ Len(fs) = Len(frames)
  BY <1>1, <1>4, ExceptSeq
<1>6. fs[F!Here] = [locals |-> w, ops |-> p] /\ \A k \in 1 .. Len(frames) : k # F!Here => fs[k] = frames[k]
  BY <1>1
<1>7. F!Update(fs, heap, bs)
  BY DEF p, w
<1> HIDE DEF fs
<1>8. ASSUME NEW k \in 1 .. Len(fs)
      PROVE  Len(fs[k].ops) <= MaxOps /\ \A j \in 1 .. Len(fs[k].ops) : fs[k].ops[j].java # Unset
  <2>1. CASE k = F!Here
    BY <1>2, <1>6, <2>1
  <2>2. CASE k # F!Here
    BY <1>5, <1>6, <2>2 DEF F!IInv, F!TypeOK, F!SetInv
  <2> QED
    BY <2>1, <2>2
<1>9. ASSUME NEW s \in Held(fs) PROVE Moved(s) \/ IsRef(s) \/ IsNew(s, bs)
  <2>1. PICK k \in 1 .. Len(fs) : \/ \E j \in 1 .. MaxLocals : s = fs[k].locals[j]
                                  \/ \E j \in 1 .. Len(fs[k].ops) : s = fs[k].ops[j]
    BY <1>5, HeldIs
  <2>2. CASE k # F!Here
    <3>1. s \in Held(frames)
      BY <1>1, <1>5, <1>6, <2>1, <2>2, HeldIs
    <3> QED
      BY <3>1 DEF Moved
  <2>3. CASE k = F!Here
    <3>1. (\E j \in 1 .. MaxLocals : s = w[j]) \/ (\E j \in 1 .. Len(p) : s = p[j])
      BY <1>6, <2>1, <2>3
    <3>2. s = x \/ s \in Held(frames) \/ \E j \in 1 .. MaxLocals : s = F!Slot(F!Locals[j].oop, Unset)
      BY <1>1, <1>2, <1>3, <3>1
    <3>3. ASSUME NEW j \in 1 .. MaxLocals, s = F!Slot(F!Locals[j].oop, Unset) PROVE Moved(s)
      BY <1>1, <3>3 DEF Moved, F!Slot
    <3>4. s \in Held(frames) => Moved(s)
      BY DEF Moved
    <3> QED
      BY <3>2, <3>3, <3>4
  <2> QED
    BY <2>2, <2>3
<1>10. /\ "field" \in F!Cells /\ heap \in [F!Cells -> F!SlotSet]
       /\ heap["field"].java \in F!ElementType("field") /\ Len(fs) \in 1 .. MaxFrames
  BY <1>1, <1>5, BeforeStep, FramesTypes DEF F!Cells, F!Fields
<1> QED
  BY <1>5, <1>7, <1>8, <1>9, <1>10, MovesKeep

LEMMA StoresKeep ==
  ASSUME F!IInv, NEW i \in 1 .. MaxLocals, F!StoreNumber(i) \/ F!StoreReference(i) PROVE F!IInv'
<1>1. F!Executing /\ F!FreeBoxes # {} /\ F!Goes /\ 1 <= Len(F!Ops) /\ 1 \in 1 .. Len(F!Ops)
  <2>1. F!HasOps(1) /\ F!Goes
    BY DEF F!StoreNumber, F!StoreReference
  <2> QED
    BY <2>1, FramesTypes DEF F!HasOps
<1>2. F!Top(1) \in Held(frames) /\ F!Top(1) \in F!SlotSet /\ F!Top(1).java # Unset /\ Moved(F!Top(1))
  BY <1>1, TopIs
<1>3. CASE F!StoreNumber(i)
  <2>1. /\ F!CopyOf(F!Top(1)) \in F!SlotSet
        /\ IsRef(F!CopyOf(F!Top(1))) \/ IsNew(F!CopyOf(F!Top(1)), F!WithCopy(F!Top(1)))
        /\ \A b \in AllBoxes : boxes[b] # NoBox => F!WithCopy(F!Top(1))[b] = boxes[b]
    BY <1>1, <1>2, CopyIs
  <2>2. F!Update([frames EXCEPT ![F!Here] = [locals |-> F!WithLocal(i, F!CopyOf(F!Top(1))), ops |-> F!Popped(1)]],
                 heap, F!WithCopy(F!Top(1)))
    BY <1>3 DEF F!StoreNumber
  <2> QED
    BY <1>1, <2>1, <2>2, StoreKeeps
<1>4. CASE F!StoreReference(i)
  <2>1. F!Update([frames EXCEPT ![F!Here] = [locals |-> F!WithLocal(i, F!Top(1)), ops |-> F!Popped(1)]], heap, boxes)
    BY <1>4 DEF F!StoreReference
  <2> QED
    BY <1>1, <1>2, <2>1, StoreKeeps
<1> QED
  BY <1>3, <1>4

\* The callee's variables hold the arguments, where Java has them: the boxes of longs tell
\* the engine as much as the types tell Java.
LEMMA ArgumentsArrive ==
  ASSUME F!IInv, F!Executing, NEW args \in Seq(F!SlotSet),
         \A k \in 1 .. Len(args) : args[k] \in Held(frames) /\ args[k].java # Unset,
         NEW i \in 1 .. MaxLocals
  PROVE  LET x == F!Slot(F!LocalVariableTable(args)[i].oop, F!JavaLocals(args)[i])
         IN x \in F!SlotSet /\ (Moved(x) \/ IsRef(x))
<1> DEFINE long == {k \in 1 .. Len(args) : F!IsNumber(args[k]) /\ boxes[args[k].oop].type = "long"}
           jlong == {k \in 1 .. Len(args) : F!IsWide(args[k].java)}
           at(l, n) == {k \in 1 .. Len(args) : F!Place(k, l) = n}
           table(l) == [n \in 1 .. MaxLocals |->
                          IF at(l, n) # {} THEN args[CHOOSE k \in at(l, n) : TRUE] ELSE F!Slot(Null, Unset)]
           java(l) == [n \in 1 .. MaxLocals |->
                          IF at(l, n) # {} THEN args[CHOOSE k \in at(l, n) : TRUE].java ELSE Unset]
<1>1. F!LocalVariableTable(args) = table(long) /\ F!JavaLocals(args) = java(jlong)
  BY DEF F!LocalVariableTable, F!JavaLocals
<1>2. long = jlong
  <2>1. ASSUME NEW k \in 1 .. Len(args)
        PROVE  F!IsNumber(args[k]) /\ boxes[args[k].oop].type = "long" <=> F!IsWide(args[k].java)
    <3>1. /\ args[k].java \in F!Numbers => boxes[args[k].oop] = args[k].java
          /\ F!IsNumber(args[k]) <=> args[k].java \in F!Numbers
      BY KindIs
    <3>2. F!IsWide(args[k].java) => args[k].java \in F!Numbers
      BY DEF F!IsWide, F!Numbers
    <3>3. args[k].java \in F!Numbers => (args[k].java.type = "long" <=> F!IsWide(args[k].java))
      BY NumberIs
    <3> QED
      BY <3>1, <3>2, <3>3
  <2> QED
    BY <2>1
<1> HIDE DEF long, jlong
<1>3. F!LocalVariableTable(args)[i] = table(long)[i] /\ F!JavaLocals(args)[i] = java(long)[i]
  <2> HIDE DEF table, java, at
  <2>1. java(jlong) = java(long)
    BY <1>2
  <2> QED
    BY <1>1, <2>1
<1>4. CASE at(long, i) # {}
  <2> DEFINE k == CHOOSE n \in at(long, i) : TRUE
  <2>1. k \in 1 .. Len(args)
    BY <1>4
  <2>2. table(long)[i] = args[k] /\ java(long)[i] = args[k].java
    BY <1>4
  <2> HIDE DEF k, table, java, at
  <2>3. args[k] \in F!SlotSet /\ args[k] \in Held(frames)
    BY <2>1, ElementOfSeq
  <2> QED
    BY <1>3, <2>2, <2>3 DEF Moved, F!Slot, F!SlotSet
<1>5. CASE at(long, i) = {}
  <2>1. table(long)[i] = F!Slot(Null, Unset) /\ java(long)[i] = Unset
    BY <1>5
  <2> HIDE DEF table, java, at
  <2> QED
    BY <1>3, <2>1, FramesConstants DEF IsRef, F!Slot, F!SlotSet, F!Values
<1> QED
  BY <1>4, <1>5

LEMMA CallsKeep == ASSUME F!IInv, NEW n \in 0 .. MaxLocals, F!Invoke(n) PROVE F!IInv'
<1> DEFINE L == Len(F!Ops)
           args == SubSeq(F!Ops, L - n + 1, L)
           callee == [locals |-> [i \in 1 .. MaxLocals |->
                                    F!Slot(F!LocalVariableTable(args)[i].oop, F!JavaLocals(args)[i])],
                      ops |-> <<>>]
           p == F!Popped(n)
           rest == F!WithOps(p)
           fs == Append(rest, callee)
<1>1. /\ F!Executing /\ F!Goes /\ n \in Nat /\ n <= L /\ L \in Nat /\ F!Here < MaxFrames
      /\ F!Update(fs, heap, boxes)
  BY FramesTypes, FramesConstants DEF F!Invoke
<1>2. /\ frames \in Seq(FrameSet) /\ F!Here \in 1 .. Len(frames) /\ Len(frames) \in 1 .. MaxFrames
      /\ F!Here = Len(frames) /\ F!Ops \in Seq(F!SlotSet)
      /\ \A j \in 1 .. L : F!Ops[j] \in Held(frames) /\ F!Ops[j].java # Unset
  BY FramesTypes DEF F!Here
<1>3. args \in Seq(F!SlotSet) /\ \A k \in 1 .. Len(args) : args[k] \in Held(frames) /\ args[k].java # Unset
  <2>1. L - n \in 0 .. L /\ L - n + 1 = (L - n) + 1
    BY <1>1
  <2>2. /\ args \in Seq(F!SlotSet) /\ Len(args) = L - (L - n)
        /\ \A k \in 1 .. L - (L - n) : args[k] = F!Ops[(L - n) + k]
    BY <1>2, <2>1, Split
  <2>3. \A k \in 1 .. L - (L - n) : (L - n) + k \in 1 .. L
    BY <1>1
  <2> QED
    BY <1>2, <2>2, <2>3
<1> HIDE DEF args
<1>4. \A i \in 1 .. MaxLocals : callee.locals[i] \in F!SlotSet /\ (Moved(callee.locals[i]) \/ IsRef(callee.locals[i]))
  BY <1>1, <1>3, ArgumentsArrive
<1>5. callee \in FrameSet /\ callee.ops = <<>>
  BY <1>4 DEF FrameSet
<1> HIDE DEF callee
<1>6. p \in Seq(F!SlotSet) /\ Len(p) <= MaxOps /\ \A j \in 1 .. Len(p) : p[j] \in Held(frames) /\ p[j].java # Unset
  <2>1. p \in Seq(F!SlotSet) /\ Len(p) = L - n /\ \A j \in 1 .. Len(p) : p[j] = F!Ops[j]
    BY <1>1, PoppedIs
  <2>2. \A j \in 1 .. Len(p) : j \in 1 .. L
    BY <1>1, <2>1
  <2>3. Len(p) <= MaxOps
    BY <1>1, <2>1, FramesTypes, FramesConstants
  <2> QED
    BY <1>2, <2>1, <2>2, <2>3
<1> HIDE DEF p
<1>7. /\ rest \in Seq(FrameSet) /\ Len(rest) = Len(frames)
      /\ \A k \in 1 .. Len(frames) : k # F!Here => rest[k] = frames[k]
      /\ rest[F!Here] = [locals |-> F!Locals, ops |-> p]
      /\ \A s \in Held(rest) : s \in Held(frames) \/ \E j \in 1 .. Len(p) : s = p[j]
  BY <1>6, WithOpsIs
<1> HIDE DEF rest
<1>8. /\ fs \in Seq(FrameSet) /\ Len(fs) = Len(frames) + 1 /\ fs[Len(frames) + 1] = callee
      /\ \A k \in 1 .. Len(frames) : fs[k] = rest[k]
  BY <1>5, <1>7, AppendProperties
<1> HIDE DEF fs
<1>9. \A k \in 1 .. Len(fs) : k \in 1 .. Len(frames) \/ k = Len(frames) + 1
  BY <1>2, <1>8
<1>10. ASSUME NEW k \in 1 .. Len(fs)
       PROVE  Len(fs[k].ops) <= MaxOps /\ \A j \in 1 .. Len(fs[k].ops) : fs[k].ops[j].java # Unset
  <2>1. CASE k = Len(frames) + 1
    <3>1. fs[k].ops = <<>> /\ Len(<<>>) = 0
      BY <1>5, <1>8, <2>1
    <3> QED
      BY <3>1, FramesConstants
  <2>2. CASE k \in 1 .. Len(frames) /\ k = F!Here
    BY <1>6, <1>7, <1>8, <2>2
  <2>3. CASE k \in 1 .. Len(frames) /\ k # F!Here
    <3>1. fs[k] = frames[k]
      BY <1>7, <1>8, <2>3
    <3> QED
      BY <2>3, <3>1 DEF F!IInv, F!TypeOK, F!SetInv
  <2> QED
    BY <1>9, <2>1, <2>2, <2>3
<1>11. ASSUME NEW s \in Held(fs) PROVE Moved(s) \/ IsRef(s)
  <2>1. PICK k \in 1 .. Len(fs) : \/ \E j \in 1 .. MaxLocals : s = fs[k].locals[j]
                                  \/ \E j \in 1 .. Len(fs[k].ops) : s = fs[k].ops[j]
    BY <1>8, HeldIs
  <2>2. CASE k = Len(frames) + 1
    <3>1. fs[k] = callee /\ Len(<<>>) = 0
      BY <1>8, <2>2
    <3>2. \E j \in 1 .. MaxLocals : s = callee.locals[j]
      BY <1>5, <2>1, <3>1
    <3> QED
      BY <1>4, <3>2
  <2>3. CASE k \in 1 .. Len(frames)
    <3>1. s \in Held(rest)
      <4>1. k \in 1 .. Len(rest) /\ fs[k] = rest[k]
        BY <1>7, <1>8, <2>3
      <4> QED
        BY <1>7, <2>1, <4>1, HeldIs
    <3> QED
      BY <1>6, <1>7, <3>1 DEF Moved
  <2> QED
    BY <1>9, <2>2, <2>3
<1>12. /\ "field" \in F!Cells /\ heap \in [F!Cells -> F!SlotSet]
       /\ heap["field"].java \in F!ElementType("field")
  BY <1>1, BeforeStep, FramesTypes DEF F!Cells, F!Fields
<1>13. Len(fs) \in 1 .. MaxFrames
  BY <1>1, <1>2, <1>8, FramesConstants
<1> QED
  BY <1>1, <1>8, <1>10, <1>11, <1>12, <1>13, MovesKeep

LEMMA ReturnsKeep == ASSUME F!IInv, F!ReturnValue \/ F!ReturnVoid PROVE F!IInv'
<1>1. F!Executing /\ F!Goes /\ F!Here > 1
  BY DEF F!ReturnValue, F!ReturnVoid, F!HasOps
<1>2. /\ frames \in Seq(FrameSet) /\ Len(frames) \in 1 .. MaxFrames /\ F!Here = Len(frames)
      /\ "field" \in F!Cells /\ heap \in [F!Cells -> F!SlotSet]
      /\ heap["field"].java \in F!ElementType("field")
  BY <1>1, BeforeStep, FramesTypes DEF F!Here, F!Cells, F!Fields
<1> DEFINE caller == F!Front(frames)
           last == F!Here - 1
<1>3. /\ caller \in Seq(FrameSet) /\ Len(caller) = last /\ last \in 1 .. Len(frames) /\ Len(caller) \in 1 .. MaxFrames
      /\ \A k \in 1 .. Len(caller) : caller[k] = frames[k] /\ k \in 1 .. Len(frames)
  <2>1. 1 \in Nat /\ 1 <= Len(frames)
    BY <1>2
  <2>2. caller = SubSeq(frames, 1, Len(frames) - 1)
    BY DEF F!Front
  <2>3. /\ caller \in Seq(FrameSet) /\ Len(caller) = Len(frames) - 1
        /\ \A k \in 1 .. Len(frames) - 1 : caller[k] = frames[k]
    BY <1>2, <2>1, <2>2, Prefix
  <2> HIDE DEF caller
  <2>4. MaxFrames \in Nat /\ last = Len(frames) - 1 /\ Len(frames) > 1
    BY <1>1, <1>2, FramesConstants
  <2>5. last \in 1 .. Len(frames) /\ Len(caller) = last /\ last \in 1 .. MaxFrames
        /\ \A k \in 1 .. last : k \in 1 .. Len(frames)
    BY <1>2, <2>3, <2>4
  <2> QED
    BY <2>3, <2>4, <2>5
<1> HIDE DEF caller
<1>4. \A k \in 1 .. Len(caller) :
        Len(caller[k].ops) <= MaxOps /\ \A j \in 1 .. Len(caller[k].ops) : caller[k].ops[j].java # Unset
  BY <1>3 DEF F!IInv, F!TypeOK, F!SetInv
<1>5. \A k \in 1 .. Len(caller) :
        /\ \A j \in 1 .. MaxLocals : caller[k].locals[j] \in Held(frames)
        /\ \A j \in 1 .. Len(caller[k].ops) : caller[k].ops[j] \in Held(frames)
  BY <1>2, <1>3, HeldIs
<1>6. CASE F!ReturnVoid
  <2>1. F!Update(caller, heap, boxes)
    BY <1>6 DEF F!ReturnVoid, caller
  <2>2. ASSUME NEW s \in Held(caller) PROVE Moved(s)
    <3>1. s \in Held(frames)
      BY <1>3, <1>5, HeldIs
    <3> QED
      BY <3>1 DEF Moved
  <2> QED
    BY <1>1, <1>2, <1>3, <1>4, <2>1, <2>2, MovesKeep
<1>7. CASE F!ReturnValue
  <2> DEFINE x == F!CopyOf(F!Top(1))
             bs == F!WithCopy(F!Top(1))
             fs == [caller EXCEPT ![last].ops = Append(@, x)]
  <2>1. F!Update(fs, heap, bs) /\ F!HasOps(1) /\ Len(frames[last].ops) < MaxOps
    BY <1>7 DEF F!ReturnValue, caller
  <2>2. F!FreeBoxes # {} /\ F!Top(1) \in Held(frames) /\ F!Top(1).java # Unset
    <3>1. F!FreeBoxes # {} /\ 1 \in 1 .. Len(F!Ops)
      BY <2>1, FramesTypes DEF F!HasOps
    <3> QED
      BY <1>1, <3>1, TopIs
  <2>3. /\ x \in F!SlotSet /\ x.java # Unset
        /\ IsRef(x) \/ IsNew(x, bs)
        /\ \A b \in AllBoxes : boxes[b] # NoBox => bs[b] = boxes[b]
    BY <1>1, <2>2, CopyIs
  <2> HIDE DEF x, bs
  <2> DEFINE o == Append(caller[last].ops, x)
             f == [locals |-> caller[last].locals, ops |-> o]
  <2>4. caller[last] \in FrameSet /\ caller[last].ops \in Seq(F!SlotSet) /\ Len(caller[last].ops) < MaxOps
        /\ last \in 1 .. Len(caller)
    <3>1. last \in 1 .. Len(caller) /\ caller[last] = frames[last]
      BY <1>3
    <3>2. caller[last] \in FrameSet
      BY <1>3, <3>1, ElementOfSeq
    <3> QED
      BY <2>1, <3>1, <3>2 DEF FrameSet
  <2>5. /\ o \in Seq(F!SlotSet) /\ Len(o) = Len(caller[last].ops) + 1 /\ o[Len(caller[last].ops) + 1] = x
        /\ \A j \in 1 .. Len(caller[last].ops) : o[j] = caller[last].ops[j]
    BY <2>3, <2>4, AppendProperties
  <2> HIDE DEF o
  <2>6. f \in FrameSet
    BY <2>4, <2>5 DEF FrameSet
  <2>7. fs = [caller EXCEPT ![last] = f]
    <3>1. ASSUME NEW g \in FrameSet, NEW y PROVE [g EXCEPT !.ops = y] = [locals |-> g.locals, ops |-> y]
      BY DEF FrameSet
    <3>2. [caller[last] EXCEPT !.ops = Append(caller[last].ops, x)] = f
      BY <2>4, <3>1 DEF o
    <3>3. fs = [caller EXCEPT ![last] = [caller[last] EXCEPT !.ops = Append(caller[last].ops, x)]]
      OBVIOUS
    <3> QED
      BY <3>2, <3>3
  <2> HIDE DEF f, fs
  <2>8. fs \in Seq(FrameSet) /\ Len(fs) = Len(caller)
    BY <1>3, <2>4, <2>6, <2>7, ExceptSeq
  <2>9. fs[last] = f /\ \A k \in 1 .. Len(caller) : k # last => fs[k] = caller[k]
    BY <1>3, <2>4, <2>7
  <2>10. Len(caller[last].ops) \in Nat /\ \A j \in 1 .. Len(o) : j \in 1 .. Len(caller[last].ops) \/ j = Len(caller[last].ops) + 1
    BY <2>4, <2>5
  <2>11. ASSUME NEW k \in 1 .. Len(fs)
         PROVE  Len(fs[k].ops) <= MaxOps /\ \A j \in 1 .. Len(fs[k].ops) : fs[k].ops[j].java # Unset
    <3>1. CASE k # last
      BY <1>4, <2>8, <2>9, <3>1
    <3>2. CASE k = last
      <4>1. fs[k].ops = o
        BY <2>9, <3>2 DEF f
      <4>2. Len(o) <= MaxOps
        BY <2>4, <2>5, <2>10, FramesConstants
      <4>3. \A j \in 1 .. Len(o) : o[j].java # Unset
        BY <1>4, <2>3, <2>4, <2>5, <2>10
      <4> QED
        BY <4>1, <4>2, <4>3
    <3> QED
      BY <3>1, <3>2
  <2>12. ASSUME NEW s \in Held(fs) PROVE Moved(s) \/ IsRef(s) \/ IsNew(s, bs)
    <3>1. PICK k \in 1 .. Len(fs) : \/ \E j \in 1 .. MaxLocals : s = fs[k].locals[j]
                                    \/ \E j \in 1 .. Len(fs[k].ops) : s = fs[k].ops[j]
      BY <2>8, HeldIs
    <3>2. CASE k # last
      <4>1. s \in Held(frames)
        BY <1>5, <2>8, <2>9, <3>1, <3>2
      <4> QED
        BY <4>1 DEF Moved
    <3>3. CASE k = last
      <4>1. fs[k].ops = o /\ fs[k].locals = caller[last].locals
        BY <2>9, <3>3 DEF f
      <4>2. s \in Held(frames) \/ s = x
        BY <1>5, <2>4, <2>5, <2>10, <3>1, <4>1
      <4> QED
        BY <2>3, <4>2 DEF Moved
    <3> QED
      BY <3>2, <3>3
  <2> QED
    BY <1>1, <1>2, <1>3, <2>1, <2>3, <2>8, <2>11, <2>12, MovesKeep
<1> QED
  BY <1>6, <1>7

LEMMA SharedIs ==
  ASSUME F!IInv, NEW c \in F!Cells, ~F!CellIsShared(c)
  PROVE  /\ \A d \in F!Cells : d # c => heap[d].oop # heap[c].oop
         /\ \A s \in Held(frames) : s.oop # heap[c].oop
<1>1. ~F!InCells(heap[c].oop, F!Cells \ {c}) /\ ~F!InLocals(heap[c].oop, <<>>) /\ ~F!InOps(heap[c].oop)
  BY DEF F!CellIsShared
<1>2. \A d \in F!Cells : d # c => heap[d].oop # heap[c].oop
  BY <1>1 DEF F!InCells
<1>3. \A k, j : <<k, j>> # <<>>
  OBVIOUS
<1>4. \A k \in 1 .. Len(frames) : \A j \in 1 .. MaxLocals : frames[k].locals[j].oop # heap[c].oop
  BY <1>1, <1>3 DEF F!InLocals
<1>5. \A k \in 1 .. Len(frames) : \A j \in 1 .. Len(frames[k].ops) : frames[k].ops[j].oop # heap[c].oop
  BY <1>1 DEF F!InOps
<1>6. frames \in Seq(FrameSet)
  BY FramesTypes
<1>7. ~\E s \in Held(frames) : s.oop = heap[c].oop
  BY <1>4, <1>5, <1>6, HeldOop
<1> QED
  BY <1>2, <1>7

\* iinc changes a box in place: no other location has it, or there is an alias from now on.
LEMMA IincKeeps == ASSUME F!IInv, NEW i \in 1 .. MaxLocals, F!Iinc(i) PROVE F!IInv'
<1>1. PICK c \in {-1, 1} :
        F!Update([frames EXCEPT ![F!Here].locals[i].java.val = F!WrapInt(@ + c)], heap,
                 [boxes EXCEPT ![F!Locals[i].oop].val = F!WrapInt(@ + c)])
  BY DEF F!Iinc
<1>2. F!Executing /\ F!IsInt(F!Locals[i]) /\ alias' = F!LocalIsShared(i) /\ UNCHANGED fate
  BY DEF F!Iinc
<1>3. /\ frames \in Seq(FrameSet) /\ F!Here \in 1 .. Len(frames) /\ Len(frames) \in 1 .. MaxFrames
      /\ F!Locals = frames[F!Here].locals /\ frames[F!Here] \in FrameSet /\ F!Here = Len(frames)
      /\ F!Locals \in [1 .. MaxLocals -> F!SlotSet] /\ F!Locals[i] \in Held(frames)
      /\ boxes \in [AllBoxes -> F!Numbers \cup {NoBox}] /\ heap \in [F!Cells -> F!SlotSet]
  BY FramesTypes DEF F!Here, F!Locals
<1>4. /\ steps < Steps /\ fate = "running"
      /\ \A s \in Held(frames) \cup {heap[d] : d \in F!Cells} :
           /\ s.oop \in AllBoxes => boxes[s.oop] \in F!Numbers
           /\ s.java # Unset => Reads(s, boxes) = s.java
      /\ Own(frames, heap)
      /\ \A d \in F!Cells : heap[d].java \in F!ElementType(d)
  BY <1>2, BeforeStep
<1> DEFINE b == F!Locals[i].oop
           v == F!Locals[i].java.val
           new == F!Number("int", F!WrapInt(v + c))
           x == F!Slot(b, new)
           f == [locals |-> [F!Locals EXCEPT ![i] = x], ops |-> frames[F!Here].ops]
           fs == [frames EXCEPT ![F!Here] = f]
           bs == [boxes EXCEPT ![b] = new]
<1>5. /\ F!Locals[i].java = F!Number("int", v) /\ v \in Ints /\ b \in AllBoxes /\ boxes[b] = F!Locals[i].java
  <2>1. F!Locals[i].java \in {F!Number("int", w) : w \in Ints}
    BY <1>2 DEF F!IsInt
  <2>2. PICK w \in Ints : F!Locals[i].java = F!Number("int", w)
    BY <2>1
  <2>3. v = w /\ F!Locals[i].java \in F!Numbers
    BY <2>2, FramesConstants DEF F!Number
  <2>4. F!Locals[i].java # Unset
    BY <2>3, FramesConstants
  <2> QED
    BY <1>2, <1>3, <2>2, <2>3, <2>4, KindIs
<1>6. new \in F!Numbers
  <2>1. /\ F!Least(Ints) \in Int /\ F!Greatest(Ints) \in Int /\ Ints = F!Least(Ints) .. F!Greatest(Ints)
    BY InstructionsAssumption DEF F!FramesAssumption
  <2>2. v + c \in Int
    BY <1>5, FramesConstants
  <2>3. F!WrapInt(v + c) \in Ints
    BY <1>5, <2>1, <2>2 DEF F!WrapInt
  <2> QED
    BY <2>3, FramesConstants
<1>7. [frames EXCEPT ![F!Here].locals[i].java.val = F!WrapInt(@ + c)] = fs
  <2>1. [F!Locals[i].java EXCEPT !.val = F!WrapInt(v + c)] = new
    <3>1. F!Number("int", v) = [type |-> "int", val |-> v]
      BY DEF F!Number
    <3> QED
      BY <1>5, <3>1 DEF F!Number
  <2>2. [F!Locals[i] EXCEPT !.java = new] = x
    <3>1. ASSUME NEW s \in F!SlotSet, NEW y PROVE [s EXCEPT !.java = y] = [oop |-> s.oop, java |-> y]
      BY DEF F!SlotSet
    <3> QED
      BY <1>3, <3>1 DEF F!Slot
  <2>3. ASSUME NEW g \in FrameSet, NEW y PROVE [g EXCEPT !.locals = y] = [locals |-> y, ops |-> g.ops]
    BY DEF FrameSet
  <2>4. [frames[F!Here] EXCEPT !.locals = [F!Locals EXCEPT ![i] = x]] = f
    BY <1>3, <2>3
  <2> HIDE DEF x, new, f
  <2>5. [frames EXCEPT ![F!Here].locals[i].java.val = F!WrapInt(@ + c)]
          = [frames EXCEPT ![F!Here] =
              [frames[F!Here] EXCEPT !.locals =
                [frames[F!Here].locals EXCEPT ![i] =
                  [frames[F!Here].locals[i] EXCEPT !.java =
                    [frames[F!Here].locals[i].java EXCEPT !.val =
                      F!WrapInt(frames[F!Here].locals[i].java.val + c)]]]]]
    OBVIOUS
  <2> QED
    BY <1>3, <2>1, <2>2, <2>4, <2>5
<1>8. [boxes EXCEPT ![F!Locals[i].oop].val = F!WrapInt(@ + c)] = bs
  <2>1. [boxes[b] EXCEPT !.val = F!WrapInt(boxes[b].val + c)] = new
    <3>1. F!Number("int", v) = [type |-> "int", val |-> v]
      BY DEF F!Number
    <3> QED
      BY <1>5, <3>1 DEF F!Number
  <2> QED
    BY <1>5, <2>1
<1>9. F!Update(fs, heap, bs)
  BY <1>1, <1>7, <1>8
<1>10. x \in F!SlotSet /\ x.oop = b /\ x.java = new
  BY <1>5, <1>6 DEF F!Slot, F!SlotSet, F!Values
<1>11. f \in FrameSet /\ f.ops = frames[F!Here].ops /\ f.locals[i] = x
       /\ \A j \in 1 .. MaxLocals : j # i => f.locals[j] = F!Locals[j]
  BY <1>3, <1>10 DEF FrameSet
<1> HIDE DEF f, x, new
<1>12. /\ fs \in Seq(FrameSet) /\ Len(fs) = Len(frames) /\ fs[F!Here] = f
       /\ \A k \in 1 .. Len(frames) : k # F!Here => fs[k] = frames[k]
  BY <1>3, <1>11, ExceptSeq
<1>13. bs[b] = new /\ \A d \in AllBoxes : d # b => bs[d] = boxes[d]
  BY <1>3, <1>5
<1> HIDE DEF fs, bs
<1>14. ASSUME NEW s \in Held(fs)
       PROVE  s = x \/ (s \in Held(frames) /\ (~F!LocalIsShared(i) => s.oop # b))
  <2>1. PICK k \in 1 .. Len(fs) : \/ \E j \in 1 .. MaxLocals : s = fs[k].locals[j]
                                  \/ \E j \in 1 .. Len(fs[k].ops) : s = fs[k].ops[j]
    BY <1>12, HeldIs
  <2>2. CASE \E j \in 1 .. Len(fs[k].ops) : s = fs[k].ops[j]
    <3>1. fs[k].ops = frames[k].ops /\ k \in 1 .. Len(frames)
      BY <1>11, <1>12
    <3>2. PICK j \in 1 .. Len(frames[k].ops) : s = frames[k].ops[j]
      BY <2>2, <3>1
    <3>3. s \in Held(frames)
      BY <1>3, <3>1, <3>2, HeldIs
    <3>4. ~F!LocalIsShared(i) => ~F!InOps(b)
      BY <1>3 DEF F!LocalIsShared
    <3> QED
      BY <3>1, <3>2, <3>3, <3>4 DEF F!InOps
  <2>3. CASE \E j \in 1 .. MaxLocals : s = fs[k].locals[j]
    <3>1. PICK j \in 1 .. MaxLocals : s = fs[k].locals[j]
      BY <2>3
    <3>2. CASE k = F!Here /\ j = i
      BY <1>11, <1>12, <3>1, <3>2
    <3>3. CASE ~(k = F!Here /\ j = i)
      <4>1. s = frames[k].locals[j] /\ k \in 1 .. Len(frames)
        BY <1>3, <1>11, <1>12, <3>1, <3>3
      <4>2. s \in Held(frames)
        BY <1>3, <4>1, HeldIs
      <4>3. ~F!LocalIsShared(i) => ~F!InLocals(b, <<Len(frames), i>>)
        BY <1>3 DEF F!LocalIsShared
      <4>4. <<k, j>> # <<Len(frames), i>>
        BY <1>3, <3>3
      <4> QED
        BY <4>1, <4>2, <4>3, <4>4 DEF F!InLocals
    <3> QED
      BY <3>2, <3>3
  <2> QED
    BY <2>1, <2>2, <2>3
<1>15. \A d \in F!Cells : ~F!LocalIsShared(i) => heap[d].oop # b
  <2>1. ~F!LocalIsShared(i) => ~F!InCells(b, F!Cells)
    BY <1>3 DEF F!LocalIsShared
  <2> QED
    BY <2>1 DEF F!InCells
<1>16. Own(fs, heap)
  <2>1. \A s \in Held(fs) : \E o \in Held(frames) : s.oop = o.oop
    BY <1>3, <1>10, <1>14
  <2> QED
    BY <1>4, <2>1 DEF Own
<1>17. ASSUME NEW s \in F!Slots(fs, heap) PROVE s.oop \in AllBoxes => bs[s.oop] \in F!Numbers
  BY <1>4, <1>6, <1>10, <1>13, <1>14, SlotsAre
<1>18. ASSUME ~F!LocalIsShared(i), NEW s \in F!Slots(fs, heap), s.java # Unset PROVE Reads(s, bs) = s.java
  <2>1. CASE s = x
    BY <1>5, <1>10, <1>13, <2>1 DEF Reads
  <2>2. CASE s \in Held(frames) \cup {heap[d] : d \in F!Cells} /\ s.oop # b
    BY <1>4, <1>13, <1>18, <2>2 DEF Reads
  <2> QED
    BY <1>14, <1>15, <1>18, <2>1, <2>2, SlotsAre
<1>19. ASSUME NEW k \in 1 .. Len(fs)
       PROVE  Len(fs[k].ops) <= MaxOps /\ \A j \in 1 .. Len(fs[k].ops) : fs[k].ops[j].java # Unset
  <2>1. fs[k].ops = frames[k].ops /\ k \in 1 .. Len(frames)
    BY <1>11, <1>12
  <2> QED
    BY <2>1 DEF F!IInv, F!TypeOK, F!SetInv
<1>20. alias' \in BOOLEAN /\ (~alias' => ~F!LocalIsShared(i)) /\ fate' \in {"running", "abort"} /\ Len(fs) \in 1 .. MaxFrames
  BY <1>2, <1>3, <1>4, <1>12 DEF F!LocalIsShared
<1> QED
  BY <1>3, <1>4, <1>9, <1>12, <1>16, <1>17, <1>18, <1>19, <1>20, UpdateKeeps

\* compareAndSwapInt changes the box of a field in place.
LEMMA CompareKeeps == ASSUME F!IInv, NEW c \in F!Fields, F!CompareAndSwapInt(c) PROVE F!IInv'
<1> DEFINE target == heap[c].oop
           hv == heap[c].java.val
<1>1. PICK expected \in Ints, y \in Ints :
        LET swaps == boxes[target].val = expected
            ret == F!Number("int", IF swaps THEN 1 ELSE 0)
            javaRet == F!Number("int", IF heap[c].java.val = expected THEN 1 ELSE 0)
        IN /\ F!Update(F!WithOps(Append(F!Ops, F!Slot(F!Fresh, javaRet))),
                       [heap EXCEPT ![c].java.val = IF @ = expected THEN y ELSE @],
                       [b \in AllBoxes |-> CASE b = F!Fresh -> ret
                                          [] b = target /\ swaps -> F!Number("int", y)
                                          [] OTHER -> boxes[b]])
           /\ alias' = (swaps /\ y # expected /\ F!CellIsShared(c))
  BY DEF F!CompareAndSwapInt
<1>2. F!Executing /\ Len(F!Ops) < MaxOps /\ F!FreeBoxes # {} /\ UNCHANGED fate
  BY DEF F!CompareAndSwapInt, F!Room
<1>3. /\ steps < Steps /\ fate = "running"
      /\ \A s \in Held(frames) \cup {heap[d] : d \in F!Cells} :
           /\ s.oop \in AllBoxes => boxes[s.oop] \in F!Numbers
           /\ s.java # Unset => Reads(s, boxes) = s.java
           /\ s.oop # F!Fresh
      /\ F!Fresh \in AllBoxes
      /\ Own(frames, heap)
      /\ \A d \in F!Cells : heap[d].java \in F!ElementType(d) /\ heap[d].java # Unset
  BY <1>2, BeforeStep
<1>4. /\ heap \in [F!Cells -> F!SlotSet] /\ boxes \in [AllBoxes -> F!Numbers \cup {NoBox}] /\ c \in F!Cells
      /\ heap[c] \in F!SlotSet /\ F!Ops \in Seq(F!SlotSet) /\ Len(F!Ops) \in Nat /\ c \notin F!Arrays
      /\ Len(frames) \in 1 .. MaxFrames
  BY FramesTypes, CellKinds DEF F!Fields, F!Arrays, F!ByteArrays
<1>5. heap[c].java = F!Number("int", hv) /\ hv \in Ints /\ target \in AllBoxes /\ boxes[target] = heap[c].java
  <2>1. heap[c].java \in {F!Number("int", w) : w \in Ints}
    BY <1>3, <1>4, CellKinds DEF F!Fields
  <2>2. PICK w \in Ints : heap[c].java = F!Number("int", w)
    BY <2>1
  <2>3. hv = w /\ heap[c].java \in F!Numbers
    BY <2>2, FramesConstants DEF F!Number
  <2> QED
    BY <1>2, <1>3, <1>4, <2>2, <2>3, KindIs
<1> DEFINE swaps == hv = expected
           ret == F!Number("int", IF swaps THEN 1 ELSE 0)
           new == F!Number("int", IF swaps THEN y ELSE hv)
           x == F!Slot(F!Fresh, ret)
           cell == F!Slot(target, new)
           h == [heap EXCEPT ![c] = cell]
           o == Append(F!Ops, x)
           bs == [b \in AllBoxes |-> CASE b = F!Fresh -> ret
                                    [] b = target /\ swaps -> F!Number("int", y)
                                    [] OTHER -> boxes[b]]
<1>6. [heap EXCEPT ![c].java.val = IF @ = expected THEN y ELSE @] = h
  <2>1. [heap[c].java EXCEPT !.val = IF hv = expected THEN y ELSE hv] = new
    <3>1. F!Number("int", hv) = [type |-> "int", val |-> hv]
      BY DEF F!Number
    <3> QED
      BY <1>5, <3>1 DEF F!Number
  <2>2. [heap[c] EXCEPT !.java = new] = cell
    <3>1. ASSUME NEW s \in F!SlotSet, NEW z PROVE [s EXCEPT !.java = z] = [oop |-> s.oop, java |-> z]
      BY DEF F!SlotSet
    <3> QED
      BY <1>4, <3>1 DEF F!Slot
  <2> HIDE DEF new, cell
  <2>3. [heap EXCEPT ![c].java.val = IF @ = expected THEN y ELSE @]
          = [heap EXCEPT ![c] = [heap[c] EXCEPT !.java =
              [heap[c].java EXCEPT !.val = IF heap[c].java.val = expected THEN y ELSE heap[c].java.val]]]
    OBVIOUS
  <2> QED
    BY <2>1, <2>2, <2>3
<1>7. boxes[target].val = expected <=> swaps
  BY <1>5
<1>8. F!Update(F!WithOps(o), h, bs) /\ alias' = (swaps /\ y # expected /\ F!CellIsShared(c))
  BY <1>1, <1>5, <1>6
<1>9. /\ ret \in F!Numbers /\ new \in F!Numbers /\ F!Number("int", y) \in F!Numbers
      /\ new \in F!ElementType(c) /\ ret # Unset
      /\ swaps => new = F!Number("int", y)
      /\ ~swaps => new = boxes[target]
  BY <1>5, FramesConstants, CellKinds DEF F!Fields
<1>10. /\ x \in F!SlotSet /\ x.oop = F!Fresh /\ x.java = ret /\ x.java # Unset
       /\ cell \in F!SlotSet /\ cell.oop = target /\ cell.java = new
  BY <1>3, <1>5, <1>9 DEF F!Slot, F!SlotSet, F!Values
<1> HIDE DEF ret, new, x, cell
<1>11. h \in [F!Cells -> F!SlotSet] /\ h[c] = cell /\ \A d \in F!Cells : d # c => h[d] = heap[d]
  BY <1>4, <1>10, OneCell
<1>12. F!Fresh # target
  BY <1>3, <1>4
<1>13. /\ bs[F!Fresh] = ret /\ bs[target] = new
       /\ \A b \in AllBoxes : b # F!Fresh /\ b # target => bs[b] = boxes[b]
  <2> HIDE DEF target, swaps
  <2>1. bs[F!Fresh] = ret
    BY <1>3, <1>12
  <2>2. bs[target] = new
    <3>1. CASE swaps
      BY <1>5, <1>9, <1>12, <3>1
    <3>2. CASE ~swaps
      BY <1>5, <1>9, <1>12, <3>2
    <3> QED
      BY <3>1, <3>2
  <2>3. \A b \in AllBoxes : b # F!Fresh /\ b # target => bs[b] = boxes[b]
    OBVIOUS
  <2> QED
    BY <2>1, <2>2, <2>3
<1> HIDE DEF bs, h
<1>14. /\ o \in Seq(F!SlotSet) /\ Len(o) = Len(F!Ops) + 1 /\ o[Len(F!Ops) + 1] = x
       /\ \A j \in 1 .. Len(F!Ops) : o[j] = F!Ops[j]
  BY <1>4, <1>10, AppendProperties
<1> HIDE DEF o
<1> DEFINE fs == F!WithOps(o)
<1>15. /\ fs \in Seq(FrameSet) /\ Len(fs) = Len(frames)
       /\ \A k \in 1 .. Len(frames) : k # F!Here => fs[k] = frames[k]
       /\ fs[F!Here] = [locals |-> F!Locals, ops |-> o]
       /\ \A s \in Held(fs) : s \in Held(frames) \/ \E j \in 1 .. Len(o) : s = o[j]
  BY <1>14, WithOpsIs
<1> HIDE DEF fs
<1>16. \A j \in 1 .. Len(o) : (o[j] \in Held(frames) /\ o[j].java # Unset) \/ o[j] = x
  <2>1. \A j \in 1 .. Len(o) : j \in 1 .. Len(F!Ops) \/ j = Len(F!Ops) + 1
    BY <1>4, <1>14
  <2> QED
    BY <1>14, <2>1, FramesTypes
<1>17. \A s \in Held(fs) : s \in Held(frames) \/ s = x
  BY <1>15, <1>16
<1>18. ASSUME NEW k \in 1 .. Len(fs)
       PROVE  Len(fs[k].ops) <= MaxOps /\ \A j \in 1 .. Len(fs[k].ops) : fs[k].ops[j].java # Unset
  <2>1. CASE k # F!Here
    <3>1. fs[k] = frames[k] /\ k \in 1 .. Len(frames)
      BY <1>15, <2>1
    <3> QED
      BY <3>1 DEF F!IInv, F!TypeOK, F!SetInv
  <2>2. CASE k = F!Here
    <3>1. fs[k].ops = o
      BY <1>15, <2>2
    <3>2. Len(o) <= MaxOps
      BY <1>2, <1>4, <1>14, FramesConstants
    <3> QED
      BY <1>10, <1>16, <3>1, <3>2
  <2> QED
    BY <2>1, <2>2
<1>19. \A d \in F!Cells : h[d].oop = heap[d].oop
  BY <1>10, <1>11
<1>20. Own(fs, h)
  <2> SUFFICES ASSUME NEW a \in F!Arrays, h[a].oop \in AllBoxes
               PROVE  /\ \A d \in F!Cells : d # a => h[d].oop # h[a].oop
                      /\ \A s \in Held(fs) : s.oop # h[a].oop
    BY DEF Own
  <2>1. a \in F!Cells /\ heap[a] \in {heap[d] : d \in F!Cells}
    BY CellKinds
  <2>2. /\ \A d \in F!Cells : d # a => heap[d].oop # heap[a].oop
        /\ \A s \in Held(frames) : s.oop # heap[a].oop
        /\ heap[a].oop # F!Fresh
    BY <1>3, <1>19, <2>1 DEF Own
  <2> QED
    BY <1>10, <1>17, <1>19, <2>1, <2>2
<1>21. ASSUME NEW s \in F!Slots(fs, h) PROVE s = x \/ s = cell \/ s \in Held(frames) \cup {heap[d] : d \in F!Cells}
  BY <1>11, <1>17, SlotsAre
<1>22. ASSUME NEW s \in F!Slots(fs, h) PROVE s.oop \in AllBoxes => bs[s.oop] \in F!Numbers
  BY <1>3, <1>9, <1>10, <1>13, <1>21
<1>23. ASSUME ~alias', NEW s \in F!Slots(fs, h), s.java # Unset PROVE Reads(s, bs) = s.java
  <2>1. CASE s = x
    BY <1>3, <1>10, <1>13, <2>1 DEF Reads
  <2>2. CASE s = cell
    BY <1>5, <1>10, <1>13, <2>2 DEF Reads
  <2>3. CASE s # x /\ s # cell /\ s.oop # target
    <3>1. s \in Held(frames) \cup {heap[d] : d \in F!Cells}
      BY <1>21, <2>3
    <3>2. s.oop # F!Fresh /\ Reads(s, boxes) = s.java
      BY <1>3, <1>23, <3>1
    <3> QED
      BY <1>13, <2>3, <3>2 DEF Reads
  <2>4. CASE s # x /\ s # cell /\ s.oop = target
    <3>1. s \in Held(frames) \/ \E d \in F!Cells : d # c /\ s = heap[d]
      BY <1>11, <1>17, <2>4, SlotsAre
    <3>2. F!CellIsShared(c)
      BY <1>4, <2>4, <3>1, SharedIs
    <3>3. new = boxes[target]
      <4>1. ~swaps \/ y = expected
        BY <1>8, <1>23, <3>2
      <4>2. swaps /\ y = expected => F!Number("int", y) = boxes[target]
        BY <1>5
      <4> QED
        BY <1>9, <4>1, <4>2
    <3>4. Reads(s, boxes) = s.java
      BY <1>3, <1>23, <3>1
    <3> QED
      BY <1>5, <1>13, <2>4, <3>3, <3>4 DEF Reads
  <2> QED
    BY <2>1, <2>2, <2>3, <2>4
<1>24. \A d \in F!Cells : h[d].java \in F!ElementType(d)
  BY <1>3, <1>9, <1>10, <1>11
<1>25. alias' \in BOOLEAN /\ fate' \in {"running", "abort"} /\ Len(fs) \in 1 .. MaxFrames /\ F!Update(fs, h, bs)
  BY <1>2, <1>3, <1>4, <1>8, <1>15 DEF F!CellIsShared, fs
<1> QED
  BY <1>3, <1>11, <1>15, <1>18, <1>20, <1>22, <1>23, <1>24, <1>25, UpdateKeeps

LEMMA FramesStart == ASSUME F!Init PROVE F!IInv
<1>1. /\ frames = <<F!EmptyFrame>> /\ alias = FALSE /\ fate = "running" /\ steps = 0
      /\ heap = [c \in F!Cells |-> F!Slot(IF F!Zero(c) = Null THEN Null ELSE F!CellBox(c), F!Zero(c))]
      /\ boxes = [b \in AllBoxes |-> IF b \in 1 .. 4 THEN F!Number("int", 0) ELSE NoBox]
  BY DEF F!Init
<1> DEFINE empty == F!Slot(Null, Unset)
<1>2. empty \in F!SlotSet /\ empty.oop = Null /\ empty.java = Unset /\ Null \notin AllBoxes
  BY FramesConstants DEF F!Slot, F!SlotSet, F!Values
<1>3. F!EmptyFrame \in FrameSet /\ F!EmptyFrame.ops = <<>> /\ F!EmptyFrame.locals = [i \in 1 .. MaxLocals |-> empty]
  BY <1>2 DEF F!EmptyFrame, FrameSet
<1> HIDE DEF empty
<1>4. frames \in Seq(FrameSet) /\ Len(frames) = 1 /\ frames[1] = F!EmptyFrame
  BY <1>1, <1>3
<1>5. Len(frames[1].ops) = 0 /\ \A k \in 1 .. Len(frames) : k = 1
  BY <1>3, <1>4
<1>6. \A s \in Held(frames) : s = empty
  <2>1. ASSUME NEW s \in Held(frames) PROVE s = empty
    <3>1. PICK k \in 1 .. Len(frames) : \/ \E j \in 1 .. MaxLocals : s = frames[k].locals[j]
                                        \/ \E j \in 1 .. Len(frames[k].ops) : s = frames[k].ops[j]
      BY <1>4, HeldIs
    <3>2. k = 1 /\ frames[k].ops = <<>> /\ Len(<<>>) = 0 /\ frames[k].locals = [i \in 1 .. MaxLocals |-> empty]
      BY <1>3, <1>4, <1>5
    <3>3. PICK j \in 1 .. MaxLocals : s = frames[k].locals[j]
      BY <3>1, <3>2
    <3> QED
      BY <3>2, <3>3
  <2> QED
    BY <2>1
<1>7. /\ F!Number("int", 0) \in F!Numbers /\ F!Number("int", 0) # Null /\ F!Number("int", 0) # Unset
      /\ F!Number("int", 0) \in {F!Number("int", w) : w \in Ints}
  BY FramesConstants
<1>8. /\ heap["field"] = F!Slot(1, F!Number("int", 0)) /\ heap["static"] = F!Slot(2, F!Number("int", 0))
      /\ heap["int[]"] = F!Slot(3, F!Number("int", 0)) /\ heap["byte[]"] = F!Slot(4, F!Number("int", 0))
      /\ heap["Object[]"] = F!Slot(Null, Null)
  BY <1>1, <1>7 DEF F!Cells, F!Fields, F!Arrays, F!ByteArrays, F!Zero, F!CellBox
<1>9. \A c \in F!Cells : c \in {"field", "static", "int[]", "byte[]", "Object[]"}
  BY DEF F!Cells, F!Fields, F!Arrays, F!ByteArrays
<1>10. 1 \in AllBoxes /\ 2 \in AllBoxes /\ 3 \in AllBoxes /\ 4 \in AllBoxes /\ \A b \in 1 .. 4 : boxes[b] = F!Number("int", 0)
  BY <1>1, FramesConstants
<1>11. ASSUME NEW c \in F!Cells
       PROVE  /\ heap[c] \in F!SlotSet /\ heap[c].java \in F!ElementType(c)
              /\ heap[c].oop \in AllBoxes => boxes[heap[c].oop] = F!Number("int", 0)
              /\ Reads(heap[c], boxes) = heap[c].java
  <2>1. CASE c = "Object[]"
    BY <1>2, <1>8, <2>1, FramesConstants DEF F!Slot, F!SlotSet, F!Values, F!ElementType, Reads
  <2>2. CASE c # "Object[]"
    <3>1. PICK b \in 1 .. 4 : heap[c] = F!Slot(b, F!Number("int", 0))
      BY <1>8, <1>9, <2>2
    <3>2. b \in AllBoxes /\ boxes[b] = F!Number("int", 0)
      BY <1>10, FramesConstants
    <3> QED
      BY <1>7, <2>2, <3>1, <3>2, CellKinds DEF F!Slot, F!SlotSet, F!Values, Reads
  <2> QED
    BY <2>1, <2>2
<1>12. heap \in [F!Cells -> F!SlotSet]
  BY <1>1, <1>11
<1>13. F!TypeOK
  <2>1. boxes \in [AllBoxes -> F!Numbers \cup {NoBox}]
    BY <1>1, <1>7
  <2>2. Len(frames) \in 1 .. MaxFrames /\ (\A k \in 1 .. Len(frames) : Len(frames[k].ops) <= MaxOps) /\ steps \in 0 .. Steps
    BY <1>1, <1>4, <1>5, FramesConstants
  <2> QED
    BY <1>1, <1>4, <1>12, <2>1, <2>2 DEF F!TypeOK, FrameSet
<1>14. F!SetInv
  BY <1>5, <1>11 DEF F!SetInv
<1>15. F!UsedInv /\ F!SameValues
  BY <1>2, <1>6, <1>7, <1>11, SlotsAre DEF F!UsedInv, F!SameValues, F!IsNumber, F!Read, Reads
<1>16. Own(frames, heap)
  <2>1. ASSUME NEW c \in F!Arrays, heap[c].oop \in AllBoxes, NEW d \in F!Cells, d # c PROVE heap[d].oop # heap[c].oop
    BY <1>2, <1>8, <1>9, <2>1, FramesConstants, CellKinds DEF F!Slot
  <2> QED
    BY <1>2, <1>6, <2>1 DEF Own
<1> QED
  BY <1>4, <1>13, <1>14, <1>15, <1>16, OwnIs DEF F!IInv

LEMMA FramesStep == ASSUME F!IInv, [F!Next]_fVars PROVE F!IInv'
<1>1. ASSUME NEW i \in 1 .. MaxLocals, F!LongForm(i) PROVE F!IInv'
  BY <1>1, AbortKeeps DEF F!LongForm
<1>2. CASE UNCHANGED fVars
  <2>1. UNCHANGED <<boxes, frames, heap, alias, fate, steps>>
    BY <1>2 DEF fVars
  <2>2. F!TypeOK' /\ F!SetInv'
    BY <2>1 DEF F!IInv, F!TypeOK, F!SetInv
  <2>3. F!Slots(frames, heap)' = F!Slots(frames, heap)
    BY <2>1
  <2>4. F!UsedInv' /\ F!SameValues'
    BY <2>1, <2>3 DEF F!IInv, F!UsedInv, F!SameValues, F!IsNumber, F!Read
  <2>5. F!ElementsOwnTheirBox'
    BY <2>1 DEF F!IInv, F!ElementsOwnTheirBox, F!IsNumber, F!CellIsShared, F!InCells, F!InLocals, F!InOps
  <2> QED
    BY <2>2, <2>4, <2>5 DEF F!IInv
<1>3. CASE F!Next
  BY <1>1, <1>3, ConstantsKeep, LoadsKeep, StoresKeep, IincKeeps, FieldsKeep, ArraysAreMade, ArraysAreRead,
     ArraysAreWritten, CompareKeeps, CallsKeep, ReturnsKeep DEF F!Next
<1> QED
  BY <1>2, <1>3

-----------------------------------------------------------------------------
(* System.arraycopy.                                                            *)

LEMMA Elements ==
  ASSUME NEW a \in ArrayOops
  PROVE  /\ a = Y!ArrayOop(a.ooptype, a.type, a.dimension, a.buf)
         /\ Y!Size(a) \in Nat /\ DOMAIN a.buf = 0 .. Y!Size(a) - 1
         /\ a.buf = [k \in DOMAIN a.buf |-> a.buf[k]]
         /\ a.ooptype \in {"TypeArray", "ObjArray"}
         /\ \A k \in Int : Y!InArray(a, k) <=> k \in DOMAIN a.buf
<1>1. /\ a = Y!ArrayOop(a.ooptype, a.type, a.dimension, a.buf)
      /\ Y!Size(a) \in Nat /\ a.buf = [k \in 0 .. Y!Size(a) - 1 |-> a.buf[k]]
      /\ a.ooptype \in {"TypeArray", "ObjArray"}
  BY InstructionsAssumption DEF Y!CopyAssumption, Y!Size
<1>2. DOMAIN a.buf = 0 .. Y!Size(a) - 1
  BY <1>1
<1> QED
  BY <1>1, <1>2 DEF Y!InArray

LEMMA CopyStart == ASSUME Y!Init PROVE Y!IInv
<1>1. src \in ArrayOops /\ dst \in ArrayOops /\ old = dst /\ copied = 0 /\ copyOut = "called"
  BY DEF Y!Init
<1>2. Y!TypeOK
  BY <1>1 DEF Y!TypeOK
<1>3. src_pos \in Int /\ dst_pos \in Int /\ length \in Int /\ (same => src = old)
  <2>1. Positions \subseteq Int /\ Lengths \subseteq Int
    BY InstructionsAssumption DEF Y!CopyAssumption
  <2>2. /\ src_pos \in Positions /\ dst_pos \in Positions /\ length \in Lengths
        /\ (same => src = dst) /\ old = dst
    BY DEF Y!Init
  <2> QED
    BY <2>1, <2>2
<1>5. dst = Y!ArrayOop(old.ooptype, old.type, old.dimension, dst.buf)
  BY <1>1, Elements
<1>6. dst.buf = [k \in DOMAIN old.buf |->
                   IF k \in dst_pos .. dst_pos + copied - 1 THEN src.buf[src_pos + k - dst_pos] ELSE old.buf[k]]
  <2>1. dst_pos .. dst_pos + copied - 1 = {}
    BY <1>1, <1>3
  <2> QED
    BY <1>1, <2>1, Elements
<1> QED
  BY <1>1, <1>2, <1>3, <1>5, <1>6 DEF Y!IInv

LEMMA CopyStep == ASSUME Y!IInv, [Y!Next]_yVars PROVE Y!IInv'
<1>t. /\ src \in ArrayOops /\ old \in ArrayOops /\ DOMAIN dst.buf = DOMAIN old.buf
      /\ copied \in Nat /\ src_pos \in Int /\ dst_pos \in Int /\ length \in Int
      /\ (same => src = old)
      /\ dst = Y!ArrayOop(old.ooptype, old.type, old.dimension, dst.buf)
      /\ dst.buf = [k \in DOMAIN old.buf |->
                   IF k \in dst_pos .. dst_pos + copied - 1 THEN src.buf[src_pos + k - dst_pos] ELSE old.buf[k]]
      /\ (copied > 0 => copied <= length)
      /\ \A k \in 0 .. copied - 1 : Y!InArray(src, src_pos + k) /\ Y!InArray(old, dst_pos + k)
  BY DEF Y!IInv, Y!TypeOK
<1>s. \A k : Y!InArray(dst, k) <=> Y!InArray(old, k)
  BY <1>t DEF Y!InArray, Y!Size
<1>1. CASE Y!Call
  BY <1>1 DEF Y!Call, Y!IInv, Y!TypeOK, Y!Accepted, Y!arguments
<1>2. CASE Y!CopyElement
  <2>0. /\ copyOut = "copying" /\ copied < length
        /\ UNCHANGED <<src, same, src_pos, dst_pos, length, old>>
    BY <1>2 DEF Y!CopyElement, Y!arguments
  <2>1. CASE Y!BothInArray /\ Y!Store
    <3>1. /\ Y!InArray(src, src_pos + copied) /\ Y!InArray(old, dst_pos + copied)
          /\ dst' = [dst EXCEPT !.buf[dst_pos + copied] = src.buf[src_pos + copied]]
          /\ copied' = copied + 1 /\ UNCHANGED copyOut
      BY <2>1, <1>s DEF Y!BothInArray, Y!Store, Y!Source
    <3>2. /\ dst'.buf = [dst.buf EXCEPT ![dst_pos + copied] = src.buf[src_pos + copied]]
          /\ dst' = Y!ArrayOop(old.ooptype, old.type, old.dimension, dst'.buf)
      BY <3>1, <1>t DEF Y!ArrayOop
    <3>3. dst'.buf = [k \in DOMAIN old.buf |->
                        IF k \in dst_pos .. dst_pos + copied' - 1 THEN src.buf[src_pos + k - dst_pos]
                        ELSE old.buf[k]]
      <4> DEFINE new == [k \in DOMAIN old.buf |->
                           IF k \in dst_pos .. dst_pos + copied' - 1 THEN src.buf[src_pos + k - dst_pos]
                           ELSE old.buf[k]]
      <4>0. DOMAIN old.buf = 0 .. Y!Size(old) - 1 /\ Y!Size(old) \in Nat
        BY <1>t, Elements
      <4>1. DOMAIN old.buf \subseteq Int
        BY <4>0
      <4>3. dst'.buf = [k \in DOMAIN old.buf |-> dst'.buf[k]]
        BY <3>2, <1>t
      <4>2. ASSUME NEW k \in DOMAIN old.buf PROVE dst'.buf[k] = new[k]
        <5>1. k \in Int /\ dst_pos + copied \in Int
          BY <4>1, <1>t
        <5>2. CASE k = dst_pos + copied
          <6>1. k \in dst_pos .. dst_pos + copied' - 1 /\ src_pos + k - dst_pos = src_pos + copied
            BY <5>2, <5>1, <1>t, <3>1
          <6> QED
            BY <5>2, <6>1, <3>2, <1>t
        <5>3. CASE k # dst_pos + copied
          <6>1. k \in dst_pos .. dst_pos + copied' - 1 <=> k \in dst_pos .. dst_pos + copied - 1
            BY <5>3, <5>1, <1>t, <3>1
          <6>2. dst'.buf[k] = dst.buf[k]
            BY <3>2, <5>3, <1>t
          <6> QED
            BY <6>1, <6>2, <1>t
        <5> QED
          BY <5>2, <5>3
      <4> QED
        BY <4>2, <4>3
    <3>4. DOMAIN dst'.buf = DOMAIN old.buf
      BY <3>3
    <3>5. \A k \in 0 .. copied' - 1 : Y!InArray(src, src_pos + k) /\ Y!InArray(old, dst_pos + k)
      <4>1. \A k \in 0 .. copied' - 1 : k \in 0 .. copied - 1 \/ k = copied
        BY <1>t, <3>1
      <4> QED
        BY <4>1, <1>t, <3>1
    <3> QED
      BY <2>0, <3>1, <3>2, <3>3, <3>4, <3>5, <1>t DEF Y!IInv, Y!TypeOK, Y!InArray, Y!Size
  <2>2. CASE ~Y!BothInArray /\ copyOut' = "abort" /\ UNCHANGED <<dst, copied>>
    BY <2>0, <2>2 DEF Y!IInv, Y!TypeOK, Y!InArray, Y!Size, Y!BothInArray, Y!Accepted
  <2> QED
    BY <1>2, <2>1, <2>2 DEF Y!CopyElement
<1>3. CASE Y!End
  BY <1>3 DEF Y!End, Y!IInv, Y!TypeOK, Y!arguments, Y!InArray, Y!Size
<1>4. CASE UNCHANGED yVars
  BY <1>4 DEF yVars, Y!IInv, Y!TypeOK, Y!InArray, Y!Size, Y!Accepted, Y!BothInArray
<1> QED
  BY <1>1, <1>2, <1>3, <1>4 DEF Y!Next

LEMMA CopiesAgree == ASSUME Y!IInv PROVE CopiesAreJavas
<1>t. /\ src \in ArrayOops /\ old \in ArrayOops /\ DOMAIN dst.buf = DOMAIN old.buf
      /\ copied \in Nat /\ src_pos \in Int /\ dst_pos \in Int /\ length \in Int
      /\ (same => src = old)
      /\ dst = Y!ArrayOop(old.ooptype, old.type, old.dimension, dst.buf)
      /\ dst.buf = [k \in DOMAIN old.buf |->
                   IF k \in dst_pos .. dst_pos + copied - 1 THEN src.buf[src_pos + k - dst_pos] ELSE old.buf[k]]
      /\ (copied > 0 => copied <= length)
      /\ \A k \in 0 .. copied - 1 : Y!InArray(src, src_pos + k) /\ Y!InArray(old, dst_pos + k)
      /\ (copyOut = "done" => copied >= length)
      /\ (copyOut = "abort" => ~Y!Accepted \/ (copied < length /\ ~Y!BothInArray))
  BY DEF Y!IInv, Y!TypeOK
<1>s. Y!Size(dst) = Y!Size(old) /\ Y!Size(src) \in Nat /\ Y!Size(old) \in Nat
  <2>1. DOMAIN dst.buf = DOMAIN old.buf /\ src \in ArrayOops /\ old \in ArrayOops
    BY <1>t
  <2> QED
    BY <2>1, Elements DEF Y!Size
<1>1. Y!CopiesAsJava
  <2> SUFFICES ASSUME copyOut = "done", ~Y!JavaThrows PROVE dst.buf = Y!JavaCopy
    BY DEF Y!CopiesAsJava
  <2>1. length >= 0 /\ copied = length
    BY <1>t DEF Y!JavaThrows, Y!IndicesAreWrong
  <2> QED
    BY <2>1, <1>t DEF Y!JavaCopy
<1>2. Y!ThrowsAreAborts
  <2> SUFFICES ASSUME copyOut = "done", length > 0 PROVE ~Y!IndicesAreWrong
    BY DEF Y!ThrowsAreAborts
  <2>1. copied = length /\ 0 \in 0 .. copied - 1 /\ length - 1 \in 0 .. copied - 1
    BY <1>t
  <2>2. /\ src_pos + 0 >= 0 /\ dst_pos + 0 >= 0
        /\ src_pos + (length - 1) < Y!Size(src) /\ dst_pos + (length - 1) < Y!Size(old)
    BY <2>1, <1>t DEF Y!InArray
  <2> QED
    BY <2>2, <1>t, <1>s DEF Y!IndicesAreWrong
<1>3. Y!CopiesAreCopied
  <2> SUFFICES ASSUME copyOut = "abort", ~Y!JavaThrows
               PROVE ~same /\ (src.ooptype # dst.ooptype \/ src.dimension # dst.dimension \/ Y!SearchDies(src))
    BY DEF Y!CopiesAreCopied
  <2>1. /\ src_pos >= 0 /\ dst_pos >= 0 /\ length >= 0
        /\ src_pos + length <= Y!Size(src) /\ dst_pos + length <= Y!Size(dst)
    BY <1>t, <1>s DEF Y!JavaThrows, Y!IndicesAreWrong
  <2>2. copied < length => Y!BothInArray
    BY <2>1, <1>t, <1>s DEF Y!BothInArray, Y!InArray
  <2>3. ~Y!Accepted
    BY <2>2, <1>t
  <2>4. src.ooptype \in {"TypeArray", "ObjArray"}
    BY <1>t, Elements
  <2> QED
    BY <2>1, <2>3, <2>4 DEF Y!Accepted
<1> QED
  BY <1>1, <1>2, <1>3 DEF CopiesAreJavas

-----------------------------------------------------------------------------
(* TypeCheck: checkcast and instanceof.                                         *)

\* The assumption on the classes.
LEMMA Hierarchy ==
  /\ Classes \cap Interfaces = {} /\ NoClass \notin T!Instances
  /\ Object \in Classes /\ Cloneable \in Interfaces
  /\ Parent \in [T!Instances -> Classes \cup {NoClass}]
  /\ \A c \in T!Instances : (Parent[c] = NoClass <=> c = Object) /\ Object \in T!Reachable(c, T!Superclass)
  /\ \A i \in Interfaces : Parent[i] = Object
  /\ Implements \in [T!Instances -> SUBSET Interfaces]
BY InstructionsAssumption DEF InstructionsAssumption, T!HierarchyAssumption

\* Where a walk comes to: its start, what follows a place it comes to, and nothing outside a
\* set that the walk does not leave.
LEMMA Itself ==
  ASSUME NEW c \in T!Instances, NEW step PROVE c \in T!Reachable(c, step)
BY DEF T!Reachable

LEMMA Further ==
  ASSUME NEW c \in T!Instances, NEW step, NEW d \in T!Reachable(c, step),
         NEW e \in step[d], e \in T!Instances
  PROVE  e \in T!Reachable(c, step)
BY DEF T!Reachable

LEMMA Within ==
  ASSUME NEW c \in T!Instances, NEW step, NEW W \in SUBSET T!Instances,
         c \in W, \A d \in W : step[d] \subseteq W
  PROVE  T!Reachable(c, step) \subseteq W
BY DEF T!Reachable

LEMMA Upwards ==
  ASSUME NEW d \in T!Instances
  PROVE  /\ T!Superclass[d] = {Parent[d]} \ {NoClass}
         /\ T!Supertypes[d] = ({Parent[d]} \ {NoClass}) \cup Implements[d]
         /\ Parent[d] \in Classes \cup {NoClass} /\ Implements[d] \subseteq Interfaces
         /\ T!Superclass[d] \subseteq T!Instances /\ T!Supertypes[d] \subseteq T!Instances
<1>1. Parent[d] \in Classes \cup {NoClass} /\ Implements[d] \subseteq Interfaces
  BY Hierarchy
<1>2. T!Superclass[d] = {Parent[d]} \ {NoClass}
  BY DEF T!Superclass
<1>3. T!Supertypes[d] = ({Parent[d]} \ {NoClass}) \cup Implements[d]
  BY <1>2 DEF T!Supertypes
<1> QED
  BY <1>1, <1>2, <1>3 DEF T!Instances

\* Superclasses are supertypes.
LEMMA LineIsAbove ==
  ASSUME NEW c \in T!Instances
  PROVE  T!Reachable(c, T!Superclass) \subseteq T!Reachable(c, T!Supertypes)
<1> DEFINE W == T!Reachable(c, T!Supertypes)
<1>1. W \subseteq T!Instances
  BY DEF T!Reachable
<1>2. \A d \in W : T!Superclass[d] \subseteq W
  BY <1>1, Upwards, Further
<1> QED
  BY <1>1, <1>2, Itself, Within

\* check_parent finds supertypes.
LEMMA ParentIsAbove ==
  ASSUME NEW c \in T!Instances, NEW k, k # NoClass, T!check_parent(c, k)
  PROVE  k \in T!Reachable(c, T!Supertypes)
<1>1. PICK d \in T!Reachable(c, T!Superclass) : Parent[d] = k
  BY DEF T!check_parent
<1>2. d \in T!Reachable(c, T!Supertypes) /\ d \in T!Instances
  BY <1>1, LineIsAbove DEF T!Reachable
<1>3. k \in T!Supertypes[d] /\ k \in T!Instances
  BY <1>1, <1>2, Upwards
<1> QED
  BY <1>2, <1>3, Further

LEMMA InterfaceIsAbove ==
  ASSUME NEW c \in T!Instances, NEW k, T!check_interfaces(c, k)
  PROVE  k \in T!Reachable(c, T!Supertypes)
<1>1. PICK d \in T!Reachable(c, T!Supertypes) : k \in Implements[d]
  BY DEF T!check_interfaces
<1>2. d \in T!Instances
  BY <1>1 DEF T!Reachable
<1>3. k \in T!Supertypes[d] /\ k \in T!Instances
  BY <1>1, <1>2, Upwards
<1> QED
  BY <1>1, <1>3, Further

\* check_interfaces finds every interface above c but c itself.
LEMMA InterfacesAreFound ==
  ASSUME NEW c \in T!Instances, NEW k \in Interfaces, k \in T!Reachable(c, T!Supertypes), k # c
  PROVE  T!check_interfaces(c, k)
<1> SUFFICES ASSUME \A d \in T!Reachable(c, T!Supertypes) : k \notin Implements[d] PROVE FALSE
  BY DEF T!check_interfaces
<1> DEFINE W == T!Reachable(c, T!Supertypes) \ {k}
<1>1. W \subseteq T!Instances /\ c \in W
  BY Itself DEF T!Reachable
<1>2. ASSUME NEW d \in W, NEW e \in T!Supertypes[d] PROVE e \in W
  <2>1. e \in T!Reachable(c, T!Supertypes)
    BY <1>1, <1>2, Upwards, Further
  <2>2. e # k
    BY <1>1, <1>2, Upwards, Hierarchy
  <2> QED
    BY <2>1, <2>2
<1>3. T!Reachable(c, T!Supertypes) \subseteq W
  BY <1>1, <1>2, Within
<1> QED
  BY <1>3

\* Of the classes, a class has only its superclasses above it, and an interface only Object.
LEMMA ClassesAbove ==
  ASSUME NEW c \in T!Instances, NEW k \in Classes, k \in T!Reachable(c, T!Supertypes)
  PROVE  k \in T!Reachable(c, T!Superclass)
<1> DEFINE W == T!Reachable(c, T!Superclass) \cup Interfaces
<1>1. W \subseteq T!Instances /\ c \in W
  BY Itself DEF T!Reachable, T!Instances
<1>2. ASSUME NEW d \in W, NEW e \in T!Supertypes[d] PROVE e \in W
  <2>0. d \in T!Instances
    BY <1>1
  <2>1. CASE e \in Implements[d]
    BY <2>0, <2>1, Upwards
  <2>2. CASE e = Parent[d] /\ e # NoClass /\ d \in T!Reachable(c, T!Superclass)
    BY <2>0, <2>2, Upwards, Further
  <2>3. CASE e = Parent[d] /\ e # NoClass /\ d \in Interfaces
    BY <2>3, Hierarchy
  <2> QED
    BY <2>0, <2>1, <2>2, <2>3, Upwards
<1>3. T!Reachable(c, T!Supertypes) \subseteq W
  <2>1. \A d \in W : T!Supertypes[d] \subseteq W
    BY <1>2
  <2> HIDE DEF W
  <2> QED
    BY <1>1, <2>1, Within
<1> QED
  BY <1>3, Hierarchy

\* check_parent finds every superclass but c itself.
LEMMA ParentsAreFound ==
  ASSUME NEW c \in T!Instances, NEW k \in Classes, k \in T!Reachable(c, T!Superclass), k # c
  PROVE  T!check_parent(c, k)
<1> SUFFICES ASSUME \A d \in T!Reachable(c, T!Superclass) : Parent[d] # k PROVE FALSE
  BY DEF T!check_parent
<1> DEFINE W == T!Reachable(c, T!Superclass) \ {k}
<1>1. W \subseteq T!Instances /\ c \in W
  BY Itself DEF T!Reachable
<1>2. ASSUME NEW d \in W, NEW e \in T!Superclass[d] PROVE e \in W
  <2>1. e \in T!Reachable(c, T!Superclass)
    BY <1>1, <1>2, Upwards, Further
  <2>2. e # k
    BY <1>1, <1>2, Upwards
  <2> QED
    BY <2>1, <2>2
<1>3. T!Reachable(c, T!Superclass) \subseteq W
  BY <1>1, <1>2, Within
<1> QED
  BY <1>3

\* The klasses: of the three kinds, with elements that are instances or basic types.
LEMMA KlassKinds ==
  ASSUME NEW k \in T!Klasses
  PROVE  /\ \/ k.type = "Instance" /\ k.element \in T!Instances /\ k.dimension = 0
            \/ k.type = "TypeArray" /\ k.dimension \in 1 .. Dimensions
            \/ k.type = "ObjArray" /\ k.element \in T!Instances /\ k.dimension \in 1 .. Dimensions
         /\ k = T!Klass(k.type, k.element, k.dimension)
BY DEF T!Klasses, T!InstanceKlasses, T!TypeArrays, T!ObjArrays, T!Klass

LEMMA KlassIsNotNull ==
  ASSUME NEW k \in T!Klasses PROVE k # T!NullRef
BY KlassKinds DEF T!NullRef, T!Klass

\* The test says yes only to what can be assigned.
LEMMA TestIsRight ==
  ASSUME NEW r \in T!Klasses, NEW k \in T!Klasses, T!check_instanceof(r, k) = "yes"
  PROVE  T!CanAssign(r, k)
<1>1. CASE r.type = "Instance"
  <2>1. T!InstanceTest(r, k) /\ r.element \in T!Instances
    BY <1>1, KlassKinds DEF T!check_instanceof
  <2>2. k.type = "Instance" /\ k.element \in T!Instances /\ k.element # NoClass
    BY <2>1, KlassKinds, Hierarchy DEF T!InstanceTest, T!IsInterface
  <2>3. CASE r = k
    BY <1>1, <2>1, <2>2, <2>3, Itself DEF T!CanAssign
  <2>4. CASE T!check_interfaces(r.element, k.element)
    BY <1>1, <2>1, <2>2, <2>4, InterfaceIsAbove DEF T!CanAssign
  <2>5. CASE T!check_parent(r.element, k.element)
    BY <1>1, <2>1, <2>2, <2>5, ParentIsAbove DEF T!CanAssign
  <2>6. CASE k.element = Object
    BY <1>1, <2>1, <2>2, <2>6, Hierarchy, LineIsAbove DEF T!CanAssign
  <2> QED
    BY <2>1, <2>3, <2>4, <2>5, <2>6 DEF T!InstanceTest
<1>2. CASE r.type # "Instance"
  <2>1. T!ArrayTest(r, k) /\ ~T!AssertsDimension(r, k)
    BY <1>2 DEF T!check_instanceof
  <2>2. CASE k.type = "Instance"
    BY <1>2, <2>1, <2>2 DEF T!ArrayTest, T!CanAssign
  <2>3. CASE k.type = "TypeArray"
    BY <1>2, <2>1, <2>3 DEF T!ArrayTest, T!CanAssign, T!AssertsDimension
  <2>4. CASE k.type = "ObjArray"
    <3>1. /\ r.type = "ObjArray" /\ r.dimension = k.dimension
          /\ r.element \in T!Instances /\ k.element \in T!Instances
      BY <1>2, <2>1, <2>4, KlassKinds DEF T!ArrayTest, T!AssertsDimension
    <3>2. r.element = k.element \/ T!check_parent(r.element, k.element)
      BY <2>1, <2>4, <3>1 DEF T!ArrayTest
    <3>3. k.element \in T!Reachable(r.element, T!Supertypes)
      BY <3>1, <3>2, Itself, ParentIsAbove, Hierarchy
    <3> QED
      BY <2>4, <3>1, <3>3 DEF T!CanAssign
  <2> QED
    BY <2>2, <2>3, <2>4, KlassKinds
<1> QED
  BY <1>1, <1>2

\* It says no to nothing that can be assigned, but between arrays of one dimension whose
\* elements implement the target's interface.
LEMMA TestIsComplete ==
  ASSUME NEW r \in T!Klasses, NEW k \in T!Klasses, T!check_instanceof(r, k) = "no", T!CanAssign(r, k)
  PROVE  r.type = "ObjArray" /\ k.type = "ObjArray" /\ k.element \in Interfaces
<1>1. CASE r.type = "Instance"
  <2>1. ~T!InstanceTest(r, k) /\ r.element \in T!Instances
    BY <1>1, KlassKinds DEF T!check_instanceof
  <2>2. k.type = "Instance" /\ k.element \in T!Reachable(r.element, T!Supertypes)
    BY <1>1 DEF T!CanAssign
  <2>3. k.element \in T!Instances /\ k.dimension = 0 /\ r.dimension = 0
    BY <1>1, <2>2, KlassKinds
  <2>4. r.element = k.element => r = k
    BY <1>1, <2>2, <2>3, KlassKinds
  <2>5. CASE k.element \in Interfaces
    <3>1. r.element # k.element => T!check_interfaces(r.element, k.element)
      BY <2>1, <2>2, <2>5, InterfacesAreFound
    <3>2. T!IsInterface(k) /\ (r.element = k.element => T!IsInterface(r))
      BY <1>1, <2>2, <2>5 DEF T!IsInterface
    <3> QED
      BY <2>1, <2>4, <3>1, <3>2 DEF T!InstanceTest
  <2>6. CASE k.element \in Classes
    <3>1. ~T!IsInterface(k)
      BY <2>6, Hierarchy DEF T!IsInterface
    <3>2. k.element \in T!Reachable(r.element, T!Superclass)
      BY <2>1, <2>2, <2>6, ClassesAbove
    <3>3. CASE r.element \in Interfaces
      <4> DEFINE W == {r.element, Object}
      <4>1. W \subseteq T!Instances /\ \A d \in W : T!Superclass[d] \subseteq W
        BY <2>1, <3>3, Upwards, Hierarchy DEF T!Instances
      <4>2. T!Reachable(r.element, T!Superclass) \subseteq W
        BY <2>1, <4>1, Within
      <4>3. k.element = Object
        BY <2>6, <3>2, <3>3, <4>2, Hierarchy
      <4> QED
        BY <1>1, <2>1, <2>2, <3>1, <3>3, <4>3 DEF T!InstanceTest, T!IsInterface
    <3>4. CASE r.element \notin Interfaces
      <4>1. r.element # k.element => T!check_parent(r.element, k.element)
        BY <2>1, <2>6, <3>2, ParentsAreFound
      <4> QED
        BY <2>1, <2>2, <2>4, <3>1, <3>4, <4>1 DEF T!InstanceTest, T!IsInterface
    <3> QED
      BY <3>3, <3>4
  <2> QED
    BY <2>3, <2>5, <2>6 DEF T!Instances
<1>2. CASE r.type # "Instance"
  <2>1. ~T!ArrayTest(r, k) /\ ~T!AssertsDimension(r, k)
    BY <1>2 DEF T!check_instanceof
  <2>2. k.type # "Instance"
    BY <1>2, <2>1 DEF T!ArrayTest, T!CanAssign
  <2>3. r.dimension = k.dimension /\ r.dimension \in Nat
    BY <1>2, <2>1, <2>2, KlassKinds DEF T!AssertsDimension
  <2>4. k.type = r.type
    BY <1>2, <2>2, <2>3 DEF T!CanAssign
  <2>5. CASE k.type = "TypeArray"
    BY <1>2, <2>1, <2>3, <2>4, <2>5 DEF T!ArrayTest, T!CanAssign
  <2>6. CASE k.type = "ObjArray"
    <3>0. k.element \in T!Instances /\ r.element \in T!Instances
      BY <2>4, <2>6, KlassKinds
    <3>1. k.element \in T!Reachable(r.element, T!Supertypes)
      BY <1>2, <2>3, <2>4, <2>6 DEF T!CanAssign
    <3>2. r.element # k.element /\ ~T!check_parent(r.element, k.element)
      BY <2>1, <2>4, <2>6 DEF T!ArrayTest
    <3>3. k.element \notin Classes
      BY <3>0, <3>1, <3>2, ClassesAbove, ParentsAreFound
    <3> QED
      BY <2>4, <2>6, <3>0, <3>3 DEF T!Instances
  <2> QED
    BY <2>2, <2>5, <2>6, KlassKinds
<1> QED
  BY <1>1, <1>2

LEMMA TestAnswers ==
  ASSUME NEW r, NEW k
  PROVE  /\ T!check_instanceof(r, k) \in {"yes", "no", "abort"}
         /\ T!check_instanceof(r, k) = "abort" => T!AssertsDimension(r, k)
BY DEF T!check_instanceof

LEMMA TypeStart == ASSUME T!Init PROVE T!IInv
BY DEF T!Init, T!IInv, T!TypeOK, T!YesIsAssignable, T!NoIsNotAssignable, T!AbortsWhereJavaFails

LEMMA TypeStep == ASSUME T!IInv, [T!Next]_tVars PROVE T!IInv'
<1>t. ref \in T!Klasses \cup {T!NullRef} /\ klass \in T!Klasses
  BY DEF T!IInv, T!TypeOK
<1>n. ref # T!NullRef => ref \in T!Klasses
  BY <1>t
<1>1. CASE T!Instanceof
  <2>1. answer' = IF ref = T!NullRef THEN "no" ELSE T!check_instanceof(ref, klass)
    BY <1>1 DEF T!Instanceof
  <2>2. ref' = ref /\ klass' = klass
    BY <1>1 DEF T!Instanceof
  <2>3. T!TypeOK'
    BY <2>1, <2>2, <1>t, TestAnswers DEF T!TypeOK
  <2>4. T!YesIsAssignable'
    BY <2>1, <2>2, <1>t, <1>n, TestIsRight DEF T!YesIsAssignable
  <2>5. T!NoIsNotAssignable'
    BY <2>1, <2>2, <1>t, <1>n, TestIsComplete DEF T!NoIsNotAssignable
  <2>6. T!AbortsWhereJavaFails'
    BY <2>1, <2>2, <1>t, TestAnswers DEF T!AbortsWhereJavaFails
  <2> QED
    BY <2>3, <2>4, <2>5, <2>6 DEF T!IInv
<1>2. CASE T!Checkcast
  <2>1. answer' = IF ref = T!NullRef \/ T!check_instanceof(ref, klass) = "yes" THEN "yes" ELSE "abort"
    BY <1>2 DEF T!Checkcast
  <2>2. ref' = ref /\ klass' = klass
    BY <1>2 DEF T!Checkcast
  <2>3. T!TypeOK'
    BY <2>1, <2>2, <1>t DEF T!TypeOK
  <2>4. T!YesIsAssignable'
    BY <2>1, <2>2, <1>t, <1>n, TestIsRight DEF T!YesIsAssignable
  <2>5. T!NoIsNotAssignable'
    BY <2>1, <2>2 DEF T!NoIsNotAssignable
  <2>6. T!AbortsWhereJavaFails'
    <3> SUFFICES ASSUME answer' = "abort"
                 PROVE /\ ref # T!NullRef
                       /\ \/ ~T!CanAssign(ref, klass)
                          \/ T!AssertsDimension(ref, klass)
                          \/ ref.type = "ObjArray" /\ klass.type = "ObjArray" /\ klass.element \in Interfaces
      BY <2>2 DEF T!AbortsWhereJavaFails
    <3>1. ref # T!NullRef /\ T!check_instanceof(ref, klass) \in {"no", "abort"}
      BY <2>1, TestAnswers
    <3> QED
      BY <3>1, <1>t, <1>n, TestAnswers, TestIsComplete
  <2> QED
    BY <2>3, <2>4, <2>5, <2>6 DEF T!IInv
<1>3. CASE UNCHANGED tVars
  BY <1>3 DEF tVars, T!IInv, T!TypeOK, T!YesIsAssignable, T!NoIsNotAssignable, T!AbortsWhereJavaFails
<1> QED
  BY <1>1, <1>2, <1>3 DEF T!Next

-----------------------------------------------------------------------------
(* Together.                                                                    *)

\* The state of a model changes by its own steps only.
LEMMA StepsAreApart ==
  ASSUME [Next]_vars
  PROVE  [C!Next]_cVars /\ [T!Next]_tVars /\ [S!Next]_sVars /\ [F!Next]_fVars /\ [Y!Next]_yVars
BY DEF Next, vars, cVars, tVars, sVars, fVars, yVars

\* The states are of their types and the inductive invariants hold, whatever the code length,
\* the frames, the boxes, the arrays and the numbers.
THEOREM InstructionStates == Spec => []StatesOK
<1>1. Init => StatesOK
  BY ControlStart, TypeStart, StackStart, FramesStart, CopyStart DEF Init, StatesOK
<1>2. StatesOK /\ [Next]_vars => StatesOK'
  <2> SUFFICES ASSUME StatesOK, [Next]_vars PROVE StatesOK'
    OBVIOUS
  <2>1. C!IInv /\ T!IInv /\ S!IInv /\ F!IInv /\ Y!IInv
    BY DEF StatesOK
  <2>2. [C!Next]_cVars /\ [T!Next]_tVars /\ [S!Next]_sVars /\ [F!Next]_fVars /\ [Y!Next]_yVars
    BY StepsAreApart
  <2>3. C!IInv'
    BY <2>1, <2>2, ControlStep
  <2>4. S!IInv'
    BY <2>1, <2>2, StackStep
  <2>5. F!IInv'
    BY <2>1, <2>2, FramesStep
  <2>6. Y!IInv'
    BY <2>1, <2>2, CopyStep
  <2>7. T!IInv'
    BY <2>1, <2>2, TypeStep
  <2> QED
    BY <2>3, <2>4, <2>5, <2>6, <2>7 DEF StatesOK
<1> QED
  BY <1>1, <1>2, PTL DEF Spec

\* Branches and switches: for code of any length and any keys of tableswitch and lookupswitch
\* the engine is at Java's instruction, and what switches leave on the stack stays below.
THEOREM Control == Spec => []ControlIsJavas
<1>1. StatesOK => ControlIsJavas
  BY DEF StatesOK, C!IInv, ControlIsJavas
<1> QED
  BY <1>1, InstructionStates, PTL

\* pop to dup2_x2: on a stack of any depth and any mixture of wide and narrow values every
\* form moves and copies the words Java's moves.
THEOREM Stack == Spec => []SameWords
<1>1. StatesOK => SameWords
  BY DEF StatesOK, S!IInv, SameWords
<1> QED
  BY <1>1, InstructionStates, PTL

\* Loads, stores, calls and fields: for any number of frames, locals and boxes a location
\* reads as Java's until a shared box is changed in place, and no element shares its box.
THEOREM Frames == Spec => []BoxesAreValues
<1>1. StatesOK => BoxesAreValues
  BY DEF StatesOK, F!IInv, BoxesAreValues
<1> QED
  BY <1>1, InstructionStates, PTL

\* System.arraycopy: for arrays of any length, any positions and any kinds of elements a copy
\* has Java's result, though an array may be copied over itself, and the process ends where
\* Java throws for an index.
THEOREM Copies == Spec => []CopiesAreJavas
<1>1. StatesOK => CopiesAreJavas
  BY CopiesAgree DEF StatesOK
<1> QED
  BY <1>1, InstructionStates, PTL

\* checkcast and instanceof: in any hierarchy of classes and interfaces with Object at its top,
\* and arrays of any dimension, what passes can be assigned, and what is denied or aborts
\* cannot, but for arrays of implementations and of another dimension.
THEOREM Casts == Spec => []TypeTestsAreJavas
<1>1. StatesOK => TypeTestsAreJavas
  BY DEF StatesOK, T!IInv, TypeTestsAreJavas
<1> QED
  BY <1>1, InstructionStates, PTL
=============================================================================
