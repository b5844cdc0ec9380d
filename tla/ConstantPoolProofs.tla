-------------------------- MODULE ConstantPoolProofs --------------------------
(***************************************************************************)
(* Proofs about ConstantPool, for any threads, entries and requests. A     *)
(* step changes the calls of one thread in one of four ways; each part of  *)
(* the invariant is then preserved way by way. Nothing is locked but the   *)
(* string table: what carries the proof is that every thread that parses   *)
(* an entry writes the same pair.                                          *)
(***************************************************************************)
EXTENDS ConstantPool, TLAPS

-----------------------------------------------------------------------------
(* Stacks.                                                                  *)

\* The top of a stack and what is below it.
LEMMA LastFront ==
  ASSUME NEW S, NEW s \in Seq(S), s # <<>>
  PROVE  /\ Len(s) \in Nat \ {0} /\ Last(s) = s[Len(s)] /\ Last(s) \in S
         /\ Front(s) \in Seq(S) /\ Len(Front(s)) = Len(s) - 1
         /\ \A i \in 1 .. Len(s) - 1 : Front(s)[i] = s[i]
<1>1. Len(s) \in Nat \ {0} /\ s[Len(s)] \in S
  OBVIOUS
<1>2. \A i \in 1 .. Len(s) - 1 : s[i] \in S
  BY <1>1
<1>3. SubSeq(s, 1, Len(s) - 1) \in Seq(S)
  BY <1>1, <1>2
<1>4. Len(SubSeq(s, 1, Len(s) - 1)) = Len(s) - 1
  <2>1. CASE Len(s) = 1
    BY <2>1
  <2>2. CASE Len(s) > 1
    BY SMTT(30), <2>2
  <2> QED
    BY SMTT(30), <1>1, <2>1, <2>2
<1>5. \A i \in 1 .. Len(s) - 1 : SubSeq(s, 1, Len(s) - 1)[i] = s[i]
  BY <1>1
<1> QED
  BY <1>1, <1>3, <1>4, <1>5 DEF Last, Front

\* The top of a stack is replaced by f.
LEMMA Replaced ==
  ASSUME NEW S, NEW s \in Seq(S), s # <<>>, NEW f \in S
  PROVE  LET m == Append(Front(s), f) IN
           /\ m \in Seq(S) /\ Len(m) = Len(s) /\ m[Len(s)] = f
           /\ \A i \in 1 .. Len(s) - 1 : m[i] = s[i]
<1> DEFINE m == Append(Front(s), f)
<1>1. /\ Len(s) \in Nat \ {0} /\ Front(s) \in Seq(S) /\ Len(Front(s)) = Len(s) - 1
      /\ \A i \in 1 .. Len(s) - 1 : Front(s)[i] = s[i]
  BY LastFront
<1> HIDE DEF Front
<1>2. /\ m \in Seq(S) /\ Len(m) = Len(Front(s)) + 1 /\ m[Len(Front(s)) + 1] = f
      /\ \A i \in 1 .. Len(Front(s)) : m[i] = Front(s)[i]
  BY <1>1
<1> QED
  BY <1>1, <1>2

\* A call is put on a stack.
LEMMA Pushed ==
  ASSUME NEW S, NEW s \in Seq(S), NEW f \in S
  PROVE  LET m == Append(s, f) IN
           /\ m \in Seq(S) /\ Len(m) = Len(s) + 1 /\ m[Len(s) + 1] = f
           /\ \A i \in 1 .. Len(s) : m[i] = s[i]
  OBVIOUS

\* Stack m is s with f as its top and g on it.
Grown(m, s, f, g, S) ==
  /\ m \in Seq(S) /\ Len(m) = Len(s) + 1 /\ m[Len(s) + 1] = g /\ m[Len(s)] = f
  /\ \A i \in 1 .. Len(s) - 1 : m[i] = s[i]

\* The top of a stack becomes f, and g is put on it.
LEMMA ReplacedPushed ==
  ASSUME NEW S, NEW s \in Seq(S), s # <<>>, NEW f \in S, NEW g \in S
  PROVE  Grown(Append(Append(Front(s), f), g), s, f, g, S)
<1> DEFINE m == Append(Front(s), f)
           n == Append(m, g)
<1>1. /\ m \in Seq(S) /\ Len(m) = Len(s) /\ m[Len(s)] = f /\ Len(s) \in Nat \ {0}
      /\ \A i \in 1 .. Len(s) - 1 : m[i] = s[i]
  BY Replaced
<1> HIDE DEF m
<1>2. n \in Seq(S) /\ Len(n) = Len(m) + 1 /\ n[Len(m) + 1] = g /\ \A i \in 1 .. Len(m) : n[i] = m[i]
  BY <1>1, Pushed
<1> HIDE DEF n
<1>3. /\ n \in Seq(S) /\ Len(n) = Len(s) + 1 /\ n[Len(s) + 1] = g /\ n[Len(s)] = f
      /\ \A i \in 1 .. Len(s) - 1 : n[i] = s[i]
  BY <1>1, <1>2
<1> QED
  BY <1>3 DEF Grown, m, n

\* The elements of a sequence and one more.
LEMMA AppendSet ==
  ASSUME NEW S, NEW s \in Seq(S), NEW e \in S
  PROVE  ToSet(Append(s, e)) = ToSet(s) \cup {e}
<1>1. /\ Len(Append(s, e)) = Len(s) + 1 /\ Append(s, e)[Len(s) + 1] = e /\ Len(s) \in Nat
      /\ DOMAIN s = 1 .. Len(s) /\ DOMAIN Append(s, e) = 1 .. Len(s) + 1
      /\ \A i \in 1 .. Len(s) : Append(s, e)[i] = s[i]
  OBVIOUS
<1> QED
  BY <1>1 DEF ToSet

-----------------------------------------------------------------------------
(* The ways in which a step changes the stacks of calls.                    *)

\* Only the stack of t changes, and not below its top call.
OthersKeep(t) ==
  /\ reads' \in [Threads -> Seq(Reads)]
  /\ \A u \in Threads \ {t} : reads'[u] = reads[u]
  /\ \A k \in 1 .. Len(reads[t]) - 1 : reads'[t][k] = reads[t][k]

\* The top call of t goes to p with v.
Becomes(t, p, v) ==
  /\ OthersKeep(t) /\ reads[t] # <<>> /\ Len(reads'[t]) = Len(reads[t])
  /\ LET f == reads'[t][Len(reads[t])] IN f.entry = Frame(t).entry /\ f.pc = p /\ f.value = v

\* The top call of t waits for the text of its string.
AsksText(t) ==
  /\ OthersKeep(t) /\ reads[t] # <<>> /\ Frame(t).pc = "look" /\ Kind(Frame(t).entry) = "string"
  /\ Len(reads'[t]) = Len(reads[t]) + 1
  /\ reads'[t][Len(reads[t])] = [Frame(t) EXCEPT !.pc = "intern"]
  /\ reads'[t][Len(reads[t]) + 1] = [entry |-> Entries[Frame(t).entry].text, pc |-> "look", value |-> Null]

\* The top call of t, which is at the end, returns.
Returns(t) ==
  /\ OthersKeep(t) /\ reads[t] # <<>> /\ Frame(t).pc = "copy"
  /\ Len(reads'[t]) = Len(reads[t]) - 1

\* t, which does nothing, asks for i.
Begins(t, i) ==
  /\ OthersKeep(t) /\ reads[t] = <<>> /\ Kind(i) # "unused" /\ i \in Index
  /\ Len(reads'[t]) = 1 /\ reads'[t][1] = [entry |-> i, pc |-> "look", value |-> Null]

\* What is known of the top call of a thread.
LEMMA TopIsRead ==
  ASSUME TypeOK, CallsInv, MadeInv, NEW t \in Threads, reads[t] # <<>>
  PROVE  /\ reads[t] \in Seq(Reads) /\ Len(reads[t]) \in Nat \ {0}
         /\ Frame(t) = reads[t][Len(reads[t])] /\ Frame(t) \in Reads
         /\ Frame(t).entry \in Index /\ Kind(Frame(t).entry) # "unused"
         /\ Frame(t).pc \in {"second", "unused", "descriptor", "copy"}
              => pool[Frame(t).entry].first = Kind(Frame(t).entry)
         /\ Frame(t).pc \in {"first", "second", "unused", "descriptor"}
              => Means(Frame(t).entry, Frame(t).value)
<1>1. reads[t] \in Seq(Reads)
  BY DEF TypeOK
<1>2. /\ Len(reads[t]) \in Nat \ {0}
      /\ Frame(t) = reads[t][Len(reads[t])] /\ Frame(t) \in Reads
  BY <1>1, LastFront DEF Frame
<1>3. Len(reads[t]) \in 1 .. Len(reads[t])
  BY <1>2
<1> QED
  BY <1>1, <1>2, <1>3 DEF CallsInv, InPlace, MadeInv, Made, Reads

\* Goto replaces the top call.
LEMMA GotoBecomes ==
  ASSUME TypeOK, CallsInv, MadeInv, NEW t \in Threads, reads[t] # <<>>,
         NEW p \in Pcs, NEW v \in Nat \cup {Null}, Goto(t, p, v)
  PROVE  Becomes(t, p, v)
<1> DEFINE f == [Frame(t) EXCEPT !.pc = p, !.value = v]
           m == Append(Front(reads[t]), f)
<1>1. reads[t] \in Seq(Reads) /\ Frame(t) \in Reads
  BY TopIsRead
<1>2. f \in Reads /\ f.entry = Frame(t).entry /\ f.pc = p /\ f.value = v
  BY <1>1 DEF Reads
<1>3. reads' = [reads EXCEPT ![t] = m]
  BY DEF Goto
<1> HIDE DEF f
<1>4. /\ m \in Seq(Reads) /\ Len(m) = Len(reads[t]) /\ m[Len(reads[t])] = f
      /\ \A i \in 1 .. Len(reads[t]) - 1 : m[i] = reads[t][i]
  BY <1>1, <1>2, Replaced
<1> HIDE DEF m
<1>5. reads \in [Threads -> Seq(Reads)]
  BY DEF TypeOK
<1> QED
  BY <1>2, <1>3, <1>4, <1>5 DEF Becomes, OthersKeep

\* A string asks for its text.
LEMMA PushAsks ==
  ASSUME PoolAssumption, TypeOK, CallsInv, MadeInv, NEW t \in Threads, reads[t] # <<>>,
         Frame(t).pc = "look", Kind(Frame(t).entry) = "string",
         reads' = [reads EXCEPT ![t] = Append(Append(Front(@), [Frame(t) EXCEPT !.pc = "intern"]),
                    [entry |-> Entries[Frame(t).entry].text, pc |-> "look", value |-> Null])]
  PROVE  AsksText(t)
<1> DEFINE f == [Frame(t) EXCEPT !.pc = "intern"]
           g == [entry |-> Entries[Frame(t).entry].text, pc |-> "look", value |-> Null]
           s == Append(Append(Front(reads[t]), f), g)
<1>1. /\ reads[t] \in Seq(Reads) /\ Frame(t) \in Reads /\ Frame(t).entry \in Index
      /\ Len(reads[t]) \in Nat \ {0}
  BY TopIsRead
<1>2. f \in Reads
  BY <1>1 DEF Reads, Pcs
<1>3. g \in Reads
  BY <1>1 DEF Reads, Pcs, PoolAssumption, Kind
<1>4. reads' = [reads EXCEPT ![t] = s]
  OBVIOUS
<1> HIDE DEF f, g
<1>5. Grown(s, reads[t], f, g, Reads)
  BY <1>1, <1>2, <1>3, ReplacedPushed
<1> HIDE DEF s
<1>6. reads \in [Threads -> Seq(Reads)]
  BY DEF TypeOK
<1>7. OthersKeep(t) /\ Len(reads'[t]) = Len(reads[t]) + 1
  BY <1>4, <1>5, <1>6 DEF Grown, OthersKeep
<1>8. /\ reads'[t][Len(reads[t])] = [Frame(t) EXCEPT !.pc = "intern"]
      /\ reads'[t][Len(reads[t]) + 1]
           = [entry |-> Entries[Frame(t).entry].text, pc |-> "look", value |-> Null]
  BY <1>4, <1>5, <1>6 DEF Grown, f, g
<1> QED
  BY <1>7, <1>8 DEF AsksText

\* The top call returns.
LEMMA FrontReturns ==
  ASSUME TypeOK, CallsInv, MadeInv, NEW t \in Threads, reads[t] # <<>>, Frame(t).pc = "copy",
         reads' = [reads EXCEPT ![t] = Front(@)]
  PROVE  Returns(t)
<1>1. reads[t] \in Seq(Reads) /\ reads \in [Threads -> Seq(Reads)]
  BY DEF TypeOK
<1>2. /\ Front(reads[t]) \in Seq(Reads) /\ Len(Front(reads[t])) = Len(reads[t]) - 1
      /\ \A i \in 1 .. Len(reads[t]) - 1 : Front(reads[t])[i] = reads[t][i]
  BY <1>1, LastFront
<1> HIDE DEF Front
<1> QED
  BY <1>1, <1>2 DEF Returns, OthersKeep

-----------------------------------------------------------------------------
(* What each way keeps of the invariant.                                    *)

\* Tags stay, requests are remembered, and what a value means does not change.
Kept ==
  /\ \A i \in Index : Kind(i) # "unused" /\ pool[i].first = Kind(i) => pool'[i].first = Kind(i)
  /\ ToSet(asked) \subseteq ToSet(asked')
  /\ \A i \in Index : \A x \in Nat \cup {Null} : Means(i, x) => Means(i, x)'

\* A call that goes on keeps its place.
LEMMA BecomesCalls ==
  ASSUME TypeOK, CallsInv, MadeInv, Kept, NEW t \in Threads, NEW p, NEW v, Becomes(t, p, v),
         p # "intern", p = "unused" => Kind(Frame(t).entry) = "wide",
         p = "descriptor" => Kind(Frame(t).entry) = "site",
         p \in {"second", "unused", "descriptor", "copy"}
           => pool'[Frame(t).entry].first = Kind(Frame(t).entry)
  PROVE  CallsInv'
<1> SUFFICES ASSUME NEW u \in Threads, NEW k \in 1 .. Len(reads'[u])
             PROVE  InPlace(u, k)'
  BY DEF CallsInv
<1>1. reads[u] \in Seq(Reads) /\ Len(reads[u]) \in Nat
  BY DEF TypeOK
<1>2. CASE u # t
  <2>1. reads'[u] = reads[u] /\ reads[u][k] \in Reads
    BY <1>1, <1>2 DEF Becomes, OthersKeep
  <2>2. reads[u][k].entry \in Index
    BY <2>1 DEF Reads
  <2> QED
    BY <2>1, <2>2 DEF CallsInv, InPlace, Kept
<1>3. CASE u = t /\ k # Len(reads[t])
  <2>1. /\ Len(reads'[t]) = Len(reads[t]) /\ k \in 1 .. Len(reads[t]) - 1
        /\ reads'[t][k] = reads[t][k] /\ reads[t][k] \in Reads
    BY <1>1, <1>3 DEF Becomes, OthersKeep
  <2>2. reads[t][k].entry \in Index
    BY <2>1 DEF Reads
  <2>3. reads'[t][k + 1].entry = reads[t][k + 1].entry
    <3>1. CASE k + 1 = Len(reads[t])
      BY <3>1, TopIsRead DEF Becomes
    <3>2. CASE k + 1 # Len(reads[t])
      BY <1>1, <1>3, <2>1, <3>2 DEF Becomes, OthersKeep
    <3> QED
      BY <3>1, <3>2
  <2> QED
    BY <1>1, <1>3, <2>1, <2>2, <2>3 DEF CallsInv, InPlace, Kept
<1>4. CASE u = t /\ k = Len(reads[t])
  <2>1. /\ reads'[t][k].entry = Frame(t).entry /\ reads'[t][k].pc = p /\ ~ (k < Len(reads'[t]))
        /\ Frame(t) = reads[t][k] /\ k \in 1 .. Len(reads[t])
    BY <1>1, <1>4, TopIsRead DEF Becomes
  <2> QED
    BY <1>4, <2>1 DEF CallsInv, InPlace, Kept
<1> QED
  BY <1>2, <1>3, <1>4

\* A string that waits for its text keeps its place, and the text has its own.
LEMMA AsksCalls ==
  ASSUME PoolAssumption, TypeOK, CallsInv, MadeInv, Kept, NEW t \in Threads, AsksText(t)
  PROVE  CallsInv'
<1> SUFFICES ASSUME NEW u \in Threads, NEW k \in 1 .. Len(reads'[u])
             PROVE  InPlace(u, k)'
  BY DEF CallsInv
<1>1. reads[u] \in Seq(Reads) /\ Len(reads[u]) \in Nat
  BY DEF TypeOK
<1>2. CASE u # t
  <2>1. reads'[u] = reads[u] /\ reads[u][k] \in Reads
    BY <1>1, <1>2 DEF AsksText, OthersKeep
  <2>2. reads[u][k].entry \in Index
    BY <2>1 DEF Reads
  <2> QED
    BY <2>1, <2>2 DEF CallsInv, InPlace, Kept
<1>3. CASE u = t /\ k < Len(reads[t])
  <2>1. /\ k \in 1 .. Len(reads[t]) - 1
        /\ reads'[t][k] = reads[t][k] /\ reads[t][k] \in Reads
    BY <1>1, <1>3 DEF AsksText, OthersKeep
  <2>2. reads[t][k].entry \in Index
    BY <2>1 DEF Reads
  <2>3. reads'[t][k + 1].entry = reads[t][k + 1].entry
    <3>1. CASE k + 1 = Len(reads[t])
      BY <3>1, TopIsRead DEF AsksText, Reads
    <3>2. CASE k + 1 # Len(reads[t])
      <4>1. k + 1 \in 1 .. Len(reads[t]) - 1
        BY <1>1, <1>3, <3>2
      <4> QED
        BY <4>1 DEF AsksText, OthersKeep
    <3> QED
      BY <3>1, <3>2
  <2> QED
    BY <1>1, <1>3, <2>1, <2>2, <2>3 DEF CallsInv, InPlace, Kept
<1>4. CASE u = t /\ k = Len(reads[t])
  <2>1. /\ reads'[t][k].entry = Frame(t).entry /\ reads'[t][k].pc = "intern"
        /\ reads'[t][k + 1].entry = Entries[Frame(t).entry].text
        /\ Kind(Frame(t).entry) = "string"
    BY <1>4, TopIsRead DEF AsksText, Reads
  <2> QED
    BY <1>4, <2>1 DEF InPlace
<1>5. CASE u = t /\ k > Len(reads[t])
  <2>1. k = Len(reads[t]) + 1 /\ Len(reads'[t]) = Len(reads[t]) + 1
    BY <1>1, <1>5 DEF AsksText
  <2>2. /\ reads'[t][k].entry = Entries[Frame(t).entry].text /\ reads'[t][k].pc = "look"
        /\ Kind(Frame(t).entry) = "string" /\ Frame(t).entry \in Index
    BY <2>1, TopIsRead DEF AsksText
  <2>3. Kind(Entries[Frame(t).entry].text) = "text"
    BY <2>2 DEF PoolAssumption, Kind
  <2> QED
    BY <1>5, <2>1, <2>2, <2>3 DEF InPlace
<1> QED
  BY <1>1, <1>2, <1>3, <1>4, <1>5

\* What is left after a return keeps its place.
LEMMA ReturnsCalls ==
  ASSUME TypeOK, CallsInv, MadeInv, Kept, NEW t \in Threads, Returns(t)
  PROVE  CallsInv'
<1> SUFFICES ASSUME NEW u \in Threads, NEW k \in 1 .. Len(reads'[u])
             PROVE  InPlace(u, k)'
  BY DEF CallsInv
<1>1. reads[u] \in Seq(Reads) /\ Len(reads[u]) \in Nat
  BY DEF TypeOK
<1>2. /\ k \in 1 .. Len(reads[u]) /\ reads'[u][k] = reads[u][k]
      /\ k < Len(reads'[u]) => k < Len(reads[u]) /\ reads'[u][k + 1] = reads[u][k + 1]
  <2>1. CASE u # t
    BY <1>1, <2>1 DEF Returns, OthersKeep
  <2>2. CASE u = t
    <3>1. Len(reads'[t]) = Len(reads[t]) - 1 /\ \A i \in 1 .. Len(reads[t]) - 1 : reads'[t][i] = reads[t][i]
      BY DEF Returns, OthersKeep
    <3>2. k \in 1 .. Len(reads[t]) - 1 /\ (k < Len(reads[t]) - 1 => k + 1 \in 1 .. Len(reads[t]) - 1)
      BY <1>1, <2>2, <3>1
    <3> QED
      BY <1>1, <2>2, <3>1, <3>2
  <2> QED
    BY <2>1, <2>2
<1>3. reads[u][k] \in Reads
  BY <1>1, <1>2
<1>4. reads[u][k].entry \in Index
  BY <1>3 DEF Reads
<1> QED
  BY <1>2, <1>4 DEF CallsInv, InPlace, Kept

\* A new request has a place of its own.
LEMMA BeginsCalls ==
  ASSUME TypeOK, CallsInv, MadeInv, Kept, NEW t \in Threads, NEW i \in Index, Begins(t, i),
         i \in ToSet(asked')
  PROVE  CallsInv'
<1> SUFFICES ASSUME NEW u \in Threads, NEW k \in 1 .. Len(reads'[u])
             PROVE  InPlace(u, k)'
  BY DEF CallsInv
<1>1. reads[u] \in Seq(Reads) /\ Len(reads[u]) \in Nat
  BY DEF TypeOK
<1>2. CASE u # t
  <2>1. reads'[u] = reads[u] /\ reads[u][k] \in Reads
    BY <1>1, <1>2 DEF Begins, OthersKeep
  <2>2. reads[u][k].entry \in Index
    BY <2>1 DEF Reads
  <2> QED
    BY <2>1, <2>2 DEF CallsInv, InPlace, Kept
<1>3. CASE u = t
  <2>1. /\ Len(reads'[t]) = 1 /\ reads'[t][1] = [entry |-> i, pc |-> "look", value |-> Null]
        /\ Kind(i) # "unused"
    BY DEF Begins
  <2>2. k = 1 /\ reads'[u][k].entry = i /\ reads'[u][k].pc = "look" /\ ~ (k < Len(reads'[u]))
    BY <1>3, <2>1
  <2> QED
    BY <2>1, <2>2 DEF InPlace, Kind
<1> QED
  BY <1>2, <1>3

\* A call that is there was there, or is new.
LEMMA OldOrNew ==
  ASSUME TypeOK, NEW t \in Threads, OthersKeep(t), NEW u \in Threads, NEW k \in 1 .. Len(reads'[u])
  PROVE  \/ k \in 1 .. Len(reads[u]) /\ reads'[u][k] = reads[u][k] /\ reads[u][k] \in Reads
         \/ u = t /\ k >= Len(reads[t])
<1>1. reads[u] \in Seq(Reads) /\ Len(reads[u]) \in Nat
  BY DEF TypeOK
<1>2. CASE u # t
  BY <1>1, <1>2 DEF OthersKeep
<1>3. CASE u = t /\ k < Len(reads[t])
  BY <1>1, <1>3 DEF OthersKeep
<1> QED
  BY <1>1, <1>2, <1>3

\* What calls have made stays right.
LEMMA MadeKept ==
  ASSUME TypeOK, MadeInv, Kept, NEW t \in Threads, OthersKeep(t),
         \A k \in 1 .. Len(reads'[t]) : k >= Len(reads[t]) => Made(t, k)'
  PROVE  MadeInv'
<1> SUFFICES ASSUME NEW u \in Threads, NEW k \in 1 .. Len(reads'[u])
             PROVE  Made(u, k)'
  BY DEF MadeInv
<1>1. CASE k \in 1 .. Len(reads[u]) /\ reads'[u][k] = reads[u][k] /\ reads[u][k] \in Reads
  <2>1. Made(u, k)
    BY <1>1 DEF MadeInv
  <2>2. reads[u][k].entry \in Index /\ reads[u][k].value \in Nat \cup {Null}
    BY <1>1 DEF Reads
  <2>3. PICK e \in Index, x \in Nat \cup {Null} : e = reads[u][k].entry /\ x = reads[u][k].value
    BY <2>2
  <2>4. Means(e, x) => Means(e, x)'
    BY DEF Kept
  <2>5. Means(reads[u][k].entry, reads[u][k].value) <=> Means(e, x)
    BY <2>3
  <2>6. Means(e, x)' <=> Means(reads[u][k].entry, reads[u][k].value)'
    BY <1>1, <2>3 DEF Means
  <2> QED
    BY <1>1, <2>1, <2>4, <2>5, <2>6 DEF Made
<1> QED
  BY <1>1, OldOrNew

\* Work goes on unless it is the top call of t that did it.
LEMMA AtWorkKept ==
  ASSUME TypeOK, NEW t \in Threads, OthersKeep(t), Len(reads'[t]) >= Len(reads[t]) - 1,
         NEW i, NEW pcs, AtWork(i, pcs),
         reads[t] # <<>> => Frame(t).entry # i \/ Frame(t).pc \notin pcs
  PROVE  AtWork(i, pcs)'
<1>1. PICK u \in Threads : \E k \in 1 .. Len(reads[u]) :
        reads[u][k].entry = i /\ reads[u][k].pc \in pcs
  BY DEF AtWork
<1>2. PICK k \in 1 .. Len(reads[u]) : reads[u][k].entry = i /\ reads[u][k].pc \in pcs
  BY <1>1
<1>3. reads[u] \in Seq(Reads) /\ Len(reads[u]) \in Nat /\ reads' \in [Threads -> Seq(Reads)]
  BY DEF TypeOK, OthersKeep
<1>4. CASE u # t
  BY <1>2, <1>4 DEF AtWork, OthersKeep
<1>5. CASE u = t
  <2>1. reads[t] # <<>>
    BY <1>2, <1>5
  <2>2. Frame(t) = reads[t][Len(reads[t])]
    BY <1>3, <1>5, <2>1, LastFront DEF Frame
  <2>3. k # Len(reads[t])
    BY <1>2, <1>5, <2>1, <2>2
  <2>4. k \in 1 .. Len(reads[t]) - 1 /\ Len(reads'[t]) \in Nat
    BY <1>2, <1>3, <1>5, <2>3
  <2>5. reads'[t][k] = reads[t][k] /\ k \in 1 .. Len(reads'[t])
    BY <1>3, <1>5, <2>4 DEF OthersKeep
  <2> QED
    BY <1>2, <1>5, <2>5 DEF AtWork
<1> QED
  BY <1>4, <1>5

\* The top call of t is at work.
LEMMA NowAtWork ==
  ASSUME TypeOK, NEW t \in Threads, NEW p, NEW v, Becomes(t, p, v), NEW i, i = Frame(t).entry,
         NEW pcs, p \in pcs
  PROVE  AtWork(i, pcs)'
<1>1. reads[t] \in Seq(Reads) /\ Len(reads[t]) \in Nat \ {0}
  BY LastFront DEF TypeOK, Becomes
<1>2. Len(reads[t]) \in 1 .. Len(reads'[t])
  BY <1>1 DEF Becomes
<1> QED
  BY <1>2 DEF AtWork, Becomes

\* The top call of a thread after a step.
LEMMA TopAfter ==
  ASSUME NEW t \in Threads, OthersKeep(t), NEW u \in Threads, reads'[u] # <<>>
  PROVE  Frame(u)' = reads'[u][Len(reads'[u])] /\ Len(reads'[u]) \in Nat \ {0}
<1>1. reads'[u] \in Seq(Reads)
  BY DEF OthersKeep
<1> QED
  BY <1>1, LastFront DEF Frame

\* What intern will dereference stays right where t is not about to intern.
LEMMA TextKept ==
  ASSUME TypeOK, TextInv, NEW t \in Threads, OthersKeep(t), got' = got, answers \subseteq answers',
         reads'[t] = <<>> \/ reads'[t][Len(reads'[t])].pc # "intern"
  PROVE  TextInv'
<1> SUFFICES ASSUME NEW u \in Threads, reads'[u] # <<>>, Frame(u)'.pc = "intern"
             PROVE  IF got'[u] = Null THEN \E a \in answers' : a.overlapped /\ a.value = Null
                    ELSE got'[u] = Text(Frame(u)'.entry)
  BY DEF TextInv, Text
<1>1. u # t
  BY TopAfter
<1>2. reads'[u] = reads[u]
  BY <1>1 DEF OthersKeep
<1>3. Frame(u)' = Frame(u)
  BY <1>2 DEF Frame
<1> QED
  BY <1>2, <1>3 DEF TextInv

\* Answers stay right.
LEMMA AnswersKept ==
  ASSUME AnswersInv, Kept, answers' = answers,
         fate' = "crashed" => \E a \in answers : a.overlapped /\ a.value = Null
  PROVE  AnswersInv'
<1>1. \A a \in answers : a.value # Null => Means(a.entry, a.value)'
  <2> TAKE a \in answers
  <2>1. a.entry \in Index /\ a.value \in Nat \cup {Null}
    BY DEF AnswersInv
  <2> QED
    BY <2>1 DEF AnswersInv, AnswersAreRight, Kept
<1>2. AnswersAreRight'
  BY <1>1 DEF AnswersInv, AnswersAreRight, Kind
<1> QED
  BY <1>2 DEF AnswersInv, SitesUseTheirDescriptor, Kind, Index

\* A step that changes nothing but calls.
LEMMA OnlyReads ==
  ASSUME IInv, NEW t \in Threads, OthersKeep(t),
         UNCHANGED <<pool, table, strings, real, got, answers, fate, asked>>
  PROVE  TypeOK' /\ ValuesInv' /\ Kept /\ RealInv' /\ AnswersInv'
<1>1. Kept
  BY DEF Kept, Means
<1>2. TypeOK'
  BY DEF IInv, TypeOK, OthersKeep, Kind, Index
<1>3. ValuesInv'
  BY DEF IInv, ValuesInv, Means, Kind, Text, Index
<1>4. RealInv'
  BY DEF IInv, RealInv, Kind
<1>5. AnswersInv'
  BY <1>1, AnswersKept DEF IInv, AnswersInv, AnswersAreRight
<1> QED
  BY <1>1, <1>2, <1>3, <1>4, <1>5

\* A step whose thread does no work leaves the work to whoever does it.
LEMMA WorkKept ==
  ASSUME IInv, NEW t \in Threads, OthersKeep(t), Len(reads'[t]) >= Len(reads[t]) - 1,
         reads[t] # <<>> => Frame(t).pc \notin {"second", "descriptor"},
         pool' = pool, real' = real
  PROVE  WorkInv'
<1> SUFFICES ASSUME NEW i \in Index, pool[i].first # "none", Kind(i) # "unused"
             PROVE  /\ pool[i].second = Null => AtWork(i, {"second"})'
                    /\ Kind(i) = "site" /\ real = Null => AtWork(i, {"second", "descriptor"})'
  BY DEF WorkInv, Kind, Index, AtWork
<1>1. /\ pool[i].second = Null => AtWork(i, {"second"})
      /\ Kind(i) = "site" /\ real = Null => AtWork(i, {"second", "descriptor"})
  BY DEF IInv, WorkInv
<1> QED
  BY <1>1, AtWorkKept DEF IInv

-----------------------------------------------------------------------------
(* The steps.                                                               *)

LEMMA AskKeeps ==
  ASSUME PoolAssumption, IInv, NEW t \in Threads, NEW i \in Index, Ask(t, i)
  PROVE  IInv'
<1> DEFINE r == [entry |-> i, pc |-> "look", value |-> Null]
<1>1. TypeOK /\ CallsInv /\ MadeInv /\ TextInv
  BY DEF IInv
<1>2. r \in Reads /\ <<r>> \in Seq(Reads)
  BY DEF Reads, Pcs
<1>3. reads' = [reads EXCEPT ![t] = <<r>>] /\ reads \in [Threads -> Seq(Reads)] /\ reads[t] = <<>>
  BY <1>1 DEF Ask, TypeOK
<1> HIDE DEF r
<1>4. OthersKeep(t) /\ reads'[t] = <<r>>
  BY <1>2, <1>3 DEF OthersKeep
<1>5. Begins(t, i)
  BY <1>3, <1>4 DEF Begins, Ask, r
<1>6. asked' = Append(asked, i) /\ asked \in Seq(Index) /\ asked' \in Seq(Index) /\ Len(asked') \in 0 .. MaxAsked
  BY <1>1 DEF Ask, TypeOK, PoolAssumption
<1>7. ToSet(asked') = ToSet(asked) \cup {i}
  BY <1>6, AppendSet
<1>8. Kept
  BY <1>7 DEF Kept, Means, Ask
<1>9. TypeOK'
  BY <1>1, <1>4, <1>6 DEF TypeOK, OthersKeep, Ask, Kind, Index
<1>10. ValuesInv'
  BY DEF IInv, ValuesInv, Means, Kind, Text, Index, Ask
<1>11. MadeInv'
  <2>1. \A k \in 1 .. Len(reads'[t]) : Made(t, k)'
    BY <1>5 DEF Begins, Made
  <2> QED
    BY <1>1, <1>4, <1>8, <2>1, MadeKept
<1>12. CallsInv'
  BY <1>1, <1>5, <1>7, <1>8, BeginsCalls
<1>13. WorkInv'
  BY <1>3, <1>4, WorkKept DEF Ask
<1>14. RealInv'
  BY <1>7 DEF IInv, RealInv, Kind, Ask
<1>15. TextInv'
  BY <1>1, <1>4, TextKept DEF Ask, r
<1>16. AnswersInv'
  BY <1>8, AnswersKept DEF IInv, AnswersInv, AnswersAreRight, Ask
<1> QED
  BY <1>9, <1>10, <1>11, <1>12, <1>13, <1>14, <1>15, <1>16 DEF IInv

LEMMA LookKeeps ==
  ASSUME PoolAssumption, IInv, NEW t \in Threads, Look(t)
  PROVE  IInv'
<1> DEFINE e == Frame(t).entry
<1>1. TypeOK /\ CallsInv /\ MadeInv /\ TextInv /\ ValuesInv
  BY DEF IInv
<1>2. reads[t] # <<>> /\ Frame(t).pc = "look" /\ Len(reads[t]) \in Nat \ {0} /\ e \in Index /\ Kind(e) # "unused"
  BY <1>1, TopIsRead DEF Look, At
<1>3. UNCHANGED <<pool, table, strings, real, got, answers, fate, asked>>
  BY DEF Look
<1>4. ASSUME NEW p, NEW v, Becomes(t, p, v), p \in {"copy", "first"},
             p = "copy" => pool[e].first = Kind(e), p = "first" => Means(e, v)
      PROVE  IInv'
  <2>1. OthersKeep(t) /\ Len(reads'[t]) = Len(reads[t])
    BY <1>4 DEF Becomes
  <2>2. TypeOK' /\ ValuesInv' /\ Kept /\ RealInv' /\ AnswersInv'
    BY <1>3, <2>1, OnlyReads
  <2>3. CallsInv'
    BY <1>1, <1>3, <1>4, <2>2, BecomesCalls
  <2>4. WorkInv'
    BY <1>2, <1>3, <2>1, WorkKept
  <2>5. ASSUME NEW k \in 1 .. Len(reads'[t]), k >= Len(reads[t])
        PROVE  Made(t, k)'
    <3>1. k = Len(reads[t])
      BY <1>2, <2>1, <2>5
    <3> QED
      BY <1>3, <1>4, <3>1 DEF Becomes, Made, Means
  <2>6. MadeInv'
    BY <1>1, <2>1, <2>2, <2>5, MadeKept
  <2>7. TextInv'
    BY <1>1, <1>2, <1>3, <1>4, <2>1, TextKept DEF Becomes
  <2> QED
    BY <2>2, <2>3, <2>4, <2>6, <2>7 DEF IInv
<1>5. ASSUME AsksText(t)
      PROVE  IInv'
  <2>1. OthersKeep(t) /\ Len(reads'[t]) = Len(reads[t]) + 1
    BY <1>5 DEF AsksText
  <2>2. TypeOK' /\ ValuesInv' /\ Kept /\ RealInv' /\ AnswersInv'
    BY <1>3, <2>1, OnlyReads
  <2>3. CallsInv'
    BY <1>1, <1>5, <2>2, AsksCalls
  <2>4. WorkInv'
    BY <1>2, <1>3, <2>1, WorkKept
  <2>5. ASSUME NEW k \in 1 .. Len(reads'[t]), k >= Len(reads[t])
        PROVE  Made(t, k)'
    <3>1. k = Len(reads[t]) \/ k = Len(reads[t]) + 1
      BY <1>2, <2>1, <2>5
    <3>2. reads'[t][k].pc \in {"intern", "look"}
      BY <1>1, <1>2, <1>5, <3>1, TopIsRead DEF AsksText, Reads
    <3> QED
      BY <3>2 DEF Made
  <2>6. MadeInv'
    BY <1>1, <2>1, <2>2, <2>5, MadeKept
  <2>7. reads'[t][Len(reads'[t])].pc # "intern"
    BY <1>5, <2>1 DEF AsksText
  <2>8. TextInv'
    BY <1>1, <1>3, <2>1, <2>7, TextKept
  <2> QED
    BY <2>2, <2>3, <2>4, <2>6, <2>8 DEF IInv
<1>6. CASE pool[e].first # "none"
  <2>1. Goto(t, "copy", Null)
    BY <1>6 DEF Look
  <2>2. Becomes(t, "copy", Null)
    BY <1>1, <1>2, <2>1, GotoBecomes DEF Pcs
  <2> QED
    BY <1>1, <1>2, <1>4, <1>6, <2>2 DEF TypeOK
<1>7. CASE pool[e].first = "none" /\ Kind(e) = "string"
  <2>1. reads' = [reads EXCEPT ![t] = Append(Append(Front(@), [Frame(t) EXCEPT !.pc = "intern"]),
                    [entry |-> Entries[e].text, pc |-> "look", value |-> Null])]
    BY <1>7 DEF Look
  <2> QED
    BY <1>1, <1>2, <1>5, <1>7, <2>1, PushAsks
<1>8. CASE pool[e].first = "none" /\ Kind(e) # "string"
  <2>1. Goto(t, "first", Entries[e].content)
    BY <1>8 DEF Look
  <2>2. Entries[e].content \in Nat /\ Means(e, Entries[e].content)
    BY <1>2, <1>8 DEF PoolAssumption, Kind, Means
  <2>3. Becomes(t, "first", Entries[e].content)
    BY <1>1, <1>2, <2>1, <2>2, GotoBecomes DEF Pcs
  <2> QED
    BY <1>4, <2>2, <2>3
<1> QED
  BY <1>6, <1>7, <1>8

\* A call goes on with the value it has.
LEMMA ValueGoesOn ==
  ASSUME TypeOK, MadeInv, Kept, NEW t \in Threads, NEW p, Becomes(t, p, Frame(t).value),
         p \in {"first", "second", "unused", "descriptor"} => Means(Frame(t).entry, Frame(t).value)
  PROVE  MadeInv'
<1>1. OthersKeep(t) /\ Len(reads'[t]) = Len(reads[t])
  BY DEF Becomes
<1>2. reads[t] \in Seq(Reads) /\ Len(reads[t]) \in Nat \ {0} /\ Frame(t) \in Reads
  BY LastFront DEF TypeOK, Becomes, Frame
<1>3. PICK e \in Index, x \in Nat \cup {Null} : e = Frame(t).entry /\ x = Frame(t).value
  BY <1>2 DEF Reads
<1>4. p \in {"first", "second", "unused", "descriptor"} => Means(e, x)'
  BY <1>3 DEF Kept
<1>5. ASSUME NEW k \in 1 .. Len(reads'[t]), k >= Len(reads[t])
      PROVE  Made(t, k)'
  <2>1. k = Len(reads[t])
    BY <1>1, <1>2, <1>5
  <2>2. reads'[t][k].entry = e /\ reads'[t][k].value = x /\ reads'[t][k].pc = p
    BY <1>3, <2>1 DEF Becomes
  <2>3. Means(reads[t][k].entry, reads[t][k].value)' <=> Means(e, x)'
    BY <2>2 DEF Means
  <2> QED
    BY <1>4, <2>2, <2>3 DEF Made
<1> QED
  BY <1>1, <1>5, MadeKept

\* What a thread knows of the entry it is at.
LEMMA TopWork ==
  ASSUME IInv, NEW t \in Threads, reads[t] # <<>>
  PROVE  /\ Kind(Frame(t).entry) = "site" => Frame(t).entry \in ToSet(asked)
         /\ Frame(t).pc = "intern" => Kind(Frame(t).entry) = "string"
         /\ Frame(t).pc = "unused" => Kind(Frame(t).entry) = "wide"
         /\ Frame(t).pc = "descriptor" => Kind(Frame(t).entry) = "site"
<1>1. reads[t] \in Seq(Reads)
  BY DEF IInv, TypeOK
<1>2. Frame(t) = reads[t][Len(reads[t])] /\ Len(reads[t]) \in Nat \ {0}
  BY <1>1, LastFront DEF Frame
<1>3. Len(reads[t]) \in 1 .. Len(reads[t])
  BY <1>2
<1> QED
  BY <1>2, <1>3 DEF IInv, CallsInv, InPlace

LEMMA WriteFirstKeeps ==
  ASSUME PoolAssumption, IInv, NEW t \in Threads, WriteFirst(t)
  PROVE  IInv'
<1> DEFINE e == Frame(t).entry
<1>1. TypeOK /\ CallsInv /\ MadeInv /\ TextInv /\ ValuesInv /\ WorkInv
  BY DEF IInv
<1>2. /\ reads[t] # <<>> /\ Frame(t).pc = "first" /\ Len(reads[t]) \in Nat \ {0} /\ e \in Index
      /\ Kind(e) # "unused" /\ Means(e, Frame(t).value) /\ Frame(t).value \in Nat \cup {Null}
  BY <1>1, TopIsRead DEF WriteFirst, At, Reads
<1>3. pool' = [pool EXCEPT ![e].first = Kind(e)] /\ UNCHANGED <<table, strings, real, got, answers, fate, asked>>
  BY DEF WriteFirst
<1>4. Becomes(t, "second", Frame(t).value)
  BY <1>1, <1>2, GotoBecomes DEF WriteFirst, Pcs
<1>5. OthersKeep(t) /\ Len(reads'[t]) = Len(reads[t])
  BY <1>4 DEF Becomes
<1>6. pool \in [Index -> [first : Kinds \cup {"none"}, second : Nat \cup {Null}]]
  BY <1>1 DEF ValuesInv
<1>7. Kind(e) \in Kinds
  BY <1>2 DEF PoolAssumption, Kind
<1>8. /\ pool' \in [Index -> [first : Kinds \cup {"none"}, second : Nat \cup {Null}]]
      /\ pool'[e].first = Kind(e) /\ \A i \in Index : pool'[i].second = pool[i].second
      /\ \A i \in Index \ {e} : pool'[i] = pool[i]
  BY <1>2, <1>3, <1>6, <1>7
<1>9. Kept
  BY <1>3, <1>8 DEF Kept, Means
<1>10. TypeOK'
  BY <1>1, <1>3, <1>5, <1>8 DEF TypeOK, OthersKeep, Kind, Index
<1>11. ValuesInv'
  BY <1>1, <1>3, <1>8 DEF ValuesInv, Means, Kind, Text, Index
<1>12. MadeInv'
  BY <1>1, <1>2, <1>4, <1>9, ValueGoesOn
<1>13. CallsInv'
  BY <1>1, <1>4, <1>8, <1>9, BecomesCalls
<1>14. WorkInv'
  <2> SUFFICES ASSUME NEW i \in Index, pool'[i].first # "none", Kind(i) # "unused"
               PROVE  /\ pool'[i].second = Null => AtWork(i, {"second"})'
                      /\ Kind(i) = "site" /\ real' = Null => AtWork(i, {"second", "descriptor"})'
    BY DEF WorkInv, Kind, Index, AtWork
  <2>1. CASE i = e
    BY <1>1, <1>4, <2>1, NowAtWork
  <2>2. CASE i # e
    BY <1>1, <1>2, <1>3, <1>5, <1>8, <2>2, AtWorkKept DEF WorkInv
  <2> QED
    BY <2>1, <2>2
<1>15. RealInv'
  BY <1>3 DEF IInv, RealInv, Kind
<1>16. TextInv'
  BY <1>1, <1>3, <1>4, <1>5, TextKept DEF Becomes
<1>17. AnswersInv'
  BY <1>3, <1>9, AnswersKept DEF IInv, AnswersInv, AnswersAreRight
<1> QED
  BY <1>10, <1>11, <1>12, <1>13, <1>14, <1>15, <1>16, <1>17 DEF IInv

LEMMA WriteSecondKeeps ==
  ASSUME PoolAssumption, IInv, NEW t \in Threads, WriteSecond(t)
  PROVE  IInv'
<1> DEFINE e == Frame(t).entry
           x == Frame(t).value
           p == Rest(Kind(e))
<1>1. TypeOK /\ CallsInv /\ MadeInv /\ TextInv /\ ValuesInv /\ WorkInv
  BY DEF IInv
<1>2. /\ reads[t] # <<>> /\ Frame(t).pc = "second" /\ Len(reads[t]) \in Nat \ {0} /\ e \in Index
      /\ Kind(e) # "unused" /\ Means(e, x) /\ x \in Nat \cup {Null} /\ pool[e].first = Kind(e)
  BY <1>1, TopIsRead DEF WriteSecond, At, Reads
<1>3. /\ pool' = [pool EXCEPT ![e].second = x]
      /\ UNCHANGED <<table, strings, real, got, answers, fate, asked>>
  BY DEF WriteSecond
<1>4. /\ p \in {"unused", "descriptor", "copy"}
      /\ p = "unused" => Kind(e) = "wide"
      /\ p = "descriptor" <=> Kind(e) = "site"
  BY DEF Rest
<1>5. Becomes(t, p, x)
  <2>1. Goto(t, p, x)
    BY DEF WriteSecond
  <2>2. p \in Pcs
    BY <1>4 DEF Pcs
  <2> HIDE DEF p
  <2> QED
    BY <1>1, <1>2, <2>1, <2>2, GotoBecomes
<1> HIDE DEF p
<1>6. OthersKeep(t) /\ Len(reads'[t]) = Len(reads[t])
  BY <1>5 DEF Becomes
<1>7. pool \in [Index -> [first : Kinds \cup {"none"}, second : Nat \cup {Null}]]
  BY <1>1 DEF ValuesInv
<1>8. /\ pool' \in [Index -> [first : Kinds \cup {"none"}, second : Nat \cup {Null}]]
      /\ pool'[e].second = x /\ \A i \in Index : pool'[i].first = pool[i].first
      /\ \A i \in Index \ {e} : pool'[i] = pool[i]
  BY <1>2, <1>3, <1>7
<1>9. Kept
  BY <1>3, <1>8 DEF Kept, Means
<1>10. TypeOK'
  BY <1>1, <1>3, <1>6, <1>8 DEF TypeOK, OthersKeep, Kind, Index
<1>11. ValuesInv'
  <2>1. ASSUME NEW i \in Index, pool'[i].second # Null
        PROVE  pool'[i].first = Kind(i) /\ Means(i, pool'[i].second)
    BY <1>1, <1>2, <1>8, <2>1 DEF ValuesInv
  <2>2. \A i \in Index : Means(i, pool'[i].second) => Means(i, pool[i].second)'
    BY <1>3 DEF Means
  <2> QED
    BY <1>1, <1>3, <1>8, <2>1, <2>2 DEF ValuesInv, Kind, Index
<1>12. MadeInv'
  BY <1>1, <1>2, <1>5, <1>9, ValueGoesOn
<1>13. CallsInv'
  BY <1>1, <1>2, <1>4, <1>5, <1>8, <1>9, BecomesCalls
<1>14. WorkInv'
  <2> SUFFICES ASSUME NEW i \in Index, pool'[i].first # "none", Kind(i) # "unused"
               PROVE  /\ pool'[i].second = Null => AtWork(i, {"second"})'
                      /\ Kind(i) = "site" /\ real' = Null => AtWork(i, {"second", "descriptor"})'
    BY DEF WorkInv, Kind, Index, AtWork
  <2>1. CASE i = e
    <3>1. pool'[i].second # Null
      <4>1. Null \notin Nat
        BY DEF PoolAssumption
      <4>2. CASE Kind(e) = "string"
        BY <1>1, <1>2, <1>8, <2>1, <4>1, <4>2 DEF Means, TypeOK, ValuesInv
      <4>3. CASE Kind(e) # "string"
        BY <1>2, <1>8, <2>1, <4>1, <4>3 DEF Means, PoolAssumption, Kind
      <4> QED
        BY <4>2, <4>3
    <3>2. Kind(i) = "site" => AtWork(i, {"second", "descriptor"})'
      BY <1>1, <1>4, <1>5, <2>1, NowAtWork
    <3> QED
      BY <3>1, <3>2
  <2>2. CASE i # e
    BY <1>1, <1>2, <1>3, <1>6, <1>8, <2>2, AtWorkKept DEF WorkInv
  <2> QED
    BY <2>1, <2>2
<1>15. RealInv'
  BY <1>3 DEF IInv, RealInv, Kind
<1>16. TextInv'
  BY <1>1, <1>3, <1>4, <1>5, <1>6, TextKept DEF Becomes
<1>17. AnswersInv'
  BY <1>3, <1>9, AnswersKept DEF IInv, AnswersInv, AnswersAreRight
<1> QED
  BY <1>10, <1>11, <1>12, <1>13, <1>14, <1>15, <1>16, <1>17 DEF IInv

LEMMA WriteUnusedKeeps ==
  ASSUME PoolAssumption, IInv, NEW t \in Threads, WriteUnused(t)
  PROVE  IInv'
<1> DEFINE e == Frame(t).entry
           x == Frame(t).value
<1>1. TypeOK /\ CallsInv /\ MadeInv /\ TextInv /\ ValuesInv /\ WorkInv
  BY DEF IInv
<1>2. /\ reads[t] # <<>> /\ Frame(t).pc = "unused" /\ Len(reads[t]) \in Nat \ {0} /\ e \in Index
      /\ Means(e, x) /\ x \in Nat \cup {Null} /\ pool[e].first = Kind(e) /\ Kind(e) = "wide"
  BY <1>1, TopIsRead, TopWork DEF WriteUnused, At, Reads
<1>3. /\ pool' = [pool EXCEPT ![e + 1] = [first |-> "unused", second |-> Null]]
      /\ UNCHANGED <<table, strings, real, got, answers, fate, asked>>
  BY DEF WriteUnused
<1>4. e + 1 \in Index /\ Kind(e + 1) = "unused" /\ e # e + 1
  BY <1>2 DEF PoolAssumption, Kind, Index
<1>5. Becomes(t, "copy", x)
  BY <1>1, <1>2, GotoBecomes DEF WriteUnused, Pcs
<1>6. OthersKeep(t) /\ Len(reads'[t]) = Len(reads[t])
  BY <1>5 DEF Becomes
<1>7. pool \in [Index -> [first : Kinds \cup {"none"}, second : Nat \cup {Null}]]
  BY <1>1 DEF ValuesInv
<1>8. /\ pool' \in [Index -> [first : Kinds \cup {"none"}, second : Nat \cup {Null}]]
      /\ pool'[e + 1].first = "unused" /\ pool'[e + 1].second = Null
      /\ \A i \in Index \ {e + 1} : pool'[i] = pool[i]
  BY <1>3, <1>4, <1>7 DEF Kinds
<1>9. Kept
  BY <1>3, <1>4, <1>8 DEF Kept, Means
<1>10. TypeOK'
  BY <1>1, <1>3, <1>4, <1>6, <1>8 DEF TypeOK, OthersKeep, Kind, Index
<1>11. ValuesInv'
  <2>1. ASSUME NEW i \in Index, pool'[i].second # Null
        PROVE  pool'[i].first = Kind(i) /\ Means(i, pool[i].second)' /\ pool'[i] = pool[i]
    BY <1>1, <1>3, <1>8, <2>1 DEF ValuesInv, Means
  <2>2. \A i \in Index : Means(i, pool'[i].second) => Means(i, pool[i].second)'
    BY <1>3 DEF Means
  <2> QED
    BY <1>1, <1>3, <1>8, <2>1, <2>2 DEF ValuesInv, Kind, Index
<1>12. MadeInv'
  BY <1>1, <1>2, <1>5, <1>9, ValueGoesOn
<1>13. CallsInv'
  BY <1>1, <1>2, <1>4, <1>5, <1>8, <1>9, BecomesCalls
<1>14. WorkInv'
  <2> SUFFICES ASSUME NEW i \in Index, pool'[i].first # "none", Kind(i) # "unused"
               PROVE  /\ pool'[i].second = Null => AtWork(i, {"second"})'
                      /\ Kind(i) = "site" /\ real' = Null => AtWork(i, {"second", "descriptor"})'
    BY DEF WorkInv, Kind, Index, AtWork
  <2>1. pool'[i] = pool[i]
    BY <1>4, <1>8
  <2> QED
    BY <1>1, <1>2, <1>3, <1>6, <2>1, AtWorkKept DEF WorkInv
<1>15. RealInv'
  BY <1>3 DEF IInv, RealInv, Kind
<1>16. TextInv'
  BY <1>1, <1>3, <1>5, <1>6, TextKept DEF Becomes
<1>17. AnswersInv'
  BY <1>3, <1>9, AnswersKept DEF IInv, AnswersInv, AnswersAreRight
<1> QED
  BY <1>10, <1>11, <1>12, <1>13, <1>14, <1>15, <1>16, <1>17 DEF IInv

LEMMA SetRealDescriptorKeeps ==
  ASSUME PoolAssumption, IInv, NEW t \in Threads, SetRealDescriptor(t)
  PROVE  IInv'
<1> DEFINE e == Frame(t).entry
           x == Frame(t).value
<1>1. TypeOK /\ CallsInv /\ MadeInv /\ TextInv /\ ValuesInv /\ WorkInv
  BY DEF IInv
<1>2. /\ reads[t] # <<>> /\ Frame(t).pc = "descriptor" /\ Len(reads[t]) \in Nat \ {0} /\ e \in Index
      /\ Means(e, x) /\ x \in Nat \cup {Null} /\ pool[e].first = Kind(e) /\ Kind(e) = "site"
      /\ e \in ToSet(asked)
  BY <1>1, TopIsRead, TopWork DEF SetRealDescriptor, At, Reads
<1>3. real' = Entries[e].descriptor /\ UNCHANGED <<pool, table, strings, got, answers, fate, asked>>
  BY DEF SetRealDescriptor
<1>4. real' # Null
  BY <1>2, <1>3 DEF PoolAssumption, Kind
<1>5. Becomes(t, "copy", x)
  BY <1>1, <1>2, GotoBecomes DEF SetRealDescriptor, Pcs
<1>6. OthersKeep(t) /\ Len(reads'[t]) = Len(reads[t])
  BY <1>5 DEF Becomes
<1>7. Kept
  BY <1>3 DEF Kept, Means
<1>8. TypeOK'
  BY <1>1, <1>3, <1>6 DEF TypeOK, OthersKeep, Kind, Index
<1>9. ValuesInv'
  BY <1>1, <1>3 DEF ValuesInv, Means, Kind, Text, Index
<1>10. MadeInv'
  BY <1>1, <1>2, <1>5, <1>7, ValueGoesOn
<1>11. CallsInv'
  BY <1>1, <1>2, <1>3, <1>5, <1>7, BecomesCalls
<1>12. WorkInv'
  <2> SUFFICES ASSUME NEW i \in Index, pool[i].first # "none", Kind(i) # "unused", pool[i].second = Null
               PROVE  AtWork(i, {"second"})'
    BY <1>3, <1>4 DEF WorkInv, Kind, Index, AtWork
  <2> QED
    BY <1>1, <1>2, <1>6, AtWorkKept DEF WorkInv
<1>13. RealInv'
  BY <1>2, <1>3 DEF RealInv, Kind
<1>14. TextInv'
  BY <1>1, <1>3, <1>5, <1>6, TextKept DEF Becomes
<1>15. AnswersInv'
  BY <1>3, <1>7, AnswersKept DEF IInv, AnswersInv, AnswersAreRight
<1> QED
  BY <1>8, <1>9, <1>10, <1>11, <1>12, <1>13, <1>14, <1>15 DEF IInv

\* The table has the content, and its strings stay what they are.
LEMMA InternedIsRight ==
  ASSUME PoolAssumption, IInv, NEW c \in Nat,
         table' = [d \in DOMAIN table \cup {c} |-> IF d = c THEN Interned(c) ELSE table[d]],
         strings' = strings + 1
  PROVE  /\ Interned(c) \in Nat /\ c \in DOMAIN table' /\ table'[c] = Interned(c)
         /\ \A d \in DOMAIN table : d \in DOMAIN table' /\ table'[d] = table[d]
         /\ \A d \in DOMAIN table' : table'[d] \in 1 .. strings'
         /\ \A b, d \in DOMAIN table' : table'[b] = table'[d] => b = d
<1>1. strings \in Nat /\ \A d \in DOMAIN table : table[d] \in 1 .. strings
  BY DEF IInv, TypeOK, ValuesInv
<1>2. \A b, d \in DOMAIN table : table[b] = table[d] => b = d
  BY DEF IInv, ValuesInv
<1>3. DOMAIN table' = DOMAIN table \cup {c} /\ \A d \in DOMAIN table' : table'[d] = IF d = c THEN Interned(c) ELSE table[d]
  OBVIOUS
<1>4. CASE c \in DOMAIN table
  <2>1. Interned(c) = table[c]
    BY <1>4 DEF Interned
  <2> QED
    BY <1>1, <1>2, <1>3, <1>4, <2>1
<1>5. CASE c \notin DOMAIN table
  <2>1. Interned(c) = strings + 1
    BY <1>5 DEF Interned
  <2>2. \A d \in DOMAIN table : d # c /\ table[d] # strings + 1 /\ table[d] \in 1 .. strings + 1
    BY <1>1, <1>5
  <2> QED
    BY <1>1, <1>2, <1>3, <2>1, <2>2
<1> QED
  BY <1>4, <1>5

LEMMA InternKeeps ==
  ASSUME PoolAssumption, IInv, NEW t \in Threads, Intern(t)
  PROVE  IInv'
<1> DEFINE e == Frame(t).entry
<1>1. TypeOK /\ CallsInv /\ MadeInv /\ TextInv /\ ValuesInv /\ WorkInv
  BY DEF IInv
<1>2. /\ reads[t] # <<>> /\ Frame(t).pc = "intern" /\ Len(reads[t]) \in Nat \ {0} /\ e \in Index
      /\ Kind(e) = "string"
  BY <1>1, TopIsRead, TopWork DEF Intern, At
<1>3. UNCHANGED <<pool, real, got, answers, asked>>
  BY DEF Intern
<1>4. CASE got[t] = Null
  <2>1. UNCHANGED <<reads, table, strings>> /\ fate' = "crashed"
    BY <1>4 DEF Intern
  <2>2. \E a \in answers : a.overlapped /\ a.value = Null
    BY <1>1, <1>2, <1>4 DEF TextInv
  <2>3. Kept
    BY <1>3, <2>1 DEF Kept, Means
  <2>4. TypeOK' /\ ValuesInv'
    BY <1>1, <1>3, <2>1 DEF TypeOK, ValuesInv, Means, Kind, Text, Index
  <2>5. MadeInv' /\ CallsInv'
    <3>1. \A u, k : Made(u, k) => Made(u, k)'
      BY <2>1 DEF Made, Means
    <3>2. \A u, k : InPlace(u, k) => InPlace(u, k)'
      BY <1>3, <2>1 DEF InPlace
    <3> QED
      BY <1>1, <2>1, <3>1, <3>2 DEF MadeInv, CallsInv
  <2>6. WorkInv' /\ RealInv' /\ TextInv'
    BY <1>3, <2>1 DEF IInv, WorkInv, AtWork, RealInv, TextInv, Frame, Kind, Text, Index
  <2>7. AnswersInv'
    BY <1>3, <2>2, <2>3, AnswersKept DEF IInv
  <2> QED
    BY <2>4, <2>5, <2>6, <2>7 DEF IInv
<1>5. CASE got[t] # Null
  <2> DEFINE c == got[t]
             x == Interned(c)
  <2>1. c = Text(e) /\ c \in Nat
    BY <1>1, <1>2, <1>5 DEF TextInv, TypeOK
  <2>2. /\ table' = [d \in DOMAIN table \cup {c} |-> IF d = c THEN x ELSE table[d]]
        /\ strings' = strings + 1 /\ fate' = fate /\ Goto(t, "first", x)
    BY <1>5 DEF Intern
  <2>3. /\ x \in Nat /\ c \in DOMAIN table' /\ table'[c] = x
        /\ \A d \in DOMAIN table : d \in DOMAIN table' /\ table'[d] = table[d]
        /\ \A d \in DOMAIN table' : table'[d] \in 1 .. strings'
        /\ \A b, d \in DOMAIN table' : table'[b] = table'[d] => b = d
    BY <2>1, <2>2, InternedIsRight
  <2> HIDE DEF x
  <2>4. Becomes(t, "first", x)
    BY <1>1, <1>2, <2>2, <2>3, GotoBecomes DEF Pcs
  <2>5. OthersKeep(t) /\ Len(reads'[t]) = Len(reads[t])
    BY <2>4 DEF Becomes
  <2>6. Kept
    BY <1>3, <2>3 DEF Kept, Means
  <2>7. TypeOK'
    BY <1>1, <1>3, <2>2, <2>3, <2>5 DEF TypeOK, OthersKeep, Kind, Index
  <2>8. ValuesInv'
    <3>1. strings' \in Nat
      BY <1>1, <2>2 DEF ValuesInv
    <3>2. \A i \in Index : pool[i].second # Null => pool[i].first = Kind(i) /\ Means(i, pool[i].second)'
      <4> TAKE i \in Index
      <4>1. pool[i].second \in Nat \cup {Null}
        BY <1>1 DEF ValuesInv
      <4>2. PICK y \in Nat \cup {Null} : y = pool[i].second
        BY <4>1
      <4>3. pool[i].second # Null => Means(i, y)'
        BY <1>1, <2>6, <4>2 DEF ValuesInv, Kept
      <4>4. Means(i, y)' => Means(i, pool[i].second)'
        BY <1>3, <4>2 DEF Means
      <4> QED
        BY <1>1, <4>3, <4>4 DEF ValuesInv
    <3> QED
      BY <1>1, <1>3, <2>3, <3>1, <3>2 DEF ValuesInv, Kind, Index
  <2>9. MadeInv'
    <3>1. ASSUME NEW k \in 1 .. Len(reads'[t]), k >= Len(reads[t])
          PROVE  Made(t, k)'
      <4>1. k = Len(reads[t])
        BY <1>2, <2>5, <3>1
      <4>2. PICK f \in Index : f = e
        BY <1>2
      <4>3. reads'[t][k].entry = f /\ reads'[t][k].value = x
        BY <2>4, <4>1, <4>2 DEF Becomes
      <4> QED
        BY <1>2, <2>1, <2>3, <4>2, <4>3 DEF Made, Means, Kind, Text
    <3> QED
      BY <1>1, <2>5, <2>6, <3>1, MadeKept
  <2>10. CallsInv'
    BY <1>1, <2>4, <2>6, BecomesCalls
  <2>11. WorkInv'
    BY <1>2, <1>3, <2>5, WorkKept
  <2>12. RealInv'
    BY <1>3 DEF IInv, RealInv, Kind
  <2>13. TextInv'
    BY <1>1, <1>3, <2>4, <2>5, TextKept DEF Becomes
  <2>14. AnswersInv'
    BY <1>3, <2>2, <2>6, AnswersKept DEF IInv, AnswersInv, AnswersAreRight
  <2> QED
    BY <2>7, <2>8, <2>9, <2>10, <2>11, <2>12, <2>13, <2>14 DEF IInv
<1> QED
  BY <1>4, <1>5

\* The call that waits for a text is given it.
LEMMA CopyGivesText ==
  ASSUME PoolAssumption, IInv, NEW t \in Threads, Copy(t), Returns(t)
  PROVE  TextInv'
<1> DEFINE e == Frame(t).entry
<1>1. TypeOK /\ CallsInv /\ MadeInv /\ TextInv /\ ValuesInv /\ WorkInv
  BY DEF IInv
<1>2. /\ reads[t] # <<>> /\ Frame(t).pc = "copy" /\ Len(reads[t]) \in Nat \ {0} /\ e \in Index
      /\ Frame(t) = reads[t][Len(reads[t])] /\ pool[e].first = Kind(e) /\ Kind(e) # "unused"
  BY <1>1, TopIsRead DEF Copy, At
<1>3. got' = [got EXCEPT ![t] = pool[e].second] /\ got \in [Threads -> Nat \cup {Null}]
  BY <1>1 DEF Copy, TypeOK
<1>4. OthersKeep(t) /\ Len(reads'[t]) = Len(reads[t]) - 1
  BY DEF Returns
<1> SUFFICES ASSUME NEW u \in Threads, reads'[u] # <<>>, Frame(u)'.pc = "intern"
             PROVE  IF got'[u] = Null THEN \E a \in answers' : a.overlapped /\ a.value = Null
                    ELSE got'[u] = Text(Frame(u)'.entry)
  BY DEF TextInv, Text
<1>5. CASE u # t
  <2>1. reads'[u] = reads[u] /\ got'[u] = got[u] /\ answers \subseteq answers'
    BY <1>3, <1>4, <1>5 DEF OthersKeep, Copy
  <2>2. Frame(u)' = Frame(u)
    BY <2>1 DEF Frame
  <2> QED
    BY <1>1, <2>1, <2>2 DEF TextInv
<1>6. CASE u = t
  <2> DEFINE k == Len(reads[t]) - 1
  <2>1. Frame(t)' = reads'[t][Len(reads'[t])] /\ Len(reads'[t]) \in Nat \ {0}
    BY <1>4, <1>6, TopAfter
  <2>2. k \in 1 .. Len(reads[t]) /\ k \in 1 .. Len(reads[t]) - 1 /\ k < Len(reads[t]) /\ k + 1 = Len(reads[t])
    <3>1. PICK n \in Nat : n = Len(reads[t])
      BY <1>2
    <3>2. n # 0 /\ n - 1 # 0
      BY <1>2, <1>4, <2>1, <3>1
    <3>3. n - 1 \in 1 .. n /\ n - 1 \in 1 .. n - 1 /\ n - 1 < n /\ n - 1 + 1 = n
      BY <3>2
    <3> QED
      BY <3>1, <3>3
  <2> HIDE DEF k
  <2>3. Frame(t)' = reads[t][k]
    BY <1>2, <1>4, <2>1, <2>2 DEF OthersKeep, k
  <2>4. /\ Kind(reads[t][k].entry) = "string" /\ e = Entries[reads[t][k].entry].text
    BY <1>1, <1>2, <1>6, <2>2, <2>3 DEF CallsInv, InPlace
  <2>5. reads[t][k].entry \in Index
    <3>1. reads[t] \in Seq(Reads)
      BY <1>1 DEF TypeOK
    <3>2. reads[t][k] \in Reads
      BY <2>2, <3>1
    <3> QED
      BY <3>2 DEF Reads
  <2>6. Kind(e) = "text"
    BY <2>4, <2>5 DEF PoolAssumption, Kind
  <2>7. got'[t] = pool[e].second
    BY <1>3
  <2>8. CASE pool[e].second = Null
    <3>1. AtWork(e, {"second"})
      BY <1>1, <1>2, <2>6, <2>8 DEF WorkInv
    <3>2. PICK w \in Threads : \E n \in 1 .. Len(reads[w]) : reads[w][n].entry = e /\ reads[w][n].pc = "second"
      BY <3>1 DEF AtWork
    <3>3. w # t
      <4> PICK n \in 1 .. Len(reads[w]) : reads[w][n].entry = e /\ reads[w][n].pc = "second"
        BY <3>2
      <4> SUFFICES ASSUME w = t
                   PROVE  FALSE
        OBVIOUS
      <4>1. n # Len(reads[t])
        BY <1>2, <3>2
      <4>2. n < Len(reads[t]) /\ InPlace(t, n)
        BY <1>1, <1>2, <3>2, <4>1 DEF CallsInv
      <4> QED
        BY <3>2, <4>2 DEF InPlace
    <3>4. Overlapped(t, e)
      BY <3>2, <3>3 DEF Overlapped
    <3>5. PICK b \in answers' :
            b = [entry |-> e, tag |-> pool[e].first, value |-> pool[e].second, descriptor |-> real,
                 overlapped |-> Overlapped(t, e), sites |-> {j \in ToSet(asked) : Kind(j) = "site"}]
      BY Zenon DEF Copy
    <3>6. b.overlapped = Overlapped(t, e) /\ b.value = pool[e].second
      BY <3>5
    <3>7. \E a \in answers' : a.overlapped /\ a.value = Null
      BY <2>8, <3>4, <3>6
    <3> QED
      BY <1>6, <3>7, <2>7, <2>8
  <2>9. CASE pool[e].second # Null
    <3>1. pool[e].second = Entries[e].content
      BY <1>1, <1>2, <2>6, <2>9 DEF ValuesInv, Means
    <3> QED
      BY <1>6, <2>3, <2>4, <2>7, <2>9, <3>1 DEF Text
  <2> QED
    BY <2>8, <2>9
<1> QED
  BY <1>5, <1>6

\* The pair a call returns is right, and so is the descriptor.
LEMMA CopyAnswers ==
  ASSUME PoolAssumption, IInv, NEW t \in Threads, Copy(t), Kept
  PROVE  AnswersInv'
<1> DEFINE e == Frame(t).entry
           b == [entry |-> e, tag |-> pool[e].first, value |-> pool[e].second, descriptor |-> real,
                 overlapped |-> Overlapped(t, e), sites |-> {j \in ToSet(asked) : Kind(j) = "site"}]
<1>1. TypeOK /\ CallsInv /\ MadeInv /\ ValuesInv /\ WorkInv /\ AnswersInv
  BY DEF IInv
<1>2. /\ reads[t] # <<>> /\ Frame(t).pc = "copy" /\ Len(reads[t]) \in Nat \ {0} /\ e \in Index
      /\ Frame(t) = reads[t][Len(reads[t])] /\ pool[e].first = Kind(e) /\ Kind(e) # "unused"
  BY <1>1, TopIsRead DEF Copy, At
<1>3. answers' = answers \cup {b} /\ UNCHANGED <<pool, table, strings, real, fate, asked>>
  BY DEF Copy
<1>4. ASSUME NEW pcs \in {{"second"}, {"second", "descriptor"}}, AtWork(e, pcs)
      PROVE  Overlapped(t, e)
  <2>1. PICK w \in Threads : \E n \in 1 .. Len(reads[w]) : reads[w][n].entry = e /\ reads[w][n].pc \in pcs
    BY <1>4 DEF AtWork
  <2>2. w # t
    <3> PICK n \in 1 .. Len(reads[w]) : reads[w][n].entry = e /\ reads[w][n].pc \in pcs
      BY <2>1
    <3> SUFFICES ASSUME w = t
                 PROVE  FALSE
      OBVIOUS
    <3>1. n # Len(reads[t])
      BY <1>2, <1>4, <2>1
    <3>2. n < Len(reads[t]) /\ InPlace(t, n)
      BY <1>1, <1>2, <2>1, <3>1 DEF CallsInv
    <3> QED
      BY <1>4, <2>1, <3>2 DEF InPlace
  <2> QED
    BY <1>4, <2>1, <2>2 DEF Overlapped
<1>5. pool[e].second \in Nat \cup {Null} /\ Kind(e) \in Kinds
  BY <1>1, <1>2 DEF ValuesInv, PoolAssumption, Kind
<1>6. IF b.value = Null THEN b.overlapped ELSE Means(b.entry, b.value)
  <2>1. CASE pool[e].second = Null
    BY <1>1, <1>2, <1>4, <1>5, <2>1 DEF WorkInv, Kinds
  <2>2. CASE pool[e].second # Null
    BY <1>1, <1>2, <2>2 DEF ValuesInv
  <2> QED
    BY <2>1, <2>2
<1>7. Kind(e) = "site" /\ b.sites = {e} /\ ~b.overlapped => b.descriptor = Entries[e].descriptor
  <2> SUFFICES ASSUME Kind(e) = "site", {j \in ToSet(asked) : Kind(j) = "site"} = {e}, ~Overlapped(t, e)
               PROVE  real = Entries[e].descriptor
    OBVIOUS
  <2>1. ~AtWork(e, {"second", "descriptor"})
    BY <1>4
  <2>2. real # Null
    BY <1>1, <1>2, <2>1 DEF WorkInv
  <2>3. PICK i \in ToSet(asked) : Kind(i) = "site" /\ real = Entries[i].descriptor
    BY <2>2 DEF IInv, RealInv
  <2> QED
    BY <2>3
<1>8. b.entry = e /\ b.tag = Kind(e) /\ b.value = pool[e].second
  BY <1>2
<1> HIDE DEF b
<1>9. \A a \in answers' : a.entry \in Index /\ a.value \in Nat \cup {Null}
  BY <1>1, <1>2, <1>3, <1>5, <1>8 DEF AnswersInv
<1>10. \A a \in answers' :
         a.tag = Kind(a.entry) /\ IF a.value = Null THEN a.overlapped ELSE Means(a.entry, a.value)
  BY <1>1, <1>3, <1>6, <1>8 DEF AnswersInv, AnswersAreRight
<1>11. AnswersAreRight'
  BY <1>1, <1>3, <1>10 DEF AnswersInv, AnswersAreRight, Means, Kind
<1>12. SitesUseTheirDescriptor'
  BY <1>1, <1>3, <1>7, <1>8 DEF AnswersInv, SitesUseTheirDescriptor, Kind
<1> QED
  BY <1>9, <1>11, <1>12 DEF AnswersInv, Index

LEMMA CopyKeeps ==
  ASSUME PoolAssumption, IInv, NEW t \in Threads, Copy(t)
  PROVE  IInv'
<1> DEFINE e == Frame(t).entry
<1>1. TypeOK /\ CallsInv /\ MadeInv /\ TextInv /\ ValuesInv /\ WorkInv
  BY DEF IInv
<1>2. /\ reads[t] # <<>> /\ Frame(t).pc = "copy" /\ Len(reads[t]) \in Nat \ {0} /\ e \in Index
  BY <1>1, TopIsRead DEF Copy, At
<1>3. UNCHANGED <<pool, table, strings, real, fate, asked>> /\ got' = [got EXCEPT ![t] = pool[e].second]
  BY DEF Copy
<1>4. Returns(t)
  BY <1>1, <1>2, FrontReturns DEF Copy
<1>5. OthersKeep(t) /\ Len(reads'[t]) = Len(reads[t]) - 1
  BY <1>4 DEF Returns
<1>6. Kept
  BY <1>3 DEF Kept, Means
<1>7. got' \in [Threads -> Nat \cup {Null}]
  BY <1>1, <1>2, <1>3 DEF TypeOK, ValuesInv
<1>8. TypeOK'
  BY <1>1, <1>3, <1>5, <1>7 DEF TypeOK, OthersKeep, Kind, Index
<1>9. ValuesInv'
  BY <1>1, <1>3 DEF ValuesInv, Means, Kind, Text, Index
<1>10. MadeInv'
  <2>1. \A k \in 1 .. Len(reads'[t]) : ~ (k >= Len(reads[t]))
    BY <1>2, <1>5
  <2> QED
    BY <1>1, <1>5, <1>6, <2>1, MadeKept
<1>11. CallsInv'
  BY <1>1, <1>4, <1>6, ReturnsCalls
<1>12. WorkInv'
  BY <1>2, <1>3, <1>5, WorkKept
<1>13. RealInv'
  BY <1>3 DEF IInv, RealInv, Kind
<1>14. TextInv'
  BY <1>4, CopyGivesText
<1>15. AnswersInv'
  BY <1>6, CopyAnswers
<1> QED
  BY <1>8, <1>9, <1>10, <1>11, <1>12, <1>13, <1>14, <1>15 DEF IInv

-----------------------------------------------------------------------------
(* The theorems.                                                            *)

LEMMA InitInv ==
  ASSUME PoolAssumption, Init
  PROVE  IInv
<1>1. TypeOK
  <2>1. <<>> \in Seq(Reads) /\ <<>> \in Seq(Index) /\ Len(<<>>) = 0 /\ DOMAIN <<>> = {}
    OBVIOUS
  <2> QED
    BY <2>1 DEF Init, TypeOK, PoolAssumption
<1>2. \A t \in Threads : reads[t] = <<>> /\ 1 .. Len(reads[t]) = {}
  BY DEF Init
<1>3. \A i \in Index : pool[i].first = "none" /\ pool[i].second = Null
  BY DEF Init
<1>4. ValuesInv
  BY <1>3 DEF Init, ValuesInv
<1>5. MadeInv /\ CallsInv
  BY <1>2 DEF MadeInv, CallsInv
<1>6. WorkInv /\ RealInv /\ TextInv
  BY <1>2, <1>3 DEF WorkInv, RealInv, TextInv, Init
<1>7. AnswersInv
  BY DEF AnswersInv, AnswersAreRight, SitesUseTheirDescriptor, Init
<1> QED
  BY <1>1, <1>4, <1>5, <1>6, <1>7 DEF IInv

LEMMA StutterKeeps ==
  ASSUME IInv, UNCHANGED vars
  PROVE  IInv'
<1>1. UNCHANGED <<pool, table, strings, real, reads, got, answers, fate, asked>>
  BY DEF vars
<1>2. TypeOK' /\ ValuesInv'
  BY <1>1 DEF IInv, TypeOK, ValuesInv, Means, Kind, Text, Index
<1>3. MadeInv'
  BY <1>1 DEF IInv, MadeInv, Made, Means
<1>4. CallsInv'
  BY <1>1 DEF IInv, CallsInv, InPlace
<1>5. WorkInv' /\ RealInv' /\ TextInv'
  BY <1>1 DEF IInv, WorkInv, AtWork, RealInv, TextInv, Frame, Kind, Text, Index
<1>6. Kept
  BY <1>1 DEF Kept, Means
<1>7. AnswersInv'
  BY <1>1, <1>6, AnswersKept DEF IInv, AnswersInv, AnswersAreRight
<1> QED
  BY <1>2, <1>3, <1>4, <1>5, <1>7 DEF IInv

\* The inductive invariant of the pool holds in every state, for any threads and entries.
THEOREM Invariance ==
  ASSUME PoolAssumption
  PROVE  Spec => []IInv
<1>1. Init => IInv
  BY InitInv
<1>2. IInv /\ [Next]_vars => IInv'
  <2> SUFFICES ASSUME IInv, [Next]_vars
               PROVE  IInv'
    OBVIOUS
  <2>1. CASE UNCHANGED vars
    BY <2>1, StutterKeeps
  <2>2. ASSUME NEW t \in Threads, NEW i \in Index, Ask(t, i)
        PROVE  IInv'
    BY <2>2, AskKeeps
  <2>3. ASSUME NEW t \in Threads, Look(t)
        PROVE  IInv'
    BY <2>3, LookKeeps
  <2>4. ASSUME NEW t \in Threads, Intern(t)
        PROVE  IInv'
    BY <2>4, InternKeeps
  <2>5. ASSUME NEW t \in Threads, WriteFirst(t)
        PROVE  IInv'
    BY <2>5, WriteFirstKeeps
  <2>6. ASSUME NEW t \in Threads, WriteSecond(t)
        PROVE  IInv'
    BY <2>6, WriteSecondKeeps
  <2>7. ASSUME NEW t \in Threads, WriteUnused(t)
        PROVE  IInv'
    BY <2>7, WriteUnusedKeeps
  <2>8. ASSUME NEW t \in Threads, SetRealDescriptor(t)
        PROVE  IInv'
    BY <2>8, SetRealDescriptorKeeps
  <2>9. ASSUME NEW t \in Threads, Copy(t)
        PROVE  IInv'
    BY <2>9, CopyKeeps
  <2> QED
    BY <2>1, <2>2, <2>3, <2>4, <2>5, <2>6, <2>7, <2>8, <2>9 DEF Next
<1> QED
  BY <1>1, <1>2, PTL DEF Spec

\* The state has the types the code gives it (constantpool.h).
THEOREM TypeCorrect ==
  ASSUME PoolAssumption
  PROVE  Spec => []TypeOK
<1>1. IInv => TypeOK
  BY DEF IInv
<1> QED
  BY <1>1, Invariance, PTL

\* Although no lock protects an entry, operator[] returns the tag and the value of the class
\* file to every thread, or a null pointer to one that asks between another one's two writes.
THEOREM RightAnswers ==
  ASSUME PoolAssumption
  PROVE  Spec => []AnswersAreRight
<1>1. IInv => AnswersAreRight
  BY DEF IInv, AnswersInv
<1> QED
  BY <1>1, Invariance, PTL

\* Two string constants are one object exactly when their contents are equal: intern under the
\* table's lock makes up for entries that are parsed twice.
THEOREM OneString ==
  ASSUME PoolAssumption
  PROVE  Spec => []StringsAreOne
<1>1. ASSUME IInv
      PROVE  StringsAreOne
  <2> SUFFICES ASSUME NEW a \in answers, NEW b \in answers, Kind(a.entry) = "string", Kind(b.entry) = "string",
                      a.value # Null, b.value # Null
               PROVE  a.value = b.value <=> Text(a.entry) = Text(b.entry)
    BY DEF StringsAreOne
  <2>1. Means(a.entry, a.value) /\ Means(b.entry, b.value)
    BY <1>1 DEF IInv, AnswersInv, AnswersAreRight
  <2> QED
    BY <1>1, <2>1 DEF Means, IInv, ValuesInv
<1> QED
  BY <1>1, Invariance, PTL

\* A call through MethodHandle.invoke finds the descriptor of its own site in the Method all
\* sites share, as long as no other site is used and nobody is just resolving this one.
THEOREM SitesAreRight ==
  ASSUME PoolAssumption
  PROVE  Spec => []SitesUseTheirDescriptor
<1>1. IInv => SitesUseTheirDescriptor
  BY DEF IInv, AnswersInv
<1> QED
  BY <1>1, Invariance, PTL
=============================================================================
